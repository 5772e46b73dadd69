---------------------------- MODULE Identifiers ----------------------------
(***************************************************************************)
(* The names that the registry and the channels share.                     *)
(*                                                                         *)
(* A member of Clients stands for a descriptor together with the Client    *)
(* object it names: _clients holds one object per descriptor, and both are *)
(* reused once the object is deleted.                                      *)
(*                                                                         *)
(* Here and in the other modules an operator Name_Slip is Name with a slip *)
(* that a programmer could make; no specification uses it.  Put in Name's  *)
(* place it breaks a property, which shows what the property guards.       *)
(***************************************************************************)

EXTENDS FiniteSets

CONSTANTS Clients,     \* descriptors, each with its Client object
          Nicks,       \* the nicknames that checkNick accepts
          NoNick,      \* the empty nickname
          NoClient     \* no entry in a map of Client pointers

ASSUME IdentifiersAssumption ==
  /\ NoNick \notin Nicks
  /\ NoClient \notin Clients

\* checkNick bounds their length.
ASSUME NicksFinite == IsFiniteSet(Nicks)

\* std::map<std::string, Client*>, keyed by nickname.
ClientMap == [Nicks -> Clients \cup {NoClient}]
EmptyMap == [n \in Nicks |-> NoClient]
KeysOf(map) == {n \in Nicks : map[n] # NoClient}
Erase(map, names) == [n \in Nicks |-> IF n \in names THEN NoClient ELSE map[n]]
=============================================================================
