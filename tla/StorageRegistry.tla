-------------------------- MODULE StorageRegistry --------------------------
(***************************************************************************)
(* storage/load.go: the map of storages by name, filled on first use by    *)
(* whoever asks first (LoadStorages at the start, then every handler), and *)
(* the lists of storages by user that LoadStorages leaves for the menus.   *)
(* Asking for a storage that is not there yet is a flight of singleflight: *)
(* callers that come while it is in the air share its outcome.             *)
(***************************************************************************)
EXTENDS Naturals, Sequences, FiniteSets

CONSTANTS
  Names,        \* the names of the configured storages
  UserIDs,      \* the configured users, a sequence of ids
  NamesOf,      \* [users -> a sequence of names]: what the configuration gives each
  Callers,      \* goroutines that ask for one storage each
  Loader,       \* the goroutine that runs LoadStorages
  NoStorage,
  MaxInstances  \* instances that are ever made

VARIABLES
  storages,     \* Storages: [Names -> instance or NoStorage]
  made,         \* instances made so far
  flight,       \* [Names -> the flight in the air: its leader and where it is]
  caller,       \* [Callers \cup {Loader} -> where it is, the name, what it got]
  toLoad,       \* the names LoadStorages has still to ask for
  lists         \* UserStorages: a function from ids to sets of instances

registryVars == <<storages, made, flight, caller, toLoad, lists>>

Everyone == Callers \cup {Loader}
Grounded == [pc |-> "none"]
Users == {UserIDs[i] : i \in DOMAIN UserIDs}

RegistryInit ==
  /\ storages = [n \in Names |-> NoStorage]
  /\ made = 0
  /\ flight = [n \in Names |-> Grounded]
  /\ caller = [c \in Everyone |-> [pc |-> "idle"]]
  /\ toLoad = Names
  /\ lists = <<>>

----------------------------------------------------------------------------
(* GetStorageByName: a look under the read lock, then the flight of the name. *)
Existing(n) == storages[n]

Ask(c, n) ==
  /\ caller[c].pc = "idle"
  /\ c = Loader => n \in toLoad
  /\ caller' = [caller EXCEPT ![c] =
       IF Existing(n) # NoStorage THEN [pc |-> "got", name |-> n, stor |-> Existing(n)]
       ELSE [pc |-> "missed", name |-> n]]
  /\ toLoad' = IF c = Loader THEN toLoad \ {n} ELSE toLoad
  /\ UNCHANGED <<storages, made, flight, lists>>

Lead(c) ==
  /\ caller[c].pc = "missed"
  /\ LET n == caller[c].name
     IN /\ flight[n] = Grounded
        /\ flight' = [flight EXCEPT ![n] = [pc |-> "look", aboard |-> {c}]]
  /\ caller' = [caller EXCEPT ![c].pc = "aboard"]
  /\ UNCHANGED <<storages, made, toLoad, lists>>

Join(c) ==
  /\ caller[c].pc = "missed"
  /\ LET n == caller[c].name
     IN /\ flight[n] # Grounded
        /\ flight' = [flight EXCEPT ![n].aboard = @ \cup {c}]
  /\ caller' = [caller EXCEPT ![c].pc = "aboard"]
  /\ UNCHANGED <<storages, made, toLoad, lists>>

(* A flight lands: everyone aboard gets the same instance, or the same error. *)
Land(n, stor) ==
  /\ caller' = [c \in Everyone |-> IF c \in flight[n].aboard THEN [pc |-> "got", name |-> n, stor |-> stor]
                                   ELSE caller[c]]
  /\ flight' = [flight EXCEPT ![n] = Grounded]

(* Inside the flight: another look, NewStorage, which may fail, and a last *)
(* look under the write lock.                                              *)
LookAgain(n) ==
  /\ flight[n].pc = "look"
  /\ IF Existing(n) # NoStorage THEN Land(n, Existing(n))
     ELSE /\ flight' = [flight EXCEPT ![n].pc = "make"]
          /\ UNCHANGED caller
  /\ UNCHANGED <<storages, made, toLoad, lists>>

NewStorage(n) ==
  /\ flight[n].pc = "make" /\ made < MaxInstances
  /\ made' = made + 1
  /\ flight' = [flight EXCEPT ![n] = [pc |-> "keep", aboard |-> flight[n].aboard, stor |-> made + 1]]
  /\ UNCHANGED <<storages, caller, toLoad, lists>>

InitFails(n) ==
  /\ flight[n].pc = "make"
  /\ Land(n, NoStorage)
  /\ UNCHANGED <<storages, made, toLoad, lists>>

KeepsNot(n) ==
  /\ flight[n].pc = "keep" /\ Land(n, flight[n].stor)
  /\ UNCHANGED <<storages, made, toLoad, lists>>

Keep(n) ==
  /\ flight[n].pc = "keep"
  /\ LET stor == IF Existing(n) # NoStorage THEN Existing(n) ELSE flight[n].stor
     IN /\ storages' = [storages EXCEPT ![n] = stor]
        /\ Land(n, stor)
  /\ UNCHANGED <<made, toLoad, lists>>

----------------------------------------------------------------------------
(* LoadStorages asks for every storage in turn, passing over errors, and then *)
(* makes the lists; it ranges over the slice of ids, so what it takes for a   *)
(* user is the position of one.                                               *)
NextName ==
  /\ caller[Loader].pc = "got" /\ toLoad # {}
  /\ caller' = [caller EXCEPT ![Loader] = [pc |-> "idle"]]
  /\ UNCHANGED <<storages, made, flight, toLoad, lists>>

(* A name that the configuration gives a user and that no storage has is passed over. *)
Known(u) == {n \in Names : u \in Users /\ \E i \in DOMAIN NamesOf[u] : NamesOf[u][i] = n}

GetUserStorages(u) ==
  IF u \in DOMAIN lists THEN lists[u] ELSE {storages[n] : n \in Known(u)} \ {NoStorage}

Positions == 0..(Len(UserIDs) - 1)

MakeLists ==
  /\ caller[Loader].pc = "got" /\ toLoad = {}
  /\ lists' = [u \in Positions |-> GetUserStorages(u)]
  /\ caller' = [caller EXCEPT ![Loader] = [pc |-> "done"]]
  /\ UNCHANGED <<storages, made, flight, toLoad>>

RegistryNext ==
  \/ \E c \in Everyone : (\E n \in Names : Ask(c, n)) \/ Lead(c) \/ Join(c)
  \/ \E n \in Names : LookAgain(n) \/ NewStorage(n) \/ InitFails(n) \/ Keep(n)
  \/ NextName \/ MakeLists

RegistryFairness ==
  /\ \A c \in Everyone : WF_registryVars(Lead(c) \/ Join(c))
  /\ \A n \in Names : WF_registryVars(LookAgain(n) \/ NewStorage(n) \/ InitFails(n) \/ Keep(n))

RegistrySpec == RegistryInit /\ [][RegistryNext]_registryVars /\ RegistryFairness

----------------------------------------------------------------------------
(* Whoever holds an instance of a name, a caller or the list of a user, holds *)
(* the one the map has: a limiter or a token of a storage is never in two    *)
(* copies, though many ask at once and a flight may fail (load.go:47-88). *)
OneInstance ==
  /\ \A c \in Everyone : caller[c].pc = "got" => caller[c].stor \in {storages[caller[c].name], NoStorage}
  /\ \A u \in DOMAIN lists : lists[u] \subseteq {storages[n] : n \in Names}

(* Everyone who asks gets an answer: nobody waits for a flight that landed. *)
EveryoneAnswered == \A c \in Callers : caller[c].pc \in {"missed", "aboard"} ~> caller[c].pc = "got"
=============================================================================
