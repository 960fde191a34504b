---------------------------- MODULE MCRegisters -----------------------------
(* The registers a worker keeps beside the ledger, for TLC: requests, goals  *)
(* and the shelf, and the vault with the endpoint book. A behaviour is about *)
(* one of the two.                                                           *)
EXTENDS Reviewing, Providers

(* For what lands: grounds that overlap as a path and its room do, and one   *)
(* outside the city.                                                         *)
Some(n, what) == [t \in Things |-> IF t \in what THEN n ELSE 0]
And(one, other) == [t \in Things |-> one[t] + other[t]]

\* Requests raced by direct writes; shelf entries under review; goals.
Sittings == {And(Some(2, {"wave", "open", "check"}), Some(1, {"exec", "crash"})),
             And(Some(2, {"archive", "open", "check"}), Some(1, {"exec", "wave"})),
             And(Some(3, {"goal"}), Some(1, {"crash"}))}

TheResidents == Permutations(Residents)

Path(at) == [kind |-> "path", at |-> at]

Grounds == {[resources |-> {Path(<<"lab">>)}, standing |-> TRUE],
            [resources |-> {Path(<<"lab", "a">>), [kind |-> "external", at |-> <<"site">>]},
             standing |-> FALSE]}

-----------------------------------------------------------------------------
(* For the vault and the book: logins that cross a restart, the tokens of    *)
(* one login through its renewals, and the book with what a dispatch is      *)
(* handed.                                                                   *)
Bounds ==
    {"put", "login", "code", "attach", "select", "dispatch", "tick", "restart", "fault"}

Much(some) == [b \in Bounds |-> IF b \in DOMAIN some THEN some[b] ELSE 0]

LoggingIn == Much([login |-> 2, code |-> 2, restart |-> 1, fault |-> 1])

Subscribing ==
    Much([login |-> 1, code |-> 1, select |-> 1, dispatch |-> 3, tick |-> 2,
          restart |-> 1, fault |-> 1])

Choosing ==
    Much([put |-> 1, attach |-> 2, select |-> 1, dispatch |-> 1, restart |-> 1,
          fault |-> 1])

\* A server on this machine with and without a key, and one elsewhere, as
\* it is first entered and as it is entered again serving less.
MCOffers ==
    {[local |-> TRUE,  openai |-> TRUE,  auth |-> None,  models |-> Models],
     [local |-> TRUE,  openai |-> TRUE,  auth |-> "key", models |-> Models],
     [local |-> FALSE, openai |-> FALSE, auth |-> "key", models |-> {CHOOSE m \in Models : TRUE}]}

MCAllowances == {LoggingIn, Subscribing, Choosing}

-----------------------------------------------------------------------------
VARIABLE part

RegistersInit ==
  /\ part \in {"reviewing", "providers"} /\ Init /\ ProvidersInit
  /\ part = "reviewing" => allowed = Choosing /\ backend = "memory" /\ shaded = {}
  /\ part = "providers" => left = CHOOSE w \in Workloads : TRUE

Landing == part = "reviewing" /\ Next /\ UNCHANGED <<part, providersVars>>

Handing == part = "providers" /\ ProvidersNext /\ UNCHANGED <<part, vars>>

RegistersNext == Landing \/ Handing

(* Each as its module has it, the other at rest.                             *)
RegistersSpec == RegistersInit /\ [][RegistersNext]_<<part, vars, providersVars>>
=============================================================================
