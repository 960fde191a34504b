----------------------------- MODULE Providers -----------------------------
(***************************************************************************)
(* How a city comes to hold a credential and a model to spend it on: the   *)
(* vault (gateway::credential), the endpoint book (gateway::router), and   *)
(* the worker's handlers over both (assembly::credentials, and the         *)
(* agreement a dispatch reaches in assembly::dispatching).                 *)
(*                                                                         *)
(* The worker runs one handler at a time, so a handler is one action. Each *)
(* of its fallible steps may be the last one taken: `fail` names the step  *)
(* that errs, and a crash inside a handler is such a stop followed by      *)
(* Restart. The token endpoint, the model list and the keyring are         *)
(* external. An access token stands for the instant it stops working, a    *)
(* refresh token for its place in the provider's rotation.                 *)
(***************************************************************************)
EXTENDS Integers, Sequences, FiniteSets

CONSTANTS
    Life,        \* how long an access token works
    Margin,      \* how early renew_if_stale renews
    Models,      \* what endpoints may serve
    Offers,      \* the endpoints a person may enter
    Allowances,   \* the bounds a behaviour may have, one chosen at ProvidersInit
    None

ASSUME ProvidersAssumption ==
    /\ Life \in Nat /\ Margin \in Nat /\ Margin < Life
    /\ None \notin Nat /\ Models # {}

Subscription == "subscription"    \* the provider with an oauth profile
Seeded == "environment"           \* the endpoint SPRAWLING_MODEL_URL names
Entered == "entered"              \* one a person types in
Names == {Subscription, Seeded, Entered}
Refs == {"oauth", "oauth-refresh", "key"}
Tags == {"main", "digest"}

Endpoint == [local : BOOLEAN, openai : BOOLEAN, auth : Refs \cup {None},
             models : SUBSET Models]

ASSUME OffersAssumption == None \notin Refs /\ Offers \subseteq Endpoint

VARIABLES
    now, process,
    allowed,   \* what remains of this behaviour's bounds
    shaded,    \* references a non-empty environment variable answers for
    backend,   \* "keyring" or "memory", whichever the probe settled on
    keyring,   \* the platform's store, which outlives the process
    memory,    \* the session store, which does not
    gen,       \* the refresh token the provider accepts
    logins,    \* the login begun and not redeemed, by its number
    expiries,  \* when the access token stops working, as this process knows
    book,      \* [endpoints, chosen]
    ledger,    \* the records these handlers append
    begun, redeemed, torn, handed   \* history: see the properties

providersVars == <<now, process, allowed, shaded, backend, keyring, memory, gen, logins,
          expiries, book, ledger, begun, redeemed, torn, handed>>

-----------------------------------------------------------------------------
(* The vault *)

EnvValue == 1      \* what a shading variable holds: an early token

Store == IF backend = "keyring" THEN keyring ELSE memory

\* The environment answers first; a missing value refuses.
resolve(ref) == IF ref \in shaded THEN EnvValue ELSE Store[ref]

\* Storing several values in order until one is refused: a shaded reference
\* always is, and `fail` may name one the backend refuses.
Refuses(ref, fail) == ref \in shaded \/ fail = ref

PutAccess(store, answer, fail) ==
    IF Refuses("oauth", fail) THEN store ELSE [store EXCEPT !["oauth"] = answer.access]

\* Bug: a refresh token is kept once and never replaced by the next.
PutTokens_Unrotated(store, answer, fail) ==
    LET s == PutAccess(store, answer, fail)
    IN  IF answer.refresh = None \/ Refuses("oauth", fail) \/ s["oauth-refresh"] # None
        THEN s
        ELSE [s EXCEPT !["oauth-refresh"] = answer.refresh]

PutTokens(store, answer, fail) ==
    LET s == PutAccess(store, answer, fail)
    IN  IF \/ Refuses("oauth", fail) \/ answer.refresh = None
           \/ Refuses("oauth-refresh", fail)
        THEN s
        ELSE [s EXCEPT !["oauth-refresh"] = answer.refresh]

Stored(answer, fail) ==
    /\ ~Refuses("oauth", fail)
    /\ answer.refresh # None => ~Refuses("oauth-refresh", fail)

SetStore(store) ==
    IF backend = "keyring" THEN keyring' = store /\ UNCHANGED memory
                           ELSE memory' = store /\ UNCHANGED keyring

-----------------------------------------------------------------------------
(* The endpoint book: a fold of the records. EndpointLost, which nothing   *)
(* appends, is left out. *)

EmptyBook == [endpoints |-> [n \in {} |-> None], chosen |-> [t \in {} |-> None]]

With(f, k, v) == [x \in DOMAIN f \cup {k} |-> IF x = k THEN v ELSE f[x]]

apply_payload(b, line) ==
    CASE line.kind = "attached" ->
            [b EXCEPT !.endpoints = With(@, line.name, line.endpoint)]
      [] line.kind = "selected" ->
            [b EXCEPT !.chosen = With(@, line.tag, [name |-> line.name, model |-> line.model])]
      [] OTHER -> b

\* The records that attach n, and the ones that choose for t; of each the
\* newest wins.
Attached(lines, n) == {i \in 1..Len(lines) : lines[i].kind = "attached" /\ lines[i].name = n}
Selected(lines, t) == {i \in 1..Len(lines) : lines[i].kind = "selected" /\ lines[i].tag = t}
Newest(S) == CHOOSE i \in S : \A j \in S : j <= i

EndpointsOf(lines) ==
    [n \in {m \in Names : Attached(lines, m) # {}} |-> lines[Newest(Attached(lines, n))].endpoint]

ChosenOf(lines) ==
    [t \in {u \in Tags : Selected(lines, u) # {}} |->
        [name |-> lines[Newest(Selected(lines, t))].name,
         model |-> lines[Newest(Selected(lines, t))].model]]

\* What a restart folds from the whole ledger.
fold(lines) == [endpoints |-> EndpointsOf(lines), chosen |-> ChosenOf(lines)]

\* Bug: the policy is not asked again once a model is chosen.
select_Trusting(b, tag, confidential) ==
    tag \in DOMAIN b.chosen /\ b.chosen[tag].name \in DOMAIN b.endpoints

\* What the book answers for a tag under a building's policy.
select(b, tag, confidential) ==
    /\ tag \in DOMAIN b.chosen
    /\ b.chosen[tag].name \in DOMAIN b.endpoints
    /\ confidential => b.endpoints[b.chosen[tag].name].local

\* The local adapter has no authentication surface.
adapter_for(e) == IF e.local /\ e.openai /\ e.auth = None THEN "native" ELSE "general"

-----------------------------------------------------------------------------
(* Appending: the book follows the ledger, never the other way round *)

\* Bug: the book is folded whether or not the line was written.
record_Hoping(line, fail) ==
    /\ book' = apply_payload(book, line)
    /\ ledger' = IF fail = "line" THEN ledger ELSE Append(ledger, line)

\* record_where: append, then fold. A refused append changes neither.
record(line, fail) ==
    IF fail = "line" THEN UNCHANGED <<ledger, book>>
    ELSE ledger' = Append(ledger, line) /\ book' = apply_payload(book, line)

Captured(ref, at) ==
    [kind |-> "captured", ref |-> ref, at |-> at, backend |-> backend, process |-> process]

\* The bounds: how often each thing is asked for, and how often a step errs.
Spend(what, fail) ==
    /\ allowed[what] > 0
    /\ fail # "no" => allowed.fault > 0
    /\ allowed' = [allowed EXCEPT ![what] = @ - 1, !.fault = IF fail = "no" THEN @ ELSE @ - 1]

ProvidersInit ==
    /\ now = 1 /\ process = 1 /\ allowed \in Allowances
    /\ shaded \in IF allowed.login > 0 THEN {{}, {"oauth"}, {"oauth-refresh"}} ELSE {{}}
    /\ backend \in {"keyring", "memory"}
    /\ keyring = [r \in Refs |-> None] /\ memory = [r \in Refs |-> None]
    /\ gen = 0 /\ logins = None /\ expiries = None
    /\ book = EmptyBook /\ ledger = <<>>
    /\ begun = 0 /\ redeemed = <<>> /\ torn = FALSE /\ handed = None

-----------------------------------------------------------------------------
(* The handlers *)

\* Command::PutSecret: the value first, the line after.
put_secret(fail) ==
    /\ Spend("put", fail)
    /\ IF Refuses("key", fail)
       THEN UNCHANGED <<keyring, memory, ledger, book>>
       ELSE SetStore([Store EXCEPT !["key"] = EnvValue]) /\ record(Captured("key", None), fail)
    /\ UNCHANGED <<now, process, shaded, backend, gen, logins, expiries, begun,
                   redeemed, torn, handed>>

\* LoginStep::Begin: a verifier kept in memory, then the line. A second
\* begin takes the place of the first.
login_begin(fail) ==
    /\ Spend("login", fail)
    /\ begun' = begun + 1 /\ logins' = begun + 1
    /\ record([kind |-> "login"], fail)
    /\ UNCHANGED <<now, process, shaded, backend, keyring, memory, gen,
                   expiries, redeemed, torn, handed>>

\* What a token endpoint answers: a pair, with or without a rotated refresh
\* token and a stated lifetime. External.
Answers == [access : {now + Life}, refresh : {None, gen + 1}, stated : BOOLEAN]

\* The provider acts on the request: it forgets the refresh token it rotates.
Granted(answer) == gen' = IF answer.refresh = None THEN gen ELSE answer.refresh

\* The tokens are kept, their expiry remembered, the line appended, in that
\* order and as far as `fail` lets it come.
Keep(answer, fail) ==
    /\ SetStore(PutTokens(Store, answer, fail))
    /\ torn' = (torn \/ (answer.refresh # None /\ ~Stored(answer, fail)))
    /\ IF Stored(answer, fail)
       THEN expiries' = IF answer.stated THEN answer.access ELSE expiries
       ELSE UNCHANGED expiries

ExpiryLine(answer) == Captured("oauth", IF answer.stated THEN answer.access ELSE None)

\* The subscription's own endpoint, attached without a second command.
SubscriptionEndpoint(models) ==
    [local |-> FALSE, openai |-> FALSE, auth |-> "oauth", models |-> models]

Redeeming == redeemed' = Append(redeemed, [login |-> logins, process |-> process])

\* The pending login is taken out before anything is sent, so whatever
\* happens next, one begin answers one code.
TakeLogin == logins # None /\ logins' = None /\ Redeeming

\* LoginStep::Code: redeem, keep, record, attach.
login_code(answer, fail) ==
    /\ TakeLogin
    /\ Spend("code", fail)
    /\ IF answer = None
       THEN UNCHANGED <<keyring, memory, gen, expiries, torn, ledger, book>>
       ELSE /\ Granted(answer)
            /\ Keep(answer, fail)
            /\ LET attach == [kind |-> "attached", name |-> Subscription,
                              endpoint |-> SubscriptionEndpoint(Models)]
                   lines  == IF ~Stored(answer, fail) \/ fail = "line" THEN <<>>
                             ELSE IF fail = "probe" THEN <<ExpiryLine(answer)>>
                             ELSE <<ExpiryLine(answer), attach>>
               IN  /\ ledger' = ledger \o lines
                   /\ book' = IF Len(lines) = 2 THEN apply_payload(book, attach) ELSE book
    /\ UNCHANGED <<now, process, shaded, backend, begun, handed>>

\* Command::AttachEndpoint: asked what it serves before it is recorded, so
\* an endpoint that cannot be reached, or whose key cannot be resolved, is
\* not attached.
attach_endpoint(name, e, fail) ==
    /\ Spend("attach", fail)
    /\ e.auth # None => resolve(e.auth) # None
    /\ record([kind |-> "attached", name |-> name, endpoint |-> e], fail)
    /\ UNCHANGED <<now, process, shaded, backend, keyring, memory, gen, logins,
                   expiries, begun, redeemed, torn, handed>>

\* Command::SelectModel: only of what an attached endpoint said it serves.
select_model(tag, name, model, fail) ==
    /\ Spend("select", fail)
    /\ name \in DOMAIN book.endpoints
    /\ model \in book.endpoints[name].models
    /\ record([kind |-> "selected", tag |-> tag, name |-> name, model |-> model], fail)
    /\ UNCHANGED <<now, process, shaded, backend, keyring, memory, gen, logins,
                   expiries, begun, redeemed, torn, handed>>

-----------------------------------------------------------------------------
(* A dispatch: agree on a model, renewing its credential if it is due *)

Due(name) == name = Subscription /\ expiries # None /\ now + Margin >= expiries

\* renew_if_stale: the stored refresh token buys a new pair. A refused or a
\* lost answer refuses the dispatch.
Renews(answer, fail) ==
    /\ resolve("oauth-refresh") # None
    /\ answer # None => resolve("oauth-refresh") = gen
    /\ IF answer = None
       THEN UNCHANGED <<keyring, memory, gen, expiries, torn, ledger, book>>
       ELSE /\ Granted(answer)
            /\ Keep(answer, fail)
            /\ IF Stored(answer, fail) THEN record(ExpiryLine(answer), fail)
               ELSE UNCHANGED <<ledger, book>>

Hand(confidential, store) ==
    LET c == book.chosen["main"]
        e == book.endpoints[c.name]
        held == IF e.auth \in shaded THEN EnvValue ELSE store[e.auth]
    IN  handed' = [name |-> c.name, model |-> c.model, auth |-> e.auth,
                   adapter |-> adapter_for(e), confidential |-> confidential,
                   token |-> IF e.auth = None THEN None ELSE held,
                   at |-> now, known |-> expiries # None]

agree(confidential) ==
    /\ Spend("dispatch", "no")
    /\ select(book, "main", confidential)
    /\ ~Due(book.chosen["main"].name)
    /\ Hand(confidential, Store)
    /\ UNCHANGED <<now, process, shaded, backend, keyring, memory, gen, logins,
                   expiries, book, ledger, begun, redeemed, torn>>

agree_renewing(confidential, answer, fail) ==
    /\ Spend("dispatch", fail)
    /\ select(book, "main", confidential)
    /\ Due(book.chosen["main"].name)
    /\ Renews(answer, fail)
    /\ IF answer # None /\ Stored(answer, fail) /\ fail # "line"
       THEN Hand(confidential, PutTokens(Store, answer, fail))
       ELSE UNCHANGED handed
    /\ UNCHANGED <<now, process, shaded, backend, logins, begun, redeemed>>

\* The answer is lost on the way back: the provider rotated, the city does
\* not know, and the dispatch is refused.
agree_lost(confidential) ==
    /\ Spend("dispatch", "lost")
    /\ select(book, "main", confidential)
    /\ Due(book.chosen["main"].name)
    /\ resolve("oauth-refresh") = gen
    /\ gen' = gen + 1 /\ torn' = TRUE
    /\ UNCHANGED <<now, process, shaded, backend, keyring, memory, logins,
                   expiries, book, ledger, begun, redeemed, handed>>

-----------------------------------------------------------------------------
(* Time, and the process ending *)

Tick ==
    /\ Spend("tick", "no")
    /\ now' = now + 1
    /\ UNCHANGED <<process, shaded, backend, keyring, memory, gen, logins,
                   expiries, book, ledger, begun, redeemed, torn, handed>>

SeedLines ==
    <<[kind |-> "attached", name |-> Seeded,
       endpoint |-> [local |-> TRUE, openai |-> TRUE, auth |-> None, models |-> Models]],
      [kind |-> "selected", tag |-> "main", name |-> Seeded,
       model |-> CHOOSE m \in Models : TRUE]>>

\* RunWorker::new and open_for_service: the book is folded from the ledger,
\* the vault is probed anew and a fallback recorded, and the model named in
\* the environment is registered when nothing else is: attached if it can
\* be reached, and selected if it serves the model named.
Restart(found, seeded) ==
    /\ Spend("restart", "no")
    /\ process' = process + 1
    /\ backend' = found
    /\ memory' = [r \in Refs |-> None]
    /\ logins' = None /\ expiries' = None
    /\ LET notice == IF found = "memory" THEN <<[kind |-> "degraded"]>> ELSE <<>>
           seeds  == IF fold(ledger).endpoints = EmptyBook.endpoints
                     THEN SubSeq(SeedLines, 1, seeded) ELSE <<>>
       IN  /\ ledger' = ledger \o notice \o seeds
           /\ book' = fold(ledger')
    /\ torn' = (torn \/ found # backend)
    /\ UNCHANGED <<now, shaded, keyring, gen, begun, redeemed, handed>>

Fails == {"no", "oauth", "oauth-refresh", "key", "line", "probe"}

ProvidersNext ==
    \/ \E f \in {"no", "key", "line"} : put_secret(f)
    \/ \E f \in {"no", "line"} : login_begin(f)
    \/ \E a \in Answers \cup {None}, f \in Fails \ {"key"} : login_code(a, f)
    \/ \E n \in {Subscription, Entered}, e \in Offers, f \in {"no", "line"} :
          attach_endpoint(n, e, f)
    \/ \E t \in Tags, n \in Names, m \in Models, f \in {"no", "line"} : select_model(t, n, m, f)
    \/ \E c \in BOOLEAN : agree(c)
    \/ \E c \in BOOLEAN, a \in Answers \cup {None}, f \in {"no", "oauth", "oauth-refresh", "line"} :
          agree_renewing(c, a, f)
    \/ \E c \in BOOLEAN : agree_lost(c)
    \/ Tick
    \/ \E b \in {"keyring", "memory"}, n \in 0..2 : Restart(b, n)

ProvidersSpec == ProvidersInit /\ [][ProvidersNext]_providersVars

-----------------------------------------------------------------------------
(* Properties *)

\* Every variable has its type.
ProvidersTypeOK ==
    /\ now \in Nat /\ process \in Nat /\ gen \in Nat /\ begun \in Nat
    /\ shaded \subseteq Refs /\ backend \in {"keyring", "memory"}
    /\ \A r \in Refs : {keyring[r], memory[r]} \subseteq Nat \cup {None}
    /\ logins \in 1..begun \cup {None} /\ expiries \in Nat \cup {None}
    /\ \A n \in DOMAIN book.endpoints : n \in Names /\ book.endpoints[n] \in Endpoint
    /\ \A t \in DOMAIN book.chosen : t \in Tags /\ book.chosen[t].model \in Models

\* The book the worker decides by is what the records add up to, after every
\* refused append and every restart (record_where appends before it folds).
BookIsTheLedger == book = fold(ledger)

\* A confidential building is only ever handed a model on this machine, as
\* the endpoint is attached at the time of the dispatch and not as it was
\* when the model was chosen (EndpointBook::select).
ConfidentialStaysHere ==
    [][handed' # handed /\ handed'.confidential
         => \E i \in 1..Len(ledger') :
               /\ ledger'[i].kind = "attached" /\ ledger'[i].name = handed'.name
               /\ ledger'[i].endpoint.local
               /\ \A j \in i + 1..Len(ledger') :
                     ledger'[j].kind = "attached" => ledger'[j].name # handed'.name]_providersVars

\* While this process knows when the subscription token expires, no run is
\* handed one that has less than the margin left (renew_if_stale).
FreshWhenKnown ==
    (handed # None /\ handed.known /\ handed.name = Subscription /\ handed.auth = "oauth"
       /\ "oauth" \notin shaded)
        => handed.token # None /\ handed.token > handed.at + Margin

\* The refresh token that would be sent is the one the provider accepts,
\* through every rotation: it is only lost when an answer was, when the vault
\* refused what a renewal brought back, or with the store that held it.
RefreshIsCurrent ==
    (~torn /\ "oauth-refresh" \notin shaded)
        => resolve("oauth-refresh") \in {None, gen}

\* A captured line is never without its value: in the keyring for good, in
\* session memory for as long as the process that wrote the line.
CapturedIsHeld ==
    \A i \in 1..Len(ledger) : ledger[i].kind = "captured" =>
        IF ledger[i].backend = "keyring" THEN keyring[ledger[i].ref] # None
        ELSE ledger[i].process = process => memory[ledger[i].ref] # None

\* One login begun is redeemed at most once, and by the process that began
\* it: a restart, a refused code and a second begin all end the first.
RedeemedOnce ==
    /\ \A i, j \in 1..Len(redeemed) : redeemed[i].login = redeemed[j].login => i = j
    /\ logins # None => \A i \in 1..Len(redeemed) : redeemed[i].login < logins

\* The records are true: they add up to the book, and what they say was
\* captured is held.
RecordsAreTrue == ProvidersTypeOK /\ BookIsTheLedger /\ CapturedIsHeld

\* A login is redeemed once, and its tokens stay good through renewals.
LoginsStayGood == RedeemedOnce /\ FreshWhenKnown /\ RefreshIsCurrent

\* Not kept by the code (README, section 7).
\* A restarted city renews on the schedule its records state, rather than
\* handing out a token the ledger says has expired (the `expiries` field).
RenewsOnTheLedgersSchedule ==
    [][handed' # handed /\ handed'.name = Subscription /\ handed'.auth = "oauth"
         => LET stated == {i \in 1..Len(ledger') :
                               ledger'[i].kind = "captured" /\ ledger'[i].ref = "oauth"}
                last == CHOOSE i \in stated : \A j \in stated : j <= i
            IN  stated = {} \/ ledger'[last].at = None \/ now < ledger'[last].at]_providersVars
=============================================================================
