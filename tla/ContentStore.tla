---------------------------- MODULE ContentStore ----------------------------
(***************************************************************************)
(* Content kept by its hash: memory::cas, memory::digest_cache (the same    *)
(* discipline) and runtime::offload, over the file system of fault_fs.      *)
(*                                                                         *)
(* A put writes under a temporary name, syncs, renames and syncs the        *)
(* directory; each of these is a step, and power, the process or the step   *)
(* itself may fail between any two. A file is what a reader sees, what the  *)
(* platter holds, and whether its name would survive a power cut.           *)
(***************************************************************************)
EXTENDS Naturals, Sequences

CONSTANTS
    Contents,      \* what is stored, each by its own hash
    StoreFaults,   \* of "power", "kill", "io"
    MaxStoreFaults,
    MaxPuts

ASSUME StoreAssumption ==
    /\ StoreFaults \subseteq {"power", "kill", "io"}
    /\ MaxStoreFaults \in Nat /\ MaxPuts \in Nat

Whole == <<1, 2>>                     \* the bytes, as two halves
Torn == {<<>>, <<1>>, Whole}          \* what a broken write leaves of them
Missing == <<0>>                     \* what stands where there is no file
None == [live |-> Missing, durable |-> Missing, entry |-> FALSE]
Fresh(bytes) == [live |-> bytes, durable |-> <<>>, entry |-> FALSE]

VARIABLES
    store,      \* files: for each content its temporary and its named one
    step,       \* where the put under way stands
    hash,       \* the content it is about
    fault,      \* the kind of fault this behaviour meets
    cutting,    \* the put is offload's, and a rest file is to follow
    rest,       \* offload's rest files: what each holds, or Missing
    struck, puts,
    kept        \* history: contents a put has answered Ok for

storeVars == <<store, step, hash, fault, cutting, rest, struck, puts, kept>>

Names == {"tmp", "object"}

StoreInit ==
    /\ store = [c \in Contents |-> [n \in Names |-> None]]
    /\ step = "idle" /\ hash \in Contents /\ cutting = FALSE
    /\ rest = [c \in Contents |-> Missing]
    /\ fault \in StoreFaults
    /\ struck = 0 /\ puts = 0 /\ kept = {}

exists(c, n) == store[c][n].live # Missing

-----------------------------------------------------------------------------
(* Cas::put *)

\* Where a put begins when the object is not there.
Begin(cut) == "write"

\* Ok: the caller goes on, and offload goes on to its rest file.
Done(cut) == IF cut THEN "rest" ELSE "idle"

\* An object that is there is not written again.
put(c, cut) ==
    /\ step = "idle" /\ puts < MaxPuts
    /\ puts' = puts + 1 /\ hash' = c /\ cutting' = cut
    /\ IF exists(c, "object")
       THEN kept' = kept \cup {c} /\ step' = Done(cut)
       ELSE step' = Begin(cut) /\ UNCHANGED kept
    /\ UNCHANGED <<store, fault, rest, struck>>

\* A leftover is cut to nothing before the bytes are written.
Reset(file) == IF file = None THEN Fresh(<<>>) ELSE [file EXCEPT !.live = <<>>]

Rewritten(file, bytes) == [Reset(file) EXCEPT !.live = @ \o bytes]

write_tmp ==
    /\ step = "write" /\ step' = "sync"
    /\ store' = [store EXCEPT ![hash]["tmp"] = Rewritten(@, Whole)]
    /\ UNCHANGED <<hash, fault, cutting, rest, struck, puts, kept>>

sync_data(file) == [file EXCEPT !.durable = file.live]

sync_tmp ==
    /\ step = "sync" /\ step' = "rename"
    /\ store' = [store EXCEPT ![hash]["tmp"] = sync_data(@)]
    /\ UNCHANGED <<hash, fault, cutting, rest, struck, puts, kept>>

\* The new name is not durable before its directory is.
rename ==
    /\ step = "rename" /\ step' = "publish"
    /\ store' = [store EXCEPT ![hash]["object"] = [store[hash]["tmp"] EXCEPT !.entry = FALSE],
                              ![hash]["tmp"] = None]
    /\ UNCHANGED <<hash, fault, cutting, rest, struck, puts, kept>>

\* Bug: the directory is not synced.
sync_dir_Never(file) == file

sync_dir(file) == [file EXCEPT !.entry = TRUE]

\* sync_dir of the shard: every name in it, and Ok.
publish ==
    /\ step = "publish" /\ step' = Done(cutting)
    /\ store' = [store EXCEPT ![hash]["object"] = sync_dir(@)]
    /\ kept' = kept \cup {hash}
    /\ UNCHANGED <<hash, fault, cutting, rest, struck, puts>>

\* offload's materialize: a rest file that is there is left as it is.
materialize ==
    /\ step = "rest" /\ step' = "idle"
    /\ rest' = [rest EXCEPT ![hash] = IF @ = Missing THEN Whole ELSE @]
    /\ UNCHANGED <<store, hash, fault, cutting, struck, puts, kept>>

-----------------------------------------------------------------------------
(* Faults *)

Strike(kind) == fault = kind /\ struck < MaxStoreFaults /\ struck' = struck + 1

\* Cas::open: what is left in tmp is swept.
Swept(s) == [c \in Contents |-> [s[c] EXCEPT !["tmp"] = None]]

\* A write under way may have come to any prefix of its bytes.
Broken(left) ==
    IF step # "write" THEN store
    ELSE [store EXCEPT ![hash]["tmp"] = Rewritten(@, left)]

\* So may the rest file's, which is written under its own name, unsynced.
RestBroken(left) ==
    IF step = "rest" /\ rest[hash] = Missing THEN [rest EXCEPT ![hash] = left] ELSE rest

\* What a power cut makes of one file: gone without a durable name, and of
\* the bytes not synced any prefix.
Survives(file, left) ==
    IF ~file.entry THEN None
    ELSE LET whole == file.live = Whole /\ file.durable # Whole
             bytes == IF whole THEN left ELSE file.durable
         IN  [live |-> bytes, durable |-> bytes, entry |-> TRUE]

PowerOff(left) ==
    /\ Strike("power")
    /\ store' = Swept([c \in Contents |-> [n \in Names |-> Survives(store[c][n], left)]])
    /\ step' = "idle" /\ rest' = RestBroken(left)
    /\ UNCHANGED <<hash, fault, cutting, puts, kept>>

Die(left) ==
    /\ Strike("kill")
    /\ store' = Swept(Broken(left))
    /\ step' = "idle" /\ rest' = RestBroken(left)
    /\ UNCHANGED <<hash, fault, cutting, puts, kept>>

\* One operation answers with an error; `?` ends the put and the city goes on.
Fail(left) ==
    /\ Strike("io") /\ step # "idle"
    /\ store' = Broken(left)
    /\ step' = "idle" /\ rest' = RestBroken(left)
    /\ UNCHANGED <<hash, fault, cutting, puts, kept>>

StoreNext ==
    \/ \E c \in Contents, cut \in BOOLEAN : put(c, cut)
    \/ materialize \/ write_tmp \/ sync_tmp \/ rename \/ publish
    \/ \E left \in Torn : PowerOff(left) \/ Die(left) \/ Fail(left)

-----------------------------------------------------------------------------
(* Properties *)

\* "Never a corrupt named object": what stands under its own hash is whole,
\* for a reader now and on the platter, whatever struck and wherever (tmp
\* and rename, put).
NamedIsWhole ==
    \A c \in Contents : exists(c, "object") =>
        store[c]["object"].live = Whole /\ store[c]["object"].durable = Whole

\* What a put has answered Ok for is found again, through power cuts, kills
\* or failing operations, as long as they are of one kind: a cut that
\* follows another kind may take an object whose name put found and did not
\* sync (put's early return).
KeptIsFound == \A c \in kept : exists(c, "object")

\* Nothing is cut from a result before its original is stored: where there
\* is any of a rest file, the original is found too (offload's
\* store-before-cut, through faults that are of one kind in a behaviour, as
\* KeptIsFound).
StoredBeforeCut == \A c \in Contents : rest[c] # Missing => exists(c, "object")

\* The store keeps what it was given: whole, found again, and stored before
\* anything is cut from it.
StoreKeeps == NamedIsWhole /\ KeptIsFound /\ StoredBeforeCut
=============================================================================
