-------------------------- MODULE RunDriverProofs --------------------------
(* What holds of one run for every budget, every number of calls and steers, *)
(* and whatever fails: the driver, the provider, the ledger or the process.  *)
EXTENDS RunDriver, FiniteSetTheorems, SequenceTheorems, TLAPS

(* Where a drive can be: after the provider answered, inside a turn, inside  *)
(* the loop, and past it.                                                    *)
MidTurn == {"fence", "before_wave", "execute", "invoke", "result",
            "before_spawn", "record"}
InTurn == {"assemble", "before_call", "call", "provider"} \cup MidTurn
InRun == {"loop"} \cup InTurn
Over == {"handoff", "freeze", "frozen", "concluded", "fatal", "dead"}

Entry == [kind : Kinds, of : Nat]
Message == [role : {"user", "assistant"}, content : Seq(Block)]

(* The inductive invariant, in six parts. The counters: a turn is begun      *)
(* within the budget and mints at most a wave of calls.                      *)
CountsOK ==
  /\ pc \in InTurn => turns < Budget
  /\ pc \in {"pin", "start"} => turns = 0 /\ minted = 0
  /\ pc \in InRun \ MidTurn => minted <= turns * MaxCalls
  /\ pc \in MidTurn => minted <= turns * MaxCalls + MaxCalls
  /\ pc # "concluded" => handed = {}

(* What a message names, by the kind of its blocks.                          *)
Named(s, is) == {b.of : b \in {m \in Range(s) : m.is = is}}

(* The last call of this turn that has its answer.                           *)
Answered == IF pc = "result" THEN minted - Len(wave) + 1 ELSE minted - Len(wave)

(* The turn: its calls are the last ones minted, the wave is what is left of *)
(* them, the assistant's message uses them all and the results answer those  *)
(* that left the wave.                                                       *)
WaveOK ==
  pc \in MidTurn =>
    /\ Len(calls) <= minted /\ Len(wave) <= Len(calls)
    /\ \A i \in 1 .. Len(wave) : wave[i] = minted - Len(wave) + i
    /\ pc \in {"fence", "before_wave"} => Len(wave) = Len(calls)
    /\ pc \in {"invoke", "result"} => wave # <<>>
    /\ pc \in {"before_spawn", "record"} => wave = <<>>
    /\ Named(assistant, "use") = minted - Len(calls) + 1 .. minted
    /\ Named(assistant, "answer") = {} /\ Named(assistant, "steer") = {}
    /\ Named(results, "answer") = minted - Len(calls) + 1 .. Answered
    /\ Named(results, "use") = {} /\ Named(results, "steer") = {}

(* A conversation a provider takes, which also ends with the user: what lets *)
(* the next steer join it and the next assistant message follow it.          *)
Shape(w) ==
  \A i \in 1 .. Len(w) :
    /\ w[i].role = IF i % 2 = 1 THEN "user" ELSE "assistant"
    /\ w[i].role = "assistant" => i < Len(w)
    /\ w[i].role = "user" => Named(w[i].content, "use") = {}
    /\ i > 1 => Named(w[i].content, "answer") = Named(w[i - 1].content, "use")

(* The steers on the ledger, and those before a request's line.              *)
Told == {ledger[i].of : i \in Lines("steer_received")}
Read == {ledger[i].of : i \in
           {k \in Lines("steer_received") : \E j \in Lines("prompt_assembled") : k < j}}

(* The window, while the run has one, is such a conversation and holds every *)
(* steer on the ledger; the request holds those before its own line.         *)
WindowOK ==
  /\ Shape(chat)
  /\ pc \in {"pin", "start"} => window = <<>> /\ Lines("steer_received") = {}
  /\ pc \in InRun => /\ window # <<>> /\ Shape(window)
                     /\ SteersIn(window) = Told
  /\ pc \in {"before_call", "call", "provider"} => SteersIn(chat) = Read

(* The ending: a run that heard a cancel, or lost its provider, is past its  *)
(* loop and knows it was cancelled; the last lines follow the last places.   *)
EndOK ==
  /\ Wrote("cancel_received") => dangling_tool_calls = {}
  /\ Wrote("cancel_received") \/ Wrote("provider_degraded") =>
       pc \in Over /\ ending = "cancelled"
  /\ pc = "freeze" => Len(ledger) > 0 /\ Last(ledger).kind = "handoff_written"
  /\ pc \in {"frozen", "concluded"} =>
       /\ Len(ledger) > 1
       /\ Last(ledger).kind = "run_frozen"
       /\ ledger[Len(ledger) - 1].kind = "handoff_written"

(* The fence of this turn is behind the model's last answer.                 *)
Fenced ==
  \E j \in Lines("checkpoint_committed") : \A k \in Lines("model_returned") : k < j

FenceOK == pc \in {"before_wave", "execute", "invoke", "result"} => Fenced

(* The last call that can be on the ledger.                                  *)
Called == IF pc \in {"fence", "before_wave", "execute"} THEN minted - Len(wave)
          ELSE IF pc \in {"invoke", "result"} THEN minted - Len(wave) + 1
          ELSE minted

(* The books: no call and no result is written twice, a result answers an    *)
(* earlier call, a call without one is dangling, and at most one ever is.    *)
Booked ==
  /\ \A i, j \in Lines("tool_called") : ledger[i].of = ledger[j].of => i = j
  /\ \A i, j \in Lines("tool_result") : ledger[i].of = ledger[j].of => i = j
  /\ \A j \in Lines("tool_result") :
       \E i \in Lines("tool_called") : i < j /\ ledger[i].of = ledger[j].of
  /\ \A i \in Lines("tool_called") \ dangling_tool_calls :
       \E j \in Lines("tool_result") : ledger[j].of = ledger[i].of
  /\ \A i, j \in dangling_tool_calls : i = j

(* What dangles is the call being made, or the one a death or a refusal      *)
(* interrupted; and what acted has its call on the books.                    *)
AccountsOK ==
  /\ Booked
  /\ \A e \in effects : \E i \in Lines("tool_called") : ledger[i].of = e
  /\ \A i \in Lines("tool_called") : ledger[i].of <= Called
  /\ pc \notin {"invoke", "result", "dead", "fatal"} => dangling_tool_calls = {}
  /\ pc \in {"invoke", "result"} =>
       \E i \in dangling_tool_calls : ledger[i].of = Head(wave)

IndInv ==
  TypeOK /\ CountsOK /\ WaveOK /\ WindowOK /\ EndOK /\ FenceOK /\ AccountsOK
  /\ CancelEndsIt /\ FencedBeforeEffect

-----------------------------------------------------------------------------
(* Lines are only ever added, at the end.                                    *)
Added(k, n) ==
  /\ ledger' \in Seq(Entry)
  /\ Len(ledger) \in Nat /\ Len(ledger') = Len(ledger) + 1
  /\ ledger'[Len(ledger) + 1] = [kind |-> k, of |-> n]
  /\ \A i \in 1 .. Len(ledger) : ledger'[i] = ledger[i]

(* A line of kind k joins the lines of kind k and no others.                 *)
Joined(k) ==
  /\ Lines(k)' = Lines(k) \cup {Len(ledger) + 1}
  /\ \A o \in Kinds : o # k => Lines(o)' = Lines(o)

LEMMA LineAdds ==
  ASSUME ledger \in Seq(Entry), NEW k \in Kinds, NEW n \in Nat, ledger' = Line(k, n)
  PROVE  Added(k, n)
BY DEF Line, Entry, Added

LEMMA LinesAdd ==
  ASSUME NEW k \in Kinds, NEW n \in Nat, Added(k, n)
  PROVE  Joined(k)
<1>1. 1 .. Len(ledger') = (1 .. Len(ledger)) \cup {Len(ledger) + 1}
  BY DEF Added
<1>2. Lines(k)' = Lines(k) \cup {Len(ledger) + 1}
  BY <1>1 DEF Lines, Added
<1>3. ASSUME NEW o \in Kinds, o # k
      PROVE  Lines(o)' = Lines(o)
  BY <1>1, <1>3 DEF Lines, Added
<1> QED BY <1>2, <1>3 DEF Joined

(* The numbers of the lines of one kind are places in the ledger.            *)
LEMMA LinesIn ==
  \A k \in Kinds : /\ Lines(k) \subseteq 1 .. Len(ledger)
                   /\ \A i \in Lines(k) : ledger[i].kind = k
BY DEF Lines

(* What dangles after a line: a call dangles, a result settles, and the      *)
(* other lines change nothing.                                               *)
LEMMA DanglingAfter ==
  ASSUME NEW k \in Kinds, NEW n \in Nat, Added(k, n)
  PROVE  dangling_tool_calls' =
           IF k = "tool_result" THEN {}
           ELSE IF k = "tool_called" THEN dangling_tool_calls \cup {Len(ledger) + 1}
           ELSE dangling_tool_calls
<1> DEFINE d(i) == ledger'[i].kind = "tool_called"
                   /\ \A j \in i + 1 .. Len(ledger') : ledger'[j].kind # "tool_result"
<1>1. 1 .. Len(ledger') = (1 .. Len(ledger)) \cup {Len(ledger) + 1}
  BY DEF Added
<1>2. \A i \in 1 .. Len(ledger) :
        i + 1 .. Len(ledger') = (i + 1 .. Len(ledger)) \cup {Len(ledger) + 1}
  BY DEF Added
<1>3. d(Len(ledger) + 1) <=> k = "tool_called"
  BY DEF Added
<1>4. \A i \in 1 .. Len(ledger) :
        d(i) <=> i \in dangling_tool_calls /\ k # "tool_result"
  <2> TAKE i \in 1 .. Len(ledger)
  <2>1. \A j \in i + 1 .. Len(ledger) : ledger'[j] = ledger[j]
    BY DEF Added
  <2>2. ledger'[i] = ledger[i] /\ ledger'[Len(ledger) + 1].kind = k
    BY DEF Added
  <2>3. (\A j \in i + 1 .. Len(ledger') : ledger'[j].kind # "tool_result")
          <=> /\ \A j \in i + 1 .. Len(ledger) : ledger[j].kind # "tool_result"
              /\ k # "tool_result"
    BY <1>2, <2>1, <2>2, Zenon
  <2> QED BY <2>2, <2>3 DEF dangling_tool_calls
<1>5. dangling_tool_calls' = {i \in 1 .. Len(ledger') : d(i)}
  BY DEF dangling_tool_calls
<1>6. dangling_tool_calls \subseteq 1 .. Len(ledger)
  BY DEF dangling_tool_calls
<1>7. Len(ledger) + 1 \notin dangling_tool_calls
  BY <1>6 DEF Added
<1> HIDE DEF d
<1> QED BY <1>1, <1>3, <1>4, <1>5, <1>6, <1>7

(* A dangling call is a call no result follows.                              *)
LEMMA DanglingIs ==
  ASSUME ledger \in Seq(Entry)
  PROVE  /\ dangling_tool_calls \subseteq Lines("tool_called")
         /\ \A i \in dangling_tool_calls, j \in Lines("tool_result") : j <= i
BY DEF dangling_tool_calls, Lines
-----------------------------------------------------------------------------
(* The window's messages. What a sequence of blocks names.                   *)
LEMMA NamedIs ==
  ASSUME NEW s \in Seq(Block), NEW is, NEW x
  PROVE  x \in Named(s, is) <=> \E i \in 1 .. Len(s) : s[i].is = is /\ s[i].of = x
BY DEF Named, Range

LEMMA NamedConcat ==
  ASSUME NEW s \in Seq(Block), NEW t \in Seq(Block), NEW is
  PROVE  Named(s \o t, is) = Named(s, is) \cup Named(t, is)
<1> DEFINE u == s \o t
<1>1. /\ u \in Seq(Block) /\ Len(u) = Len(s) + Len(t)
      /\ Len(s) \in Nat /\ Len(t) \in Nat
      /\ \A i \in 1 .. Len(s) : u[i] = s[i]
      /\ \A i \in 1 .. Len(t) : u[Len(s) + i] = t[i]
  OBVIOUS
<1> HIDE DEF u
<1>2. ASSUME NEW x, x \in Named(u, is)
      PROVE  x \in Named(s, is) \cup Named(t, is)
  <2>1. PICK i \in 1 .. Len(u) : u[i].is = is /\ u[i].of = x
    BY <1>1, <1>2, NamedIs
  <2>2. CASE i <= Len(s)
    BY <1>1, <2>1, <2>2, NamedIs
  <2>3. CASE ~(i <= Len(s))
    <3>1. i - Len(s) \in 1 .. Len(t) /\ i = Len(s) + (i - Len(s))
      BY <1>1, <2>3
    <3>2. u[i] = t[i - Len(s)]
      BY <1>1, <3>1
    <3> QED BY <2>1, <3>1, <3>2, NamedIs
  <2> QED BY <2>2, <2>3
<1>3. ASSUME NEW x, x \in Named(s, is)
      PROVE  x \in Named(u, is)
  <2>1. PICK i \in 1 .. Len(s) : s[i].is = is /\ s[i].of = x
    BY <1>3, NamedIs
  <2>2. i \in 1 .. Len(u)
    BY <1>1
  <2>3. u \in Seq(Block) /\ u[i].is = is /\ u[i].of = x
    BY <1>1, <2>1
  <2>4. \E k \in 1 .. Len(u) : u[k].is = is /\ u[k].of = x
    BY ONLY <2>2, <2>3
  <2> QED BY ONLY <2>3, <2>4, NamedIs
<1>4. ASSUME NEW x, x \in Named(t, is)
      PROVE  x \in Named(u, is)
  <2>1. PICK i \in 1 .. Len(t) : t[i].is = is /\ t[i].of = x
    BY <1>4, NamedIs
  <2>2. Len(s) + i \in 1 .. Len(u)
    BY <1>1
  <2>3. u \in Seq(Block) /\ u[Len(s) + i].is = is /\ u[Len(s) + i].of = x
    BY <1>1, <2>1
  <2>4. \E k \in 1 .. Len(u) : u[k].is = is /\ u[k].of = x
    BY ONLY <2>2, <2>3
  <2> QED BY ONLY <2>3, <2>4, NamedIs
<1>5. Named(u, is) = Named(s, is) \cup Named(t, is)
  BY <1>2, <1>3, <1>4
<1> QED BY <1>5 DEF u

LEMMA NamedOne ==
  ASSUME NEW b \in Block, NEW is
  PROVE  /\ <<b>> \in Seq(Block)
         /\ Named(<<b>>, is) = IF b.is = is THEN {b.of} ELSE {}
<1>1. <<b>> \in Seq(Block) /\ Len(<<b>>) = 1 /\ <<b>>[1] = b
  OBVIOUS
<1> DEFINE s == <<b>>
<1> HIDE DEF s
<1>2. s \in Seq(Block) /\ Len(s) = 1 /\ s[1] = b
  BY <1>1 DEF s
<1>3. ASSUME NEW x
      PROVE  x \in Named(s, is) <=> (b.is = is /\ b.of = x)
  <2>1. x \in Named(s, is) <=> \E i \in 1 .. Len(s) : s[i].is = is /\ s[i].of = x
    BY <1>2, NamedIs
  <2> QED BY <1>2, <2>1
<1>4. Named(s, is) = IF b.is = is THEN {b.of} ELSE {}
  BY <1>3
<1> QED BY <1>1, <1>4 DEF s

LEMMA NamedNone ==
  ASSUME NEW is
  PROVE  Named(<<>>, is) = {}
BY DEF Named, Range

(* What a window's steers are.                                               *)
LEMMA SteersAre ==
  \A w : SteersIn(w) = UNION {Named(w[i].content, "steer") : i \in 1 .. Len(w)}
BY DEF SteersIn, Named

(* User content joins the message already open.                              *)
LEMMA PushUserJoins ==
  ASSUME NEW w \in Seq(Message), w # <<>>, w[Len(w)].role = "user",
         NEW c \in Seq(Block)
  PROVE  LET v == push_user(w, c)
         IN  /\ v \in Seq(Message) /\ Len(v) = Len(w)
             /\ v[Len(w)].role = "user"
             /\ v[Len(w)].content = w[Len(w)].content \o c
             /\ \A i \in 1 .. Len(w) - 1 : v[i] = w[i]
             /\ \A i \in 1 .. Len(w) : v[i].role = w[i].role
<1> DEFINE n == Len(w)
           v == [w EXCEPT ![n].content = @ \o c]
<1>1. n \in 1 .. Len(w) /\ n \in Nat
  BY EmptySeq
<1>2. push_user(w, c) = v
  BY DEF push_user, Last
<1>3. w[n] \in Message
  BY <1>1
<1>4. w[n].content \in Seq(Block)
  BY <1>3 DEF Message
<1>8. w[n].content \o c \in Seq(Block)
  BY <1>4
<1>9. [w[n] EXCEPT !.content = @ \o c] \in Message
  BY <1>3, <1>8 DEF Message
<1>5. v \in Seq(Message) /\ Len(v) = n /\ DOMAIN v = 1 .. n
  BY <1>1, <1>9
<1>6. v[n] = [w[n] EXCEPT !.content = @ \o c] /\ \A i \in 1 .. n - 1 : v[i] = w[i]
  <2>1. DOMAIN w = 1 .. n
    OBVIOUS
  <2> QED BY <1>1, <2>1
<1>7. v[n].role = w[n].role /\ v[n].content = w[n].content \o c
  BY <1>3, <1>6 DEF Message
<1> QED BY <1>1, <1>2, <1>5, <1>6, <1>7

(* Otherwise it opens one.                                                   *)
LEMMA PushUserOpens ==
  ASSUME NEW w \in Seq(Message), w = <<>> \/ w[Len(w)].role # "user",
         NEW c \in Seq(Block)
  PROVE  LET v == push_user(w, c)
         IN  /\ v \in Seq(Message) /\ Len(v) = Len(w) + 1
             /\ v[Len(w) + 1] = [role |-> "user", content |-> c]
             /\ \A i \in 1 .. Len(w) : v[i] = w[i]
<1>1. push_user(w, c) = Append(w, [role |-> "user", content |-> c])
  BY DEF push_user, Last
<1>2. [role |-> "user", content |-> c] \in Message
  BY DEF Message
<1> QED BY <1>1, <1>2

LEMMA PushUserTypes ==
  ASSUME NEW w \in Seq(Message), NEW c \in Seq(Block)
  PROVE  push_user(w, c) \in Seq(Message)
BY PushUserJoins, PushUserOpens

LEMMA RecordTypes ==
  ASSUME NEW w \in Seq(Message), NEW a \in Seq(Block), NEW r \in Seq(Block)
  PROVE  push_tool_results(push_assistant(w, a), r) \in Seq(Message)
<1>1. [role |-> "assistant", content |-> a] \in Message
  BY DEF Message
<1>2. push_assistant(w, a) \in Seq(Message)
  BY <1>1 DEF push_assistant
<1> QED BY <1>2, PushUserTypes DEF push_tool_results

(* A conversation with the shape ends with the user.                         *)
LEMMA ShapeEnds ==
  ASSUME NEW w \in Seq(Message), w # <<>>, Shape(w)
  PROVE  Len(w) \in Nat /\ Len(w) >= 1 /\ Len(w) % 2 = 1 /\ w[Len(w)].role = "user"
<1>1. Len(w) \in 1 .. Len(w)
  BY EmptySeq
<1>2. w[Len(w)].role # "assistant"
  BY <1>1 DEF Shape
<1>3. w[Len(w)].role = IF Len(w) % 2 = 1 THEN "user" ELSE "assistant"
  BY <1>1 DEF Shape
<1> QED BY <1>1, <1>2, <1>3
(* A steer joins the window and leaves its shape.                            *)
LEMMA SteerKeeps ==
  ASSUME NEW w \in Seq(Message), w # <<>>, Shape(w), NEW n \in Nat
  PROVE  LET v == push_steer(w, n)
         IN  /\ v \in Seq(Message) /\ v # <<>> /\ Shape(v)
             /\ SteersIn(v) = SteersIn(w) \cup {n}
<1> DEFINE b == [is |-> "steer", of |-> n]
           c == <<b>>
           v == push_steer(w, n)
           z == Len(w)
<1>1. b \in Block /\ c \in Seq(Block)
  BY DEF Block
<1>2. z \in Nat /\ z >= 1 /\ z % 2 = 1 /\ w[z].role = "user"
  BY ShapeEnds
<1>3. /\ v \in Seq(Message) /\ Len(v) = z
      /\ v[z].role = "user" /\ v[z].content = w[z].content \o c
      /\ \A i \in 1 .. z - 1 : v[i] = w[i]
      /\ \A i \in 1 .. z : v[i].role = w[i].role
  BY <1>1, <1>2, PushUserJoins DEF push_steer
<1>4. w[z].content \in Seq(Block)
  <2>1. w[z] \in Message
    BY <1>2
  <2> QED BY <2>1 DEF Message
<1>5. /\ Named(c, "use") = {} /\ Named(c, "answer") = {}
      /\ Named(c, "steer") = {n}
  <2> HIDE DEF b
  <2>1. \A is : Named(c, is) = IF b.is = is THEN {b.of} ELSE {}
    BY <1>1, NamedOne
  <2> QED BY <2>1 DEF b
<1> HIDE DEF b, c, v, z
<1>6. ASSUME NEW is
      PROVE  Named(v[z].content, is) = Named(w[z].content, is) \cup Named(c, is)
  BY <1>1, <1>3, <1>4, NamedConcat
<1>7. \A i \in 1 .. z : /\ Named(v[i].content, "use") = Named(w[i].content, "use")
                        /\ Named(v[i].content, "answer") = Named(w[i].content, "answer")
  <2> TAKE i \in 1 .. z
  <2>1. CASE i = z
    BY <2>1, <1>5, <1>6
  <2>2. CASE i # z
    BY <2>2, <1>2, <1>3
  <2> QED BY <2>1, <2>2
<1>8. Shape(v)
  <2>1. ASSUME NEW i \in 1 .. z
        PROVE  /\ v[i].role = IF i % 2 = 1 THEN "user" ELSE "assistant"
               /\ v[i].role = "assistant" => i < z
               /\ v[i].role = "user" => Named(v[i].content, "use") = {}
               /\ i > 1 => Named(v[i].content, "answer") = Named(v[i - 1].content, "use")
    <3>1. /\ w[i].role = IF i % 2 = 1 THEN "user" ELSE "assistant"
          /\ w[i].role = "assistant" => i < z
          /\ w[i].role = "user" => Named(w[i].content, "use") = {}
          /\ i > 1 => Named(w[i].content, "answer") = Named(w[i - 1].content, "use")
      BY DEF Shape, z
    <3>2. i > 1 => i - 1 \in 1 .. z
      BY <1>2
    <3> QED BY <3>1, <3>2, <1>3, <1>7
  <2> QED BY <2>1, <1>3 DEF Shape
<1>9. \A x : x \in SteersIn(v) <=> x \in SteersIn(w) \/ x = n
  <2>1. \A i \in 1 .. z - 1 : Named(v[i].content, "steer") = Named(w[i].content, "steer")
    BY <1>3
  <2>2. 1 .. z = (1 .. z - 1) \cup {z}
    BY <1>2
  <2>3. \A x : x \in SteersIn(v) <=> \E i \in 1 .. z : x \in Named(v[i].content, "steer")
    BY <1>3, SteersAre
  <2>4. \A x : x \in SteersIn(w) <=> \E i \in 1 .. z : x \in Named(w[i].content, "steer")
    BY SteersAre DEF z
  <2>5. \A x : x \in Named(v[z].content, "steer")
                 <=> x \in Named(w[z].content, "steer") \/ x = n
    BY <1>5, <1>6
  <2> QED BY <2>1, <2>2, <2>3, <2>4, <2>5, Zenon
<1>10. v # <<>>
  BY <1>2, <1>3
<1>11. SteersIn(v) = SteersIn(w) \cup {n}
  BY <1>9
<1> QED BY <1>3, <1>8, <1>10, <1>11 DEF v

(* A turn with calls adds the assistant's message and, next to it, the       *)
(* results that answer it.                                                   *)
LEMMA TurnKeeps ==
  ASSUME NEW w \in Seq(Message), w # <<>>, Shape(w),
         NEW a \in Seq(Block), NEW r \in Seq(Block), a # <<>>, r # <<>>,
         Named(a, "use") = Named(r, "answer"), Named(a, "answer") = {},
         Named(a, "steer") = {}, Named(r, "use") = {}, Named(r, "steer") = {}
  PROVE  LET v == push_tool_results(push_assistant(w, a), r)
         IN  v # <<>> /\ Shape(v) /\ SteersIn(v) = SteersIn(w)
<1> DEFINE u == push_assistant(w, a)
           v == push_tool_results(u, r)
           z == Len(w)
<1>1. z \in Nat /\ z >= 1 /\ z % 2 = 1 /\ w[z].role = "user"
  BY ShapeEnds
<1>2. /\ u \in Seq(Message) /\ Len(u) = z + 1
      /\ u[z + 1] = [role |-> "assistant", content |-> a]
      /\ \A i \in 1 .. z : u[i] = w[i]
  <2>1. [role |-> "assistant", content |-> a] \in Message
    BY DEF Message
  <2> QED BY <2>1 DEF push_assistant
<1> HIDE DEF u, z
<1>3. /\ v \in Seq(Message) /\ Len(v) = Len(u) + 1
      /\ v[Len(u) + 1] = [role |-> "user", content |-> r]
      /\ \A i \in 1 .. Len(u) : v[i] = u[i]
  <2>1. u[Len(u)].role # "user"
    BY <1>2
  <2>2. v = push_user(u, r)
    BY DEF push_tool_results
  <2> HIDE DEF v
  <2>3. /\ push_user(u, r) \in Seq(Message) /\ Len(push_user(u, r)) = Len(u) + 1
        /\ push_user(u, r)[Len(u) + 1] = [role |-> "user", content |-> r]
        /\ \A i \in 1 .. Len(u) : push_user(u, r)[i] = u[i]
    BY <1>2, <2>1, PushUserOpens
  <2> QED BY ONLY <2>2, <2>3
<1> HIDE DEF v
<1>4. /\ Len(v) = z + 2 /\ \A i \in 1 .. z : v[i] = w[i]
      /\ v[z + 1].role = "assistant" /\ v[z + 1].content = a
      /\ v[z + 2].role = "user" /\ v[z + 2].content = r
  BY <1>1, <1>2, <1>3
<1>5. 1 .. Len(v) = (1 .. z) \cup {z + 1, z + 2}
  BY <1>1, <1>4
<1>6. Shape(v)
  <2> DEFINE P(i) == /\ v[i].role = IF i % 2 = 1 THEN "user" ELSE "assistant"
                     /\ v[i].role = "assistant" => i < Len(v)
                     /\ v[i].role = "user" => Named(v[i].content, "use") = {}
                     /\ i > 1 => Named(v[i].content, "answer") = Named(v[i - 1].content, "use")
  <2>1. ASSUME NEW i \in 1 .. z
        PROVE  P(i)
    <3>1. /\ w[i].role = IF i % 2 = 1 THEN "user" ELSE "assistant"
          /\ w[i].role = "assistant" => i < z
          /\ w[i].role = "user" => Named(w[i].content, "use") = {}
          /\ i > 1 => Named(w[i].content, "answer") = Named(w[i - 1].content, "use")
      BY DEF Shape, z
    <3>2. i > 1 => v[i - 1] = w[i - 1]
      BY <1>1, <1>4
    <3>3. v[i] = w[i] /\ (i < z => i < Len(v))
      BY <1>1, <1>4
    <3> QED BY <3>1, <3>2, <3>3
  <2>2. P(z + 1)
    <3>0. z \in 1 .. z
      BY <1>1
    <3>1. Named(w[z].content, "use") = {}
      BY <1>1, <3>0 DEF Shape, z
    <3>3. v[z] = w[z] /\ (z + 1) - 1 = z
      BY <1>1, <1>4
    <3>4. (z + 1) % 2 = 0
      BY <1>1
    <3>2. v[(z + 1) - 1] = w[z] /\ (z + 1) % 2 # 1 /\ z + 1 < Len(v)
      BY <3>3, <3>4, <1>1, <1>4
    <3> QED BY <3>1, <3>2, <1>1, <1>4
  <2>3. P(z + 2)
    <3>1. (z + 2) - 1 = z + 1 /\ (z + 2) % 2 = 1
      BY <1>1
    <3> QED BY <3>1, <1>1, <1>4
  <2> HIDE DEF P
  <2>4. \A i \in 1 .. Len(v) : P(i)
    BY <2>1, <2>2, <2>3, <1>5
  <2> QED BY <2>4 DEF P, Shape
<1>7. \A x : x \in SteersIn(v) <=> x \in SteersIn(w)
  <2>1. \A x : x \in SteersIn(v) <=> \E i \in 1 .. Len(v) : x \in Named(v[i].content, "steer")
    BY SteersAre
  <2>2. \A x : x \in SteersIn(w) <=> \E i \in 1 .. z : x \in Named(w[i].content, "steer")
    BY SteersAre DEF z
  <2>3. Named(v[z + 1].content, "steer") = {} /\ Named(v[z + 2].content, "steer") = {}
    BY <1>4
  <2>4. \A i \in 1 .. z : Named(v[i].content, "steer") = Named(w[i].content, "steer")
    BY <1>4
  <2>5. \A i : i \in 1 .. Len(v) <=> i \in 1 .. z \/ i = z + 1 \/ i = z + 2
    BY ONLY <1>5
  <2> QED BY ONLY <2>1, <2>2, <2>3, <2>4, <2>5, Zenon
<1>8. v # <<>>
  BY <1>1, <1>4
<1> QED BY <1>6, <1>7, <1>8 DEF v, u

(* The task opens the conversation.                                          *)
LEMMA TaskOpens ==
  LET v == push_user(<<>>, <<[is |-> "task", of |-> 0]>>)
  IN  v \in Seq(Message) /\ v # <<>> /\ Shape(v) /\ SteersIn(v) = {}
<1> DEFINE b == [is |-> "task", of |-> 0]
           c == <<b>>
           v == push_user(<<>>, c)
<1>1. b \in Block /\ c \in Seq(Block)
  BY DEF Block
<1>2. <<>> \in Seq(Message) /\ Len(<<>>) = 0
  OBVIOUS
<1> HIDE DEF b, c
<1>3. v \in Seq(Message) /\ Len(v) = 1 /\ v[1] = [role |-> "user", content |-> c]
  <2>1. v = Append(<<>>, [role |-> "user", content |-> c])
    BY DEF push_user
  <2>2. [role |-> "user", content |-> c] \in Message
    BY <1>1 DEF Message
  <2>3. \A e \in Message : /\ Append(<<>>, e) \in Seq(Message)
                            /\ Len(Append(<<>>, e)) = 1 /\ Append(<<>>, e)[1] = e
    <3> TAKE e \in Message
    <3> DEFINE o == <<>>
    <3>1. o \in Seq(Message) /\ Len(o) = 0
      OBVIOUS
    <3> HIDE DEF o
    <3>2. Append(o, e) \in Seq(Message) /\ Len(Append(o, e)) = 1 /\ Append(o, e)[1] = e
      BY <3>1
    <3> QED BY <3>2 DEF o
  <2> QED BY <2>1, <2>2, <2>3, Zenon
<1> HIDE DEF v
<1>4. Named(c, "use") = {} /\ Named(c, "steer") = {}
  BY <1>1, NamedOne DEF b, c
<1>5. Shape(v)
  <2>1. \A i \in 1 .. Len(v) : i = 1 /\ i % 2 = 1
    BY <1>3
  <2> QED BY <1>3, <1>4, <2>1 DEF Shape
<1>6. SteersIn(v) = {}
  <2>1. 1 .. Len(v) = {1}
    BY <1>3
  <2>2. \A i \in 1 .. Len(v) : Named(v[i].content, "steer") = {}
    BY <1>3, <1>4, <2>1
  <2> QED BY <2>2, SteersAre
<1> QED BY <1>3, <1>5, <1>6 DEF v, c, b
-----------------------------------------------------------------------------
(* The counters. A wave more than a turn within the budget had minted is     *)
(* still within what the whole budget may mint.                              *)
LEMMA WaveWithinBudget ==
  \A t \in Nat : /\ t * MaxCalls \in Nat
                 /\ (t + 1) * MaxCalls = t * MaxCalls + MaxCalls
                 /\ t < Budget => t * MaxCalls + MaxCalls <= Budget * MaxCalls
<1> TAKE t \in Nat
<1>1. t * MaxCalls \in Nat /\ (t + 1) * MaxCalls = t * MaxCalls + MaxCalls
  BY BudgetAssumption
<1>2. ASSUME t < Budget
      PROVE  t * MaxCalls + MaxCalls <= Budget * MaxCalls
  <2> DEFINE d == Budget - (t + 1)
  <2>1. d \in Nat /\ Budget = t + 1 + d
    BY <1>2, BudgetAssumption
  <2> HIDE DEF d
  <2>2. Budget * MaxCalls = (t + 1) * MaxCalls + d * MaxCalls
    BY <2>1, BudgetAssumption
  <2>3. d * MaxCalls \in Nat /\ Budget * MaxCalls \in Nat
    BY <2>1, BudgetAssumption
  <2> QED BY <1>1, <2>2, <2>3, BudgetAssumption
<1> QED BY <1>1, <1>2

(* The call about to be made is the first the results have not answered.     *)
LEMMA HeadOfWave ==
  ASSUME TypeOK, WaveOK, pc \in MidTurn, wave # <<>>
  PROVE  /\ Head(wave) = minted - Len(wave) + 1 /\ Head(wave) \in 1 .. minted
         /\ Len(wave) \in Nat /\ Len(wave) >= 1 /\ minted \in Nat
         /\ Tail(wave) \in Seq(Nat) /\ Len(Tail(wave)) = Len(wave) - 1
         /\ \A i \in 1 .. Len(Tail(wave)) : Tail(wave)[i] = minted - Len(Tail(wave)) + i
<1>1. wave \in Seq(Nat) /\ calls \in Seq(Nat) /\ minted \in Nat /\ Len(calls) \in Nat
  BY BudgetAssumption DEF TypeOK
<1>2. /\ Len(wave) \in Nat /\ Len(wave) >= 1
      /\ Head(wave) = wave[1]
      /\ Tail(wave) \in Seq(Nat) /\ Len(Tail(wave)) = Len(wave) - 1
      /\ \A i \in 1 .. Len(wave) - 1 : Tail(wave)[i] = wave[i + 1]
  BY <1>1, HeadTailProperties, EmptySeq
<1>3. /\ Len(calls) <= minted /\ Len(wave) <= Len(calls)
      /\ \A i \in 1 .. Len(wave) : wave[i] = minted - Len(wave) + i
  BY DEF WaveOK
<1>4. wave[1] = minted - Len(wave) + 1
  BY <1>2, <1>3
<1>5. ASSUME NEW i \in 1 .. Len(Tail(wave))
      PROVE  Tail(wave)[i] = minted - Len(Tail(wave)) + i
  <2>1. i \in 1 .. Len(wave) - 1 /\ i + 1 \in 1 .. Len(wave)
    BY <1>2
  <2>2. Tail(wave)[i] = minted - Len(wave) + (i + 1)
    BY <1>2, <1>3, <2>1
  <2> QED BY <1>1, <1>2, <2>1, <2>2
<1> QED BY <1>1, <1>2, <1>3, <1>4, <1>5

(* What the provider answers: n calls, numbered from the last one minted.    *)
LEMMA AnswerNames ==
  ASSUME NEW m \in Nat, NEW n \in Nat, NEW says \in BOOLEAN
  PROVE  LET ids == [i \in 1 .. n |-> m + i]
             uses == [i \in 1 .. n |-> [is |-> "use", of |-> m + i]]
             words == IF says THEN <<[is |-> "say", of |-> 0]>> ELSE <<>>
         IN  /\ ids \in Seq(Nat) /\ Len(ids) = n
             /\ words \o uses \in Seq(Block)
             /\ Named(words \o uses, "use") = m + 1 .. m + n
             /\ Named(words \o uses, "answer") = {}
             /\ Named(words \o uses, "steer") = {}
<1> DEFINE ids == [i \in 1 .. n |-> m + i]
           uses == [i \in 1 .. n |-> [is |-> "use", of |-> m + i]]
           b == [is |-> "say", of |-> 0]
           words == IF says THEN <<b>> ELSE <<>>
<1>1. ids \in Seq(Nat) /\ Len(ids) = n
  OBVIOUS
<1>2. uses \in Seq(Block) /\ Len(uses) = n
  <2>1. \A i \in 1 .. n : [is |-> "use", of |-> m + i] \in Block
    BY DEF Block
  <2> QED BY <2>1
<1>3. \A i \in 1 .. n : uses[i].is = "use" /\ uses[i].of = m + i
  OBVIOUS
<1>4. b \in Block
  BY DEF Block
<1>5. b.is = "say"
  OBVIOUS
<1> HIDE DEF uses, b
<1>6. words \in Seq(Block) /\ \A is \in {"use", "answer", "steer"} : Named(words, is) = {}
  <2>1. CASE says
    BY <2>1, <1>4, <1>5, NamedOne
  <2>2. CASE ~says
    BY <2>2, NamedNone
  <2> QED BY <2>1, <2>2
<1>7. Named(uses, "use") = m + 1 .. m + n
  <2>1. \A x : x \in Named(uses, "use") <=> \E i \in 1 .. n : x = m + i
    BY <1>2, <1>3, NamedIs
  <2>2. \A x : (\E i \in 1 .. n : x = m + i) <=> x \in m + 1 .. m + n
    <3> TAKE x
    <3>1. ASSUME x \in m + 1 .. m + n
          PROVE  \E i \in 1 .. n : x = m + i
      <4>1. x - m \in 1 .. n /\ x = m + (x - m)
        BY <3>1
      <4> QED BY <4>1
    <3> QED BY <3>1
  <2> QED BY <2>1, <2>2
<1>8. Named(uses, "answer") = {} /\ Named(uses, "steer") = {}
  BY <1>2, <1>3, NamedIs
<1> HIDE DEF words
<1>9. \A is \in {"use", "answer", "steer"} :
        Named(words \o uses, is) = Named(words, is) \cup Named(uses, is)
  BY <1>2, <1>6, NamedConcat
<1>10. words \o uses \in Seq(Block)
  BY <1>2, <1>6
<1>11. /\ Named(words \o uses, "use") = m + 1 .. m + n
       /\ Named(words \o uses, "answer") = {}
       /\ Named(words \o uses, "steer") = {}
  BY <1>6, <1>7, <1>8, <1>9
<1> QED BY <1>1, <1>10, <1>11 DEF words, uses, b
-----------------------------------------------------------------------------
(* Steps that leave most of the state alone, by what they write.             *)
LEMMA Types ==
  ASSUME TypeOK
  PROVE  /\ ledger \in Seq(Entry) /\ window \in Seq(Message) /\ chat \in Seq(Message)
         /\ minted \in Nat /\ turns \in Nat /\ steers \in Nat
         /\ wave \in Seq(Nat) /\ calls \in Seq(Nat)
         /\ assistant \in Seq(Block) /\ results \in Seq(Block)
         /\ effects \subseteq 1 .. minted
BY BudgetAssumption DEF TypeOK, Entry, Message

LEMMA EntryTypes ==
  ASSUME TypeOK
  PROVE  \A i \in 1 .. Len(ledger) : ledger[i].kind \in Kinds /\ ledger[i].of \in Nat
<1>1. \A i \in 1 .. Len(ledger) : ledger[i] \in Entry
  BY Types
<1> QED BY <1>1 DEF Entry

(* Every line a run writes is one of its kinds.                              *)
LEMMA LineTypes ==
  ASSUME TypeOK, NEW k \in Kinds, NEW n \in Nat, ledger' = Line(k, n)
  PROVE  ledger' \in Seq([kind : Kinds, of : Nat])
<1>1. Added(k, n)
  BY Types, LineAdds
<1> QED BY <1>1 DEF Added, Entry

LEMMA TypesStep ==
  ASSUME TypeOK, CountsOK, WaveOK, WindowOK, Next
  PROVE  TypeOK' /\ CountsOK'
<1> USE BudgetAssumption DEF TypeOK, CountsOK, MidTurn, InTurn, InRun, Over, Places, turn
<1>1. CASE Pin
  BY <1>1, LineTypes DEF Pin, Kinds
<1>2. CASE Started
  <2>1. window' \in Seq(Message)
    BY <1>2, TaskOpens DEF Started, WindowOK
  <2> QED BY <1>2, <2>1, LineTypes DEF Started, Kinds, Message
<1>3. CASE Spent
  BY <1>3 DEF Spent
<1>4. CASE Undisturbed
  BY <1>4 DEF Undisturbed, AtBoundary, Boundary, Within
<1>5. CASE Steered
  <2>1. AtBoundary /\ steers < MaxSteers /\ steers' = steers + 1
        /\ window' = push_steer(window, steers + 1)
        /\ ledger' = Line("steer_received", steers + 1) /\ pc' = Boundary[pc]
        /\ UNCHANGED <<turns, chat, turn, effects, delegates, handed, ending, minted>>
    BY <1>5 DEF Steered
  <2>2. window' \in Seq(Message)
    <3>1. window \in Seq(Message) /\ steers + 1 \in Nat
      BY DEF Message
    <3>2. window # <<>> /\ Shape(window)
      BY <2>1 DEF WindowOK, AtBoundary, Boundary
    <3> QED BY <2>1, <3>1, <3>2, SteerKeeps
  <2>3. ledger' \in Seq([kind : Kinds, of : Nat])
    BY <2>1, LineTypes DEF Kinds
  <2>4. /\ pc \in {"loop", "before_call", "before_wave", "before_spawn"}
        /\ pc' = [loop |-> "assemble", before_call |-> "call",
                  before_wave |-> "execute", before_spawn |-> "record"][pc]
        /\ pc = "loop" => turns < Budget
    BY <2>1 DEF AtBoundary, Boundary, Within
  <2> QED BY <2>1, <2>2, <2>3, <2>4 DEF Message
<1>6. CASE Cancelled
  <2>1. ledger' \in Seq([kind : Kinds, of : Nat])
    BY <1>6, LineTypes DEF Cancelled, Kinds
  <2> QED BY <1>6, <2>1 DEF Cancelled, AtBoundary, Boundary
<1>7. CASE assemble
  BY <1>7, LineTypes DEF assemble, Kinds
<1>8. CASE call
  BY <1>8, LineTypes DEF call, Kinds
<1>9. ASSUME NEW n \in 0 .. MaxCalls, NEW says \in BOOLEAN, Returned(n, says)
      PROVE  TypeOK' /\ CountsOK'
  <2>1. ledger' \in Seq([kind : Kinds, of : Nat])
    BY <1>9, LineTypes DEF Returned, Kinds
  <2>2. wave' \in Seq(Nat) /\ calls' \in Seq(Nat) /\ assistant' \in Seq(Block)
    <3> DEFINE ids == [i \in 1 .. n |-> minted + i]
               uses == [i \in 1 .. n |-> [is |-> "use", of |-> minted + i]]
               words == IF says THEN <<[is |-> "say", of |-> 0]>> ELSE <<>>
    <3>1. minted \in Nat /\ n \in Nat
      OBVIOUS
    <3>2. ids \in Seq(Nat) /\ words \o uses \in Seq(Block)
      BY <3>1, AnswerNames
    <3>3. wave' = ids /\ calls' = ids /\ assistant' = words \o uses
      BY <1>9 DEF Returned
    <3> QED BY <3>2, <3>3
  <2>3. /\ minted \in Nat /\ turns \in Nat /\ n \in Nat /\ n <= MaxCalls
        /\ pc = "provider" /\ pc' = "fence" /\ minted' = minted + n /\ results' = <<>>
        /\ UNCHANGED <<turns, window, chat, effects, delegates, handed, ending, steers>>
    BY <1>9 DEF Returned
  <2>4. minted' <= turns * MaxCalls + MaxCalls /\ minted' \in 0 .. Budget * MaxCalls
    <3>1. minted <= turns * MaxCalls /\ turns < Budget
      BY <2>3
    <3>2. /\ turns * MaxCalls \in Nat
          /\ turns * MaxCalls + MaxCalls <= Budget * MaxCalls
      BY <2>3, <3>1, WaveWithinBudget
    <3> DEFINE p == turns * MaxCalls
               q == Budget * MaxCalls
    <3>3. minted <= p /\ p \in Nat /\ p + MaxCalls <= q
      BY <3>1, <3>2
    <3>4. q \in Nat
      OBVIOUS
    <3> HIDE DEF p, q
    <3>5. minted' <= p + MaxCalls /\ minted' \in 0 .. q
      BY <2>3, <3>3, <3>4
    <3> QED BY <3>5 DEF p, q
  <2>5. effects \subseteq 1 .. minted'
    BY <2>3
  <2>6. TypeOK'
    BY <2>1, <2>2, <2>3, <2>4, <2>5
  <2>7. CountsOK'
    BY <2>3, <2>4
  <2> QED BY <2>6, <2>7
<1>10. CASE ProviderFails
  BY <1>10 DEF ProviderFails
<1>11. CASE fence
  BY <1>11, LineTypes DEF fence, Kinds
<1>12. CASE execute
  <2>1. ledger' \in Seq([kind : Kinds, of : Nat])
    <3>1. wave # <<>> => Head(wave) \in Nat
      BY Types, HeadTailProperties
    <3> QED BY <1>12, <3>1, LineTypes DEF execute, Kinds
  <2> QED BY <1>12, <2>1 DEF execute
<1>13. ASSUME NEW v \in {"acted", "handed", "stopped"}, Invoke(v)
       PROVE  TypeOK' /\ CountsOK'
  <2>1. Head(wave) \in 1 .. minted /\ Head(wave) \in Nat
    <3>1. wave # <<>> /\ pc \in MidTurn
      BY <1>13 DEF Invoke, WaveOK
    <3> QED BY <3>1, HeadOfWave
  <2>2. [is |-> "answer", of |-> Head(wave)] \in Block
    BY <2>1 DEF Block
  <2>3. results' \in Seq(Block)
    BY <1>13, <2>2 DEF Invoke
  <2>4. effects' \subseteq 1 .. minted' /\ delegates' \subseteq effects' /\ handed' \subseteq delegates'
    BY <1>13, <2>1 DEF Invoke
  <2> QED BY <1>13, <2>3, <2>4 DEF Invoke
<1>14. CASE Result
  <2>1. wave # <<>> /\ pc \in MidTurn
    BY <1>14 DEF Result, WaveOK
  <2>2. Head(wave) \in Nat /\ Tail(wave) \in Seq(Nat)
    BY <2>1, HeadOfWave
  <2>3. ledger' \in Seq([kind : Kinds, of : Nat])
    BY <1>14, <2>2, LineTypes DEF Result, Kinds
  <2> QED BY <1>14, <2>2, <2>3 DEF Result
<1>15. CASE record
  <2>1. window' \in Seq(Message)
    BY <1>15, Types, RecordTypes DEF record
  <2>2. /\ turns \in Nat /\ turns < Budget /\ turns' = turns + 1
        /\ minted <= turns * MaxCalls + MaxCalls /\ minted' = minted
    BY <1>15 DEF record
  <2>3. minted' <= turns' * MaxCalls /\ turns' \in 0 .. Budget
    BY <2>2, WaveWithinBudget
  <2> QED BY <1>15, <2>1, <2>3 DEF record, Message
<1>16. CASE carry
  BY <1>16, LineTypes DEF carry, Kinds
<1>17. CASE Handoff
  BY <1>17, LineTypes DEF Handoff, Kinds
<1>18. CASE freeze
  BY <1>18, LineTypes DEF freeze, Kinds
<1>19. CASE conclude
  BY <1>19 DEF conclude
<1>20. CASE StorageFails
  BY <1>20 DEF StorageFails, Appending, AtBoundary, Boundary
<1>21. CASE Crash
  BY <1>21 DEF Crash
<1>22. CASE startup_scan
  <2>1. PICK i \in dangling_tool_calls : ledger' = Line("tool_result", ledger[i].of)
    BY <1>22 DEF startup_scan
  <2>2. ledger[i].of \in Nat
    <3>1. i \in 1 .. Len(ledger)
      BY DEF dangling_tool_calls
    <3> QED BY <3>1, EntryTypes
  <2>3. ledger' \in Seq([kind : Kinds, of : Nat])
    BY <2>1, <2>2, LineTypes DEF Kinds
  <2> QED BY <1>22, <2>3 DEF startup_scan
<1> QED BY <1>1, <1>2, <1>3, <1>4, <1>5, <1>6, <1>7, <1>8, <1>9, <1>10, <1>11, <1>12,
           <1>13, <1>14, <1>15, <1>16, <1>17, <1>18, <1>19, <1>20, <1>21, <1>22 DEF Next
(* The turn keeps its books.                                                 *)
LEMMA WaveStep ==
  ASSUME TypeOK, WaveOK, Next
  PROVE  WaveOK'
<1> USE DEF MidTurn
<1> DEFINE Kept == UNCHANGED <<wave, calls, assistant, results, minted>>
<1>2. CASE Pin \/ Started \/ Spent \/ assemble \/ call \/ ProviderFails
  BY <1>2 DEF Pin, Started, Spent, assemble, call, ProviderFails, WaveOK, Answered, turn
<1>3. CASE Undisturbed \/ Steered
  <2>1. Kept /\ pc' = Boundary[pc] /\ pc \in DOMAIN Boundary
    BY <1>3 DEF Undisturbed, Steered, AtBoundary, turn
  <2>2. CASE pc \in {"loop", "before_call"}
    BY <2>1, <2>2 DEF Boundary, WaveOK
  <2>3. CASE pc \in {"before_wave", "before_spawn"}
    BY <2>1, <2>3 DEF Boundary, WaveOK, Answered
  <2> QED BY <2>1, <2>2, <2>3 DEF Boundary
<1>4. CASE Cancelled \/ carry \/ Handoff \/ freeze \/ conclude \/ StorageFails \/ Crash
           \/ startup_scan
  BY <1>4 DEF Cancelled, carry, Handoff, freeze, conclude, StorageFails, Crash,
              startup_scan, WaveOK
<1>5. ASSUME NEW n \in 0 .. MaxCalls, NEW says \in BOOLEAN, Returned(n, says)
      PROVE  WaveOK'
  <2> DEFINE ids == [i \in 1 .. n |-> minted + i]
             uses == [i \in 1 .. n |-> [is |-> "use", of |-> minted + i]]
             words == IF says THEN <<[is |-> "say", of |-> 0]>> ELSE <<>>
  <2>1. minted \in Nat /\ n \in Nat
    BY Types, BudgetAssumption
  <2>2. wave' = ids /\ calls' = ids /\ assistant' = words \o uses /\ results' = <<>>
        /\ minted' = minted + n /\ pc' = "fence"
    BY <1>5 DEF Returned
  <2>3. /\ Named(assistant', "use") = minted + 1 .. minted + n
        /\ Named(assistant', "answer") = {} /\ Named(assistant', "steer") = {}
    BY <2>1, <2>2, AnswerNames
  <2>4. Len(wave') = n /\ Len(calls') = n /\ \A i \in 1 .. n : wave'[i] = minted + i
    BY <2>1, <2>2
  <2>5. \A is : Named(results', is) = {}
    BY <2>2, NamedNone
  <2>6. minted' - Len(calls') = minted /\ minted' - Len(wave') = minted
    BY <2>1, <2>2, <2>4
  <2>7. minted + 1 .. minted = {}
    BY <2>1
  <2>8. Answered' = minted
    BY <2>2, <2>6 DEF Answered
  <2>9. /\ Len(calls') <= minted' /\ Len(wave') <= Len(calls') /\ Len(wave') = Len(calls')
        /\ \A i \in 1 .. Len(wave') : wave'[i] = minted' - Len(wave') + i
    BY <2>1, <2>2, <2>4, <2>6
  <2>10. Named(assistant', "use") = minted' - Len(calls') + 1 .. minted'
    BY <2>2, <2>3, <2>6
  <2>11. Named(results', "answer") = minted' - Len(calls') + 1 .. Answered'
    BY <2>5, <2>6, <2>7, <2>8
  <2> QED BY <2>2, <2>3, <2>5, <2>9, <2>10, <2>11 DEF WaveOK
<1>6. CASE fence
  BY <1>6 DEF fence, WaveOK, Answered, turn
<1>7. CASE execute
  BY <1>7 DEF execute, WaveOK, Answered, turn
<1>8. ASSUME NEW v \in {"acted", "handed", "stopped"}, Invoke(v)
      PROVE  WaveOK'
  <2> DEFINE b == [is |-> "answer", of |-> Head(wave)]
  <2>1. /\ pc = "invoke" /\ pc' = "result" /\ pc \in MidTurn /\ wave # <<>>
        /\ UNCHANGED <<wave, calls, assistant, minted>>
        /\ results' = Append(results, b)
    BY <1>8 DEF Invoke, WaveOK
  <2>2. /\ Head(wave) = minted - Len(wave) + 1 /\ Head(wave) \in 1 .. minted
        /\ Len(wave) \in Nat /\ minted \in Nat /\ Len(calls) \in Nat
        /\ Len(calls) <= minted /\ Len(wave) <= Len(calls)
        /\ results \in Seq(Block)
    <3>1. Head(wave) = minted - Len(wave) + 1 /\ Head(wave) \in 1 .. minted
          /\ Len(wave) \in Nat
      BY <2>1, HeadOfWave
    <3>2. Len(calls) <= minted /\ Len(wave) <= Len(calls)
      BY <2>1 DEF WaveOK
    <3>3. minted \in Nat /\ calls \in Seq(Nat) /\ results \in Seq(Block)
      BY Types
    <3> QED BY <3>1, <3>2, <3>3
  <2>3. b \in Block
    BY <2>2 DEF Block
  <2>4. results' = results \o <<b>>
    BY <2>1, <2>2, <2>3
  <2>5. b.is = "answer" /\ b.of = minted - Len(wave) + 1
    BY <2>2
  <2> HIDE DEF b
  <2>6. /\ Named(results', "answer") = Named(results, "answer") \cup {minted - Len(wave) + 1}
        /\ Named(results', "use") = Named(results, "use")
        /\ Named(results', "steer") = Named(results, "steer")
    <3>1. ASSUME NEW is
          PROVE  Named(results', is) = Named(results, is) \cup Named(<<b>>, is)
      <4>1. <<b>> \in Seq(Block) /\ results \in Seq(Block)
        BY <2>2, <2>3
      <4>2. Named(results \o <<b>>, is) = Named(results, is) \cup Named(<<b>>, is)
        BY <4>1, NamedConcat, Zenon
      <4> QED BY <2>4, <4>2
    <3>2. ASSUME NEW is
          PROVE  Named(<<b>>, is) = IF b.is = is THEN {b.of} ELSE {}
      BY <2>3, NamedOne
    <3> QED BY <2>5, <3>1, <3>2
  <2>7. /\ Named(results, "answer") = minted - Len(calls) + 1 .. minted - Len(wave)
        /\ Named(results, "use") = {} /\ Named(results, "steer") = {}
    BY <2>1 DEF WaveOK, Answered
  <2>8. (minted - Len(calls) + 1 .. minted - Len(wave)) \cup {minted - Len(wave) + 1}
           = minted - Len(calls) + 1 .. minted - Len(wave) + 1
    BY <2>2
  <2>9. Answered' = minted - Len(wave) + 1
    BY <2>1 DEF Answered
  <2> QED BY <2>1, <2>6, <2>7, <2>8, <2>9 DEF WaveOK
<1>9. CASE Result
  <2>1. /\ pc = "result" /\ pc' = "execute" /\ pc \in MidTurn /\ wave # <<>>
        /\ UNCHANGED <<calls, assistant, results, minted>> /\ wave' = Tail(wave)
    BY <1>9 DEF Result, WaveOK
  <2>2. /\ Len(wave) \in Nat /\ minted \in Nat /\ Len(calls) \in Nat
        /\ Len(wave') = Len(wave) - 1
        /\ \A i \in 1 .. Len(wave') : wave'[i] = minted - Len(wave') + i
    BY <2>1, HeadOfWave, Types
  <2>3. Answered' = minted - Len(wave) + 1 /\ Answered = minted - Len(wave) + 1
    BY <2>1, <2>2 DEF Answered
  <2>4. Len(wave') <= Len(calls')
    BY <2>1, <2>2 DEF WaveOK
  <2> QED BY <2>1, <2>2, <2>3, <2>4 DEF WaveOK
<1>10. CASE record
  BY <1>10 DEF record, WaveOK
<1> QED BY <1>2, <1>3, <1>4, <1>5, <1>6, <1>7, <1>8, <1>9, <1>10 DEF Next
-----------------------------------------------------------------------------
(* The window. What a line does to the steers told and read.                 *)
LEMMA ToldAfter ==
  ASSUME TypeOK, NEW k \in Kinds, NEW n \in Nat, ledger' = Line(k, n)
  PROVE  /\ Told' = IF k = "steer_received" THEN Told \cup {n} ELSE Told
         /\ Read' = IF k = "prompt_assembled" THEN Told ELSE Read
         /\ Lines("steer_received")' = {} <=>
              (Lines("steer_received") = {} /\ k # "steer_received")
<1> DEFINE z == Len(ledger)
           st == "steer_received"
           pr == "prompt_assembled"
<1>1. Added(k, n) /\ Joined(k)
  BY Types, LineAdds, LinesAdd
<1>2. z \in Nat /\ Lines(st) \subseteq 1 .. z /\ Lines(pr) \subseteq 1 .. z
  BY <1>1, LinesIn DEF Added, Kinds
<1>3. \A i \in 1 .. z : ledger'[i] = ledger[i]
  BY <1>1 DEF Added
<1>4. ledger'[z + 1].of = n
  BY <1>1 DEF Added
<1>5. /\ Lines(st)' = IF k = st THEN Lines(st) \cup {z + 1} ELSE Lines(st)
      /\ Lines(pr)' = IF k = pr THEN Lines(pr) \cup {z + 1} ELSE Lines(pr)
  BY <1>1 DEF Joined, Kinds
<1> DEFINE R == {i \in Lines(st) : \E j \in Lines(pr) : i < j}
<1>6. R' = IF k = pr THEN Lines(st) ELSE R
  <2>1. CASE k = pr
    BY <2>1, <1>2, <1>5
  <2>2. CASE k = st
    BY <2>2, <1>2, <1>5
  <2>3. CASE k # pr /\ k # st
    BY <2>3, <1>5
  <2> QED BY <2>1, <2>2, <2>3
<1>7. R \subseteq 1 .. z
  BY <1>2
<1>8. Told = {ledger[i].of : i \in Lines(st)} /\ Read = {ledger[i].of : i \in R}
  BY DEF Told, Read
<1>9. Told' = {ledger'[i].of : i \in Lines(st)'} /\ Read' = {ledger'[i].of : i \in R'}
  BY DEF Told, Read
<1> HIDE DEF R, z
<1>10. Told' = IF k = st THEN Told \cup {n} ELSE Told
  <2>1. CASE k = st
    <3>1. \A x : x \in Told' <=> \E i \in Lines(st) \cup {z + 1} : x = ledger'[i].of
      BY <2>1, <1>5, <1>9
    <3>2. \A x : x \in Told <=> \E i \in Lines(st) : x = ledger[i].of
      BY <1>8
    <3>3. \A i \in Lines(st) : ledger'[i] = ledger[i]
      BY <1>2, <1>3
    <3>4. \A x : x \in Told' <=> x \in Told \/ x = n
      <4> TAKE x
      <4>1. x \in Told' <=> (\E i \in Lines(st) : x = ledger'[i].of) \/ x = n
        BY <3>1, <1>4
      <4>2. (\E i \in Lines(st) : x = ledger'[i].of) <=> (\E i \in Lines(st) : x = ledger[i].of)
        BY <3>3
      <4> QED BY <4>1, <4>2, <3>2
    <3> QED BY <2>1, <3>4
  <2>2. CASE k # st
    BY <2>2, <1>2, <1>3, <1>5, <1>8, <1>9
  <2> QED BY <2>1, <2>2
<1>11. Read' = IF k = pr THEN Told ELSE Read
  BY <1>2, <1>3, <1>6, <1>7, <1>8, <1>9
<1> QED BY <1>5, <1>10, <1>11

LEMMA WindowStep ==
  ASSUME TypeOK, WaveOK, WindowOK, Next
  PROVE  WindowOK'
<1> USE DEF MidTurn, InTurn, InRun
<1> DEFINE Quiet == /\ Told' = Told /\ Read' = Read
                    /\ Lines("steer_received")' = {} <=> Lines("steer_received") = {}
<1>1. ASSUME UNCHANGED ledger
      PROVE  Quiet
  BY <1>1 DEF Told, Read, Lines
<1>2. ASSUME NEW k \in Kinds, NEW n \in Nat, ledger' = Line(k, n),
             k # "steer_received", k # "prompt_assembled"
      PROVE  Quiet
  BY <1>2, ToldAfter
<1> HIDE DEF Quiet
<1>3. CASE Pin
  <2>1. Quiet
    BY <1>3, <1>2 DEF Pin, Kinds
  <2> QED BY <1>3, <2>1 DEF Quiet, Pin, WindowOK, turn
<1>4. CASE Started
  <2>1. Quiet
    BY <1>4, <1>2 DEF Started, Kinds
  <2>2. Told = {} /\ window = <<>>
    BY <1>4 DEF WindowOK, Told, Started
  <2>3. window' # <<>> /\ Shape(window') /\ SteersIn(window') = {}
    BY <1>4, <2>2, TaskOpens DEF Started
  <2>4. chat' = chat /\ pc' = "loop" /\ Shape(chat)
    BY <1>4 DEF Started, WindowOK
  <2>5. /\ Shape(chat)' /\ Shape(window)' /\ SteersIn(window)' = {}
    BY <2>3, <2>4, Zenon
  <2> QED BY <2>1, <2>2, <2>3, <2>4, <2>5 DEF Quiet, WindowOK
<1>5. CASE Spent \/ Undisturbed \/ ProviderFails \/ conclude \/ StorageFails
  <2>1. Quiet /\ UNCHANGED <<window, chat>>
    BY <1>5, <1>1 DEF Spent, Undisturbed, ProviderFails, conclude, StorageFails
  <2>2. /\ pc' \in InRun => pc \in InRun
        /\ pc' \notin {"pin", "start"}
        /\ pc' \in {"before_call", "call", "provider"} =>
             pc \in {"before_call", "call", "provider"}
    BY <1>5 DEF Spent, Undisturbed, ProviderFails, conclude, StorageFails, AtBoundary, Boundary
  <2> QED BY <2>1, <2>2 DEF Quiet, WindowOK
<1>6. CASE call \/ fence \/ Cancelled \/ carry \/ Handoff \/ freeze
  <2>1. Quiet /\ UNCHANGED <<window, chat>>
    BY <1>6, <1>2 DEF call, fence, Cancelled, carry, Handoff, freeze, Kinds
  <2>2. /\ pc' \in InRun => pc \in InRun
        /\ pc' \notin {"pin", "start"}
        /\ pc' \in {"before_call", "call", "provider"} =>
             pc \in {"before_call", "call", "provider"}
    BY <1>6 DEF call, fence, Cancelled, carry, Handoff, freeze
  <2> QED BY <2>1, <2>2 DEF Quiet, WindowOK
<1>7. CASE Steered
  <2>1. /\ steers' = steers + 1 /\ steers + 1 \in Nat /\ window \in Seq(Message)
        /\ window' = push_steer(window, steers + 1) /\ chat' = chat
        /\ ledger' = Line("steer_received", steers + 1)
    BY <1>7, Types DEF Steered
  <2>2. /\ pc \in {"loop", "before_call", "before_wave", "before_spawn"}
        /\ pc' \in InRun
        /\ pc' \in {"before_call", "call", "provider"} =>
             pc \in {"before_call", "call", "provider"}
    BY <1>7 DEF Steered, AtBoundary, Boundary
  <2>3. Told' = Told \cup {steers + 1} /\ Read' = Read
    BY <2>1, ToldAfter DEF Kinds
  <2>4. window # <<>> /\ Shape(window) /\ SteersIn(window) = Told
    BY <2>2 DEF WindowOK
  <2>5. window' # <<>> /\ Shape(window') /\ SteersIn(window') = Told'
    BY <2>1, <2>3, <2>4, SteerKeeps
  <2>6. Shape(window)' /\ SteersIn(window)' = Told'
    BY <2>5, Zenon
  <2> QED BY <2>1, <2>2, <2>3, <2>5, <2>6 DEF WindowOK
<1>8. CASE assemble
  <2>1. Told' = Told /\ Read' = Told
    BY <1>8, ToldAfter DEF assemble, Kinds
  <2>2. pc = "assemble" /\ pc' = "before_call" /\ chat' = window /\ window' = window
    BY <1>8 DEF assemble
  <2> QED BY <2>1, <2>2 DEF WindowOK
<1>9. ASSUME NEW n \in 0 .. MaxCalls, NEW says \in BOOLEAN, Returned(n, says)
      PROVE  WindowOK'
  <2>1. Quiet
    BY <1>9, <1>2, BudgetAssumption DEF Returned, Kinds
  <2> QED BY <1>9, <2>1 DEF Returned, Quiet, WindowOK
<1>10. CASE execute
  <2>1. Quiet
    <3>1. wave # <<>> => Head(wave) \in Nat
      BY Types, HeadTailProperties
    <3> QED BY <1>10, <3>1, <1>1, <1>2 DEF execute, Kinds
  <2> QED BY <1>10, <2>1 DEF execute, Quiet, WindowOK
<1>11. ASSUME NEW v \in {"acted", "handed", "stopped"}, Invoke(v)
       PROVE  WindowOK'
  <2>1. Quiet
    BY <1>11, <1>1 DEF Invoke
  <2> QED BY <1>11, <2>1 DEF Invoke, Quiet, WindowOK
<1>12. CASE Result
  <2>1. Quiet
    <3>1. wave # <<>> /\ pc \in MidTurn
      BY <1>12 DEF Result, WaveOK
    <3>2. Head(wave) \in Nat
      BY <3>1, HeadOfWave
    <3> QED BY <1>12, <3>2, <1>2 DEF Result, Kinds
  <2> QED BY <1>12, <2>1 DEF Result, Quiet, WindowOK
<1>13. CASE record
  <2>1. Quiet /\ chat' = chat /\ pc = "record"
        /\ window' = push_tool_results(push_assistant(window, assistant), results)
    BY <1>13, <1>1 DEF record
  <2>2. CASE calls = <<>>
    BY <1>13, <2>1, <2>2 DEF record, WindowOK, Quiet
  <2>3. CASE calls # <<>>
    <3>1. pc' = "loop" /\ window # <<>> /\ Shape(window) /\ SteersIn(window) = Told
      BY <1>13, <2>1, <2>3 DEF record, WindowOK
    <3>2. /\ Len(calls) \in Nat /\ Len(calls) >= 1 /\ Len(calls) <= minted /\ minted \in Nat
          /\ wave = <<>> /\ Len(wave) = 0
      BY <2>1, <2>3, Types, EmptySeq DEF WaveOK
    <3>3. /\ Named(assistant, "use") = minted - Len(calls) + 1 .. minted
          /\ Named(assistant, "answer") = {} /\ Named(assistant, "steer") = {}
          /\ Named(results, "answer") = minted - Len(calls) + 1 .. minted - Len(wave)
          /\ Named(results, "use") = {} /\ Named(results, "steer") = {}
      BY <2>1 DEF WaveOK, Answered
    <3>4. minted \in minted - Len(calls) + 1 .. minted /\ minted - Len(wave) = minted
      BY <3>2
    <3>5. assistant # <<>> /\ results # <<>>
      BY <3>3, <3>4, NamedNone
    <3>6. window' # <<>> /\ Shape(window') /\ SteersIn(window') = SteersIn(window)
      <4>1. Named(assistant, "use") = Named(results, "answer")
        BY <3>3, <3>4
      <4>2. window \in Seq(Message) /\ assistant \in Seq(Block) /\ results \in Seq(Block)
        BY Types
      <4> DEFINE w2 == push_tool_results(push_assistant(window, assistant), results)
      <4>3. w2 # <<>> /\ Shape(w2) /\ SteersIn(w2) = SteersIn(window)
        BY <4>1, <4>2, <3>1, <3>3, <3>5, TurnKeeps
      <4>4. window' = w2
        BY <2>1
      <4> HIDE DEF w2
      <4> QED BY <4>3, <4>4
    <3>7. Shape(window)' /\ SteersIn(window)' = Told
      BY <3>1, <3>6, Zenon
    <3> QED BY <2>1, <3>1, <3>6, <3>7 DEF WindowOK, Quiet
  <2> QED BY <2>2, <2>3
<1>14. CASE Crash
  BY <1>14 DEF Crash, WindowOK, Shape
<1>15. CASE startup_scan
  BY <1>15 DEF startup_scan, WindowOK
<1> QED BY <1>3, <1>4, <1>5, <1>6, <1>7, <1>8, <1>9, <1>10, <1>11, <1>12, <1>13,
           <1>14, <1>15 DEF Next
-----------------------------------------------------------------------------
(* The end of a run. What a line does to what was written.                   *)
LEMMA WroteAfter ==
  ASSUME TypeOK, NEW k \in Kinds, NEW n \in Nat, ledger' = Line(k, n)
  PROVE  /\ \A o \in Kinds : Wrote(o)' <=> (Wrote(o) \/ o = k)
         /\ Last(ledger').kind = k /\ Len(ledger') = Len(ledger) + 1 /\ Len(ledger) \in Nat
         /\ Len(ledger) > 0 => ledger'[Len(ledger') - 1] = Last(ledger)
<1>1. Added(k, n) /\ Joined(k)
  BY Types, LineAdds, LinesAdd
<1>2. \A o \in Kinds : Wrote(o)' <=> (Wrote(o) \/ o = k)
  BY <1>1 DEF Joined, Wrote
<1>3. Len(ledger') = Len(ledger) + 1 /\ Len(ledger) \in Nat
      /\ ledger'[Len(ledger) + 1].kind = k
      /\ \A i \in 1 .. Len(ledger) : ledger'[i] = ledger[i]
  BY <1>1 DEF Added
<1>4. Last(ledger').kind = k
  BY <1>3 DEF Last
<1>5. ASSUME Len(ledger) > 0
      PROVE  ledger'[Len(ledger') - 1] = Last(ledger)
  BY <1>3, <1>5 DEF Last
<1> QED BY <1>2, <1>3, <1>4, <1>5

(* After a cancel only the handoff and the freeze may be written.            *)
LEMMA CancelAfter ==
  ASSUME TypeOK, CancelEndsIt, NEW k \in Kinds, NEW n \in Nat, ledger' = Line(k, n),
         Wrote("cancel_received") => k \in {"handoff_written", "run_frozen"}
  PROVE  CancelEndsIt'
<1> DEFINE c == "cancel_received"
<1>1. Added(k, n) /\ Joined(k)
  BY Types, LineAdds, LinesAdd
<1>2. /\ Lines(c) \subseteq 1 .. Len(ledger)
      /\ Lines(c)' = IF k = c THEN Lines(c) \cup {Len(ledger) + 1} ELSE Lines(c)
  BY <1>1, LinesIn DEF Joined, Kinds
<1>3. ASSUME NEW i \in Lines(c)', NEW j \in 1 .. Len(ledger'), j > i
      PROVE  ledger'[j].kind \in {"handoff_written", "run_frozen"}
  <2>1. i \in Lines(c) /\ i \in 1 .. Len(ledger)
    BY <1>1, <1>2, <1>3 DEF Added
  <2>2. CASE j \in 1 .. Len(ledger)
    BY <1>1, <1>3, <2>1, <2>2 DEF Added, CancelEndsIt
  <2>3. CASE j = Len(ledger) + 1
    <3>1. Wrote(c)
      BY <2>1 DEF Wrote
    <3> QED BY <1>1, <2>3, <3>1 DEF Added
  <2> QED BY <1>1, <2>2, <2>3 DEF Added
<1> QED BY <1>3 DEF CancelEndsIt

LEMMA EndStep ==
  ASSUME TypeOK, WaveOK, AccountsOK, EndOK, CancelEndsIt, Next
  PROVE  EndOK' /\ CancelEndsIt'
<1> USE DEF Over, turn
<1> DEFINE c == "cancel_received"
           d == "provider_degraded"
<1>1. ASSUME UNCHANGED ledger
      PROVE  /\ (Wrote(c)' <=> Wrote(c)) /\ (Wrote(d)' <=> Wrote(d))
             /\ dangling_tool_calls' = dangling_tool_calls /\ CancelEndsIt'
  BY <1>1 DEF Wrote, Lines, dangling_tool_calls, CancelEndsIt
<1>2. ASSUME NEW k \in Kinds \ {c, d, "tool_called"}, NEW n \in Nat, ledger' = Line(k, n),
             Wrote(c) => k \in {"handoff_written", "run_frozen"}
      PROVE  /\ (Wrote(c)' <=> Wrote(c)) /\ (Wrote(d)' <=> Wrote(d))
             /\ dangling_tool_calls = {} => dangling_tool_calls' = {}
             /\ CancelEndsIt'
  <2>1. CancelEndsIt'
    BY <1>2, CancelAfter
  <2>2. (Wrote(c)' <=> Wrote(c)) /\ (Wrote(d)' <=> Wrote(d))
    BY <1>2, WroteAfter DEF Kinds
  <2>3. dangling_tool_calls = {} => dangling_tool_calls' = {}
    BY <1>2, Types, LineAdds, DanglingAfter
  <2> QED BY <2>1, <2>2, <2>3
<1>3. ASSUME UNCHANGED ledger, pc' \notin {"freeze", "frozen", "concluded"},
             pc \in Over => pc' \in Over /\ ending' = ending
      PROVE  EndOK' /\ CancelEndsIt'
  BY <1>1, <1>3 DEF EndOK
<1>4. ASSUME NEW k \in Kinds \ {c, d, "tool_called"}, NEW n \in Nat, ledger' = Line(k, n),
             pc' \notin {"freeze", "frozen", "concluded"}, pc \notin Over
      PROVE  EndOK' /\ CancelEndsIt'
  <2>1. ~Wrote(c) /\ ~Wrote(d)
    BY <1>4 DEF EndOK
  <2> QED BY <1>2, <1>4, <2>1 DEF EndOK
<1>5. CASE Pin
  BY <1>5, <1>4 DEF Pin, Kinds
<1>6. CASE Started
  BY <1>6, <1>4 DEF Started, Kinds
<1>7. CASE Spent \/ ProviderFails \/ record
  BY <1>7, <1>3 DEF Spent, ProviderFails, record
<1>8. CASE Undisturbed
  BY <1>8, <1>3 DEF Undisturbed, AtBoundary, Boundary
<1>9. CASE Steered
  <2>1. steers + 1 \in Nat /\ ledger' = Line("steer_received", steers + 1)
    BY <1>9, Types DEF Steered
  <2>2. pc' \notin {"freeze", "frozen", "concluded"} /\ pc \notin Over
    BY <1>9 DEF Steered, AtBoundary, Boundary
  <2> QED BY <1>4, <2>1, <2>2 DEF Kinds
<1>10. CASE Cancelled
  <2>1. /\ pc \notin Over /\ ledger' = Line(c, 0) /\ ending' = "cancelled" /\ pc' = "handoff"
        /\ dangling_tool_calls = {}
    BY <1>10 DEF Cancelled, AtBoundary, Boundary, AccountsOK
  <2>2. ~Wrote(c)
    BY <2>1 DEF EndOK
  <2>3. CancelEndsIt'
    BY <2>1, <2>2, CancelAfter DEF Kinds
  <2>4. dangling_tool_calls' = {}
    BY <2>1, Types, LineAdds, DanglingAfter DEF Kinds
  <2> QED BY <2>1, <2>3, <2>4 DEF EndOK
<1>11. CASE assemble
  BY <1>11, <1>4 DEF assemble, Kinds
<1>12. CASE call
  BY <1>12, <1>4 DEF call, Kinds
<1>13. ASSUME NEW n \in 0 .. MaxCalls, NEW says \in BOOLEAN, Returned(n, says)
       PROVE  EndOK' /\ CancelEndsIt'
  BY <1>13, <1>4, BudgetAssumption DEF Returned, Kinds
<1>14. CASE fence
  BY <1>14, <1>4 DEF fence, Kinds
<1>15. CASE execute
  <2>1. CASE wave = <<>>
    BY <1>15, <2>1, <1>3 DEF execute
  <2>2. CASE wave # <<>>
    <3>1. /\ pc = "execute" /\ pc' = "invoke" /\ Head(wave) \in Nat
          /\ ledger' = Line("tool_called", Head(wave))
      BY <1>15, <2>2, Types, HeadTailProperties DEF execute
    <3>2. ~Wrote(c) /\ ~Wrote(d)
      BY <3>1 DEF EndOK
    <3>3. CancelEndsIt'
      BY <3>1, <3>2, CancelAfter DEF Kinds
    <3>4. ~Wrote(c)' /\ ~Wrote(d)'
      BY <3>1, <3>2, WroteAfter DEF Kinds
    <3> QED BY <3>1, <3>3, <3>4 DEF EndOK
  <2> QED BY <2>1, <2>2
<1>16. ASSUME NEW v \in {"acted", "handed", "stopped"}, Invoke(v)
       PROVE  EndOK' /\ CancelEndsIt'
  BY <1>16, <1>3 DEF Invoke
<1>17. CASE Result
  <2>1. Head(wave) \in Nat
    <3>1. wave # <<>> /\ pc \in MidTurn
      BY <1>17 DEF Result, WaveOK, MidTurn
    <3> QED BY <3>1, HeadOfWave
  <2> QED BY <1>17, <2>1, <1>4 DEF Result, Kinds
<1>18. CASE carry
  <2>1. pc = "carry" /\ ledger' = Line(d, 0) /\ ending' = "cancelled" /\ pc' = "handoff"
    BY <1>18 DEF carry
  <2>2. ~Wrote(c)
    BY <2>1 DEF EndOK
  <2>3. CancelEndsIt' /\ ~Wrote(c)'
    BY <2>1, <2>2, CancelAfter, WroteAfter DEF Kinds
  <2> QED BY <2>1, <2>3 DEF EndOK
<1>19. CASE Handoff
  <2>1. pc = "handoff" /\ pc' = "freeze" /\ ending' = ending
        /\ ledger' = Line("handoff_written", 0)
    BY <1>19 DEF Handoff
  <2>2. /\ (Wrote(c)' <=> Wrote(c)) /\ (Wrote(d)' <=> Wrote(d))
        /\ dangling_tool_calls = {} => dangling_tool_calls' = {}
        /\ CancelEndsIt'
    BY <2>1, <1>2 DEF Kinds
  <2>3. Len(ledger') > 0 /\ Last(ledger').kind = "handoff_written"
    BY <2>1, WroteAfter DEF Kinds
  <2> QED BY <2>1, <2>2, <2>3 DEF EndOK
<1>20. CASE freeze
  <2>1. pc = "freeze" /\ pc' = "frozen" /\ ending' = ending
        /\ ledger' = Line("run_frozen", 0)
    BY <1>20 DEF freeze
  <2>2. /\ (Wrote(c)' <=> Wrote(c)) /\ (Wrote(d)' <=> Wrote(d))
        /\ dangling_tool_calls = {} => dangling_tool_calls' = {}
        /\ CancelEndsIt'
    BY <2>1, <1>2 DEF Kinds
  <2>3. Len(ledger) > 0 /\ Last(ledger).kind = "handoff_written"
    BY <2>1 DEF EndOK
  <2>4. /\ Len(ledger') > 1 /\ Last(ledger').kind = "run_frozen"
        /\ ledger'[Len(ledger') - 1].kind = "handoff_written"
    BY <2>1, <2>3, WroteAfter DEF Kinds
  <2> QED BY <2>1, <2>2, <2>4 DEF EndOK
<1>21. CASE conclude
  BY <1>21, <1>1 DEF conclude, EndOK
<1>22. CASE StorageFails \/ Crash
  BY <1>22, <1>3 DEF StorageFails, Crash
<1>23. CASE startup_scan
  <2>1. PICK i \in dangling_tool_calls : ledger' = Line("tool_result", ledger[i].of)
    BY <1>23 DEF startup_scan
  <2>2. ledger[i].of \in Nat
    <3>1. i \in 1 .. Len(ledger)
      BY DEF dangling_tool_calls
    <3> QED BY <3>1, EntryTypes
  <2>3. ~Wrote(c)
    BY <2>1 DEF EndOK
  <2>4. (Wrote(c)' <=> Wrote(c)) /\ (Wrote(d)' <=> Wrote(d)) /\ CancelEndsIt'
    BY <2>1, <2>2, <2>3, <1>2 DEF Kinds
  <2> QED BY <1>23, <2>3, <2>4 DEF startup_scan, EndOK
<1> QED BY <1>5, <1>6, <1>7, <1>8, <1>9, <1>10, <1>11, <1>12, <1>13, <1>14, <1>15, <1>16,
           <1>17, <1>18, <1>19, <1>20, <1>21, <1>22, <1>23 DEF Next
-----------------------------------------------------------------------------
(* The fence. What a line does to it.                                        *)
LEMMA FencedAfter ==
  ASSUME TypeOK, FencedBeforeEffect, NEW k \in Kinds, NEW n \in Nat, ledger' = Line(k, n),
         k = "tool_called" => Fenced
  PROVE  /\ FencedBeforeEffect'
         /\ Fenced /\ k # "model_returned" => Fenced'
         /\ k = "checkpoint_committed" => Fenced'
<1> DEFINE ck == "checkpoint_committed"
           mr == "model_returned"
           tc == "tool_called"
           z == Len(ledger)
<1>1. Added(k, n) /\ Joined(k)
  BY Types, LineAdds, LinesAdd
<1>2. /\ Lines(ck) \subseteq 1 .. z /\ Lines(mr) \subseteq 1 .. z /\ Lines(tc) \subseteq 1 .. z
      /\ z \in Nat
  BY <1>1, LinesIn DEF Kinds, Added
<1>3. /\ Lines(ck)' = IF k = ck THEN Lines(ck) \cup {z + 1} ELSE Lines(ck)
      /\ Lines(mr)' = IF k = mr THEN Lines(mr) \cup {z + 1} ELSE Lines(mr)
      /\ Lines(tc)' = IF k = tc THEN Lines(tc) \cup {z + 1} ELSE Lines(tc)
  BY <1>1 DEF Joined, Kinds
<1>4. ASSUME NEW i \in Lines(tc)'
      PROVE  \E j \in Lines(ck)' : j < i /\ \A m \in Lines(mr)' : m < j \/ m > i
  <2>1. CASE i \in Lines(tc)
    <3>1. PICK j \in Lines(ck) : j < i /\ \A m \in Lines(mr) : m < j \/ m > i
      BY <2>1 DEF FencedBeforeEffect
    <3>2. j \in Lines(ck)' /\ z + 1 > i
      BY <1>2, <1>3, <2>1
    <3> QED BY <3>1, <3>2, <1>3
  <2>2. CASE i = z + 1 /\ k = tc
    <3>1. PICK j \in Lines(ck) : \A m \in Lines(mr) : m < j
      BY <2>2 DEF Fenced
    <3> QED BY <3>1, <2>2, <1>2, <1>3
  <2> QED BY <2>1, <2>2, <1>3
<1>5. ASSUME Fenced, k # mr
      PROVE  Fenced'
  BY <1>3, <1>5 DEF Fenced
<1>6. ASSUME k = ck
      PROVE  Fenced'
  <2>1. z + 1 \in Lines(ck)' /\ \A m \in Lines(mr)' : m < z + 1
    BY <1>2, <1>3, <1>6
  <2> QED BY <2>1 DEF Fenced
<1> QED BY <1>4, <1>5, <1>6 DEF FencedBeforeEffect

LEMMA FenceStep ==
  ASSUME TypeOK, WaveOK, FenceOK, FencedBeforeEffect, Next
  PROVE  FenceOK' /\ FencedBeforeEffect'
<1> USE DEF turn
<1> DEFINE Behind == {"before_wave", "execute", "invoke", "result"}
<1>1. ASSUME UNCHANGED ledger, pc' \in Behind => pc \in Behind
      PROVE  FenceOK' /\ FencedBeforeEffect'
  BY <1>1 DEF FenceOK, Fenced, FencedBeforeEffect, Lines
<1>2. ASSUME NEW k \in Kinds, NEW n \in Nat, ledger' = Line(k, n),
             k \notin {"tool_called", "model_returned"},
             pc' \in Behind => pc \in Behind \/ k = "checkpoint_committed"
      PROVE  FenceOK' /\ FencedBeforeEffect'
  BY <1>2, FencedAfter DEF FenceOK
<1>3. CASE Pin \/ Started \/ assemble \/ call \/ fence \/ Cancelled \/ carry \/ Handoff
           \/ freeze
  BY <1>3, <1>2 DEF Pin, Started, assemble, call, fence, Cancelled, carry, Handoff,
                    freeze, Kinds
<1>4. CASE Spent \/ Undisturbed \/ ProviderFails \/ record \/ conclude
           \/ StorageFails \/ Crash
  BY <1>4, <1>1 DEF Spent, Undisturbed, ProviderFails, record, conclude,
                    StorageFails, Crash, AtBoundary, Boundary
<1>5. CASE Steered
  <2>1. steers + 1 \in Nat /\ ledger' = Line("steer_received", steers + 1)
    BY <1>5, Types DEF Steered
  <2>2. pc' \in Behind => pc \in Behind
    BY <1>5 DEF Steered, AtBoundary, Boundary
  <2> QED BY <1>2, <2>1, <2>2 DEF Kinds
<1>6. ASSUME NEW n \in 0 .. MaxCalls, NEW says \in BOOLEAN, Returned(n, says)
      PROVE  FenceOK' /\ FencedBeforeEffect'
  BY <1>6, FencedAfter, BudgetAssumption DEF Returned, FenceOK, Kinds
<1>7. CASE execute
  <2>1. CASE wave = <<>>
    BY <1>7, <2>1, <1>1 DEF execute
  <2>2. CASE wave # <<>>
    <3>1. /\ pc = "execute" /\ pc' = "invoke" /\ Head(wave) \in Nat
          /\ ledger' = Line("tool_called", Head(wave))
      BY <1>7, <2>2, Types, HeadTailProperties DEF execute
    <3>2. Fenced
      BY <3>1 DEF FenceOK
    <3> QED BY <3>1, <3>2, FencedAfter DEF FenceOK, Kinds
  <2> QED BY <2>1, <2>2
<1>8. ASSUME NEW v \in {"acted", "handed", "stopped"}, Invoke(v)
      PROVE  FenceOK' /\ FencedBeforeEffect'
  BY <1>8, <1>1 DEF Invoke
<1>9. CASE Result
  <2>1. Head(wave) \in Nat
    <3>1. wave # <<>> /\ pc \in MidTurn
      BY <1>9 DEF Result, WaveOK, MidTurn
    <3> QED BY <3>1, HeadOfWave
  <2> QED BY <1>9, <2>1, <1>2 DEF Result, Kinds
<1>10. CASE startup_scan
  <2>1. PICK i \in dangling_tool_calls : ledger' = Line("tool_result", ledger[i].of)
    BY <1>10 DEF startup_scan
  <2>2. ledger[i].of \in Nat
    <3>1. i \in 1 .. Len(ledger)
      BY DEF dangling_tool_calls
    <3> QED BY <3>1, EntryTypes
  <2>3. pc' = pc
    BY <1>10 DEF startup_scan
  <2> QED BY <2>1, <2>2, <2>3, <1>2 DEF Kinds
<1> QED BY <1>3, <1>4, <1>5, <1>6, <1>7, <1>8, <1>9, <1>10 DEF Next

-----------------------------------------------------------------------------
(* The books: calls and results, before and after a line.                    *)
LEMMA BooksAfter ==
  ASSUME TypeOK, NEW k \in Kinds, NEW n \in Nat, ledger' = Line(k, n)
  PROVE  LET z == Len(ledger)
             tc == "tool_called"
             tr == "tool_result"
         IN  /\ z \in Nat /\ ledger'[z + 1].of = n
             /\ Lines(tc) \subseteq 1 .. z /\ Lines(tr) \subseteq 1 .. z
             /\ dangling_tool_calls \subseteq Lines(tc)
             /\ \A i \in dangling_tool_calls, j \in Lines(tr) : j <= i
             /\ Lines(tc)' = IF k = tc THEN Lines(tc) \cup {z + 1} ELSE Lines(tc)
             /\ Lines(tr)' = IF k = tr THEN Lines(tr) \cup {z + 1} ELSE Lines(tr)
             /\ dangling_tool_calls' =
                  IF k = tr THEN {}
                  ELSE IF k = tc THEN dangling_tool_calls \cup {z + 1}
                  ELSE dangling_tool_calls
             /\ \A i \in Lines(tc) \cup Lines(tr) : ledger'[i] = ledger[i]
<1>1. Added(k, n) /\ Joined(k)
  BY Types, LineAdds, LinesAdd
<1>2. /\ dangling_tool_calls \subseteq Lines("tool_called")
      /\ \A i \in dangling_tool_calls, j \in Lines("tool_result") : j <= i
  BY Types, DanglingIs
<1>3. Lines("tool_called") \subseteq 1 .. Len(ledger) /\ Lines("tool_result") \subseteq 1 .. Len(ledger)
  BY LinesIn DEF Kinds
<1>4. dangling_tool_calls' = IF k = "tool_result" THEN {}
                             ELSE IF k = "tool_called" THEN dangling_tool_calls \cup {Len(ledger) + 1}
                             ELSE dangling_tool_calls
  BY <1>1, DanglingAfter
<1> QED BY <1>1, <1>2, <1>3, <1>4 DEF Added, Joined, Kinds

(* A call that is not on the books yet, made when nothing dangles.           *)
LEMMA CallIsBooked ==
  ASSUME TypeOK, Booked, NEW n \in Nat, ledger' = Line("tool_called", n),
         dangling_tool_calls = {}, \A i \in Lines("tool_called") : ledger[i].of # n
  PROVE  Booked' /\ dangling_tool_calls' = {Len(ledger) + 1} /\ ledger'[Len(ledger) + 1].of = n
<1> DEFINE z == Len(ledger)
           T == Lines("tool_called")
           R == Lines("tool_result")
           D == dangling_tool_calls
<1>1. /\ z \in Nat /\ ledger'[z + 1].of = n
      /\ T \subseteq 1 .. z /\ R \subseteq 1 .. z
      /\ T' = T \cup {z + 1} /\ R' = R /\ D' = {z + 1}
      /\ \A i \in T \cup R : ledger'[i] = ledger[i]
  BY BooksAfter DEF Kinds
<1>2. /\ \A i, j \in T : ledger[i].of = ledger[j].of => i = j
      /\ \A i, j \in R : ledger[i].of = ledger[j].of => i = j
      /\ \A j \in R : \E i \in T : i < j /\ ledger[i].of = ledger[j].of
      /\ \A i \in T \ D : \E j \in R : ledger[j].of = ledger[i].of
      /\ D = {} /\ \A i \in T : ledger[i].of # n
  BY DEF Booked
<1> HIDE DEF z, T, R, D
<1>3. \A i, j \in T' : ledger'[i].of = ledger'[j].of => i = j
  BY <1>1, <1>2
<1>4. \A i, j \in R' : ledger'[i].of = ledger'[j].of => i = j
  BY <1>1, <1>2
<1>5. \A j \in R' : \E i \in T' : i < j /\ ledger'[i].of = ledger'[j].of
  BY <1>1, <1>2
<1>6. \A i \in T' \ D' : \E j \in R' : ledger'[j].of = ledger'[i].of
  BY <1>1, <1>2
<1>7. \A i, j \in D' : i = j
  BY <1>1
<1> QED BY <1>1, <1>3, <1>4, <1>5, <1>6, <1>7 DEF Booked, z, T, R, D

(* The result of the call that dangles.                                      *)
LEMMA ResultIsBooked ==
  ASSUME TypeOK, Booked, NEW x \in dangling_tool_calls,
         ledger' = Line("tool_result", ledger[x].of)
  PROVE  Booked' /\ dangling_tool_calls' = {}
<1> DEFINE z == Len(ledger)
           n == ledger[x].of
           T == Lines("tool_called")
           R == Lines("tool_result")
           D == dangling_tool_calls
<1>0. n \in Nat
  <2>1. x \in 1 .. Len(ledger)
    BY DEF dangling_tool_calls
  <2> QED BY <2>1, EntryTypes
<1>1. /\ z \in Nat /\ ledger'[z + 1].of = n
      /\ T \subseteq 1 .. z /\ R \subseteq 1 .. z /\ D \subseteq T
      /\ \A i \in D, j \in R : j <= i
      /\ T' = T /\ R' = R \cup {z + 1} /\ D' = {}
      /\ \A i \in T \cup R : ledger'[i] = ledger[i]
  BY <1>0, BooksAfter DEF Kinds
<1>2. /\ \A i, j \in T : ledger[i].of = ledger[j].of => i = j
      /\ \A i, j \in R : ledger[i].of = ledger[j].of => i = j
      /\ \A j \in R : \E i \in T : i < j /\ ledger[i].of = ledger[j].of
      /\ \A i \in T \ D : \E j \in R : ledger[j].of = ledger[i].of
      /\ \A i, j \in D : i = j
      /\ x \in D /\ ledger[x].of = n
  BY DEF Booked
<1> HIDE DEF z, T, R, D, n
<1>3. \A j \in R : ledger[j].of # n
  <2>1. SUFFICES ASSUME NEW j \in R, ledger[j].of = n
                 PROVE  FALSE
    OBVIOUS
  <2>2. PICK i \in T : i < j /\ ledger[i].of = n
    BY <1>2, <2>1
  <2>3. i = x
    BY <1>1, <1>2, <2>2
  <2>4. i \in Nat /\ j \in Nat /\ j <= i
    BY <1>1, <1>2, <2>3
  <2> QED BY <2>2, <2>4
<1>4. \A i, j \in T' : ledger'[i].of = ledger'[j].of => i = j
  BY <1>1, <1>2
<1>5. \A i, j \in R' : ledger'[i].of = ledger'[j].of => i = j
  BY <1>1, <1>2, <1>3
<1>6. \A j \in R' : \E i \in T' : i < j /\ ledger'[i].of = ledger'[j].of
  <2> TAKE j \in R'
  <2>1. CASE j \in R
    <3>1. PICK i \in T : i < j /\ ledger[i].of = ledger[j].of
      BY <1>2, <2>1
    <3>2. i \in T' /\ ledger'[i] = ledger[i] /\ ledger'[j] = ledger[j]
      BY <1>1, <2>1
    <3> QED BY <3>1, <3>2
  <2>2. CASE j = z + 1
    <3>1. x \in T' /\ x < z + 1 /\ ledger'[x].of = n
      BY <1>1, <1>2
    <3> QED BY <1>1, <2>2, <3>1
  <2> QED BY <1>1, <2>1, <2>2
<1>7. \A i \in T' \ D' : \E j \in R' : ledger'[j].of = ledger'[i].of
  <2> TAKE i \in T' \ D'
  <2>1. CASE i \in D
    BY <1>1, <1>2, <2>1
  <2>2. CASE i \notin D
    BY <1>1, <1>2, <2>2
  <2> QED BY <2>1, <2>2
<1> QED BY <1>1, <1>4, <1>5, <1>6, <1>7 DEF Booked, T, R, D

(* The other lines leave the books alone.                                    *)
LEMMA OthersAreNotBooked ==
  ASSUME TypeOK, NEW k \in Kinds \ {"tool_called", "tool_result"}, NEW n \in Nat,
         ledger' = Line(k, n)
  PROVE  /\ Booked => Booked'
         /\ Lines("tool_called")' = Lines("tool_called")
         /\ dangling_tool_calls' = dangling_tool_calls
         /\ \A i \in Lines("tool_called") : ledger'[i] = ledger[i]
<1>1. /\ Lines("tool_called")' = Lines("tool_called")
      /\ Lines("tool_result")' = Lines("tool_result")
      /\ dangling_tool_calls' = dangling_tool_calls
      /\ \A i \in Lines("tool_called") \cup Lines("tool_result") : ledger'[i] = ledger[i]
  BY BooksAfter
<1>2. Booked => Booked'
  BY <1>1 DEF Booked
<1> QED BY <1>1, <1>2
LEMMA AccountsStep ==
  ASSUME TypeOK, WaveOK, AccountsOK, Next
  PROVE  AccountsOK'
<1> USE DEF turn, MidTurn
<1> DEFINE T == Lines("tool_called")
           D == dangling_tool_calls
           Open == {"invoke", "result"}
           Left == {"dead", "fatal"}
           Kept == /\ Booked' /\ T' = T /\ D' = D
                   /\ \A i \in T : ledger'[i] = ledger[i]
<1>1. minted \in Nat /\ wave \in Seq(Nat) /\ Len(wave) \in Nat
  BY Types
<1>2. \A i \in T : ledger[i].of \in Nat
  BY EntryTypes, LinesIn DEF Kinds
<1>3. Called \in Int /\ Called <= minted
  <2>1. pc \in Open => Len(wave) >= 1
    BY <1>1, EmptySeq DEF WaveOK
  <2> QED BY <1>1, <2>1 DEF Called
<1>4. ASSUME UNCHANGED ledger
      PROVE  Kept
  BY <1>4 DEF AccountsOK, Booked, Lines, dangling_tool_calls
<1>5. ASSUME NEW k \in Kinds \ {"tool_called", "tool_result"}, NEW n \in Nat,
             ledger' = Line(k, n)
      PROVE  Kept
  BY <1>5, OthersAreNotBooked DEF AccountsOK
<1> HIDE DEF T, D, Kept
<1>6. ASSUME Kept, effects' = effects, Called' \in Int, Called <= Called',
             pc \in Open => pc' \in Left, pc \in Left => pc' = pc, pc' \notin Open
      PROVE  AccountsOK'
  <2>1. \A e \in effects' : \E i \in T' : ledger'[i].of = e
    BY <1>6 DEF AccountsOK, Kept, T
  <2>2. \A i \in T' : ledger'[i].of <= Called'
    <3> TAKE i \in T'
    <3>1. ledger[i].of <= Called /\ ledger'[i] = ledger[i] /\ ledger[i].of \in Nat
      BY <1>2, <1>6 DEF AccountsOK, Kept, T
    <3> QED BY <1>3, <1>6, <3>1
  <2>3. pc' \notin {"invoke", "result", "dead", "fatal"} => D' = {}
    BY <1>6 DEF AccountsOK, Kept, D
  <2> QED BY <1>6, <2>1, <2>2, <2>3 DEF AccountsOK, Kept, T, D
<1>7. CASE Pin \/ Started \/ assemble \/ call \/ carry \/ Handoff \/ freeze
  <2>1. Kept
    BY <1>7, <1>5 DEF Pin, Started, assemble, call, carry, Handoff, freeze, Kinds
  <2>2. Called' = minted
    BY <1>7 DEF Pin, Started, assemble, call, carry, Handoff, freeze, Called
  <2> QED BY <1>1, <1>3, <1>6, <1>7, <2>1, <2>2
          DEF Pin, Started, assemble, call, carry, Handoff, freeze
<1>8. CASE Spent \/ ProviderFails \/ record \/ conclude
  <2>1. Kept
    BY <1>8, <1>4 DEF Spent, ProviderFails, record, conclude
  <2>2. Called' = minted
    BY <1>8 DEF Spent, ProviderFails, record, conclude, Called
  <2> QED BY <1>1, <1>3, <1>6, <1>8, <2>1, <2>2 DEF Spent, ProviderFails, record, conclude
<1>9. CASE Undisturbed \/ Steered
  <2>1. steers + 1 \in Nat
    BY Types
  <2>2. Kept
    BY <1>9, <2>1, <1>4, <1>5 DEF Undisturbed, Steered, Kinds
  <2>3. Called' = Called /\ effects' = effects /\ pc \notin Open \cup Left /\ pc' \notin Open
    BY <1>9 DEF Undisturbed, Steered, AtBoundary, Boundary, Called
  <2> QED BY <1>3, <1>6, <2>2, <2>3
<1>10. CASE Cancelled
  <2>1. Kept
    BY <1>10, <1>5 DEF Cancelled, Kinds
  <2>2. Called' = minted /\ effects' = effects /\ pc \notin Open \cup Left /\ pc' \notin Open
    BY <1>10 DEF Cancelled, AtBoundary, Boundary, Called
  <2> QED BY <1>1, <1>3, <1>6, <2>1, <2>2
<1>11. ASSUME NEW n \in 0 .. MaxCalls, NEW says \in BOOLEAN, Returned(n, says)
       PROVE  AccountsOK'
  <2>1. Kept
    BY <1>11, <1>5, BudgetAssumption DEF Returned, Kinds
  <2>2. Len(wave') = n /\ minted' = minted + n /\ pc' = "fence" /\ n \in Nat
    BY <1>11, BudgetAssumption DEF Returned
  <2>3. Called' = minted
    BY <1>1, <2>2 DEF Called
  <2> QED BY <1>1, <1>3, <1>6, <1>11, <2>1, <2>3 DEF Returned
<1>12. CASE fence
  <2>1. Kept
    BY <1>12, <1>5 DEF fence, Kinds
  <2>2. Called' = Called
    BY <1>12 DEF fence, Called
  <2> QED BY <1>3, <1>6, <1>12, <2>1, <2>2 DEF fence
<1>13. CASE execute
  <2>1. CASE wave = <<>>
    <3>1. Kept
      BY <1>13, <2>1, <1>4 DEF execute
    <3>2. Called' = minted
      BY <1>13, <2>1 DEF execute, Called
    <3> QED BY <1>1, <1>3, <1>6, <1>13, <2>1, <3>1, <3>2 DEF execute
  <2>2. CASE wave # <<>>
    <3> DEFINE h == Head(wave)
    <3>1. /\ pc = "execute" /\ pc' = "invoke" /\ ledger' = Line("tool_called", h)
          /\ UNCHANGED <<effects, minted, wave>>
      BY <1>13, <2>2 DEF execute
    <3>2. h = minted - Len(wave) + 1 /\ h \in Nat
      BY <3>1, <2>2, HeadOfWave
    <3>3. \A i \in T : ledger[i].of <= minted - Len(wave)
      BY <3>1 DEF AccountsOK, Called, T
    <3>4. \A i \in T : ledger[i].of # h
      BY <1>1, <1>2, <3>2, <3>3
    <3>5. D = {} /\ Booked
      BY <3>1 DEF AccountsOK, D
    <3> HIDE DEF h
    <3>6. Booked' /\ D' = {Len(ledger) + 1} /\ ledger'[Len(ledger) + 1].of = h
      BY <3>1, <3>2, <3>4, <3>5, CallIsBooked DEF T, D
    <3>7. /\ T' = T \cup {Len(ledger) + 1}
          /\ \A i \in T : ledger'[i] = ledger[i]
      BY <3>1, <3>2, BooksAfter DEF Kinds, T
    <3>8. Called' = h
      BY <3>1, <3>2 DEF Called
    <3>9. \A i \in T' : ledger'[i].of <= Called'
      <4> TAKE i \in T'
      <4>1. CASE i \in T
        BY <1>1, <1>2, <3>2, <3>3, <3>7, <3>8, <4>1
      <4>2. CASE i = Len(ledger) + 1
        BY <3>2, <3>6, <3>8, <4>2
      <4> QED BY <3>7, <4>1, <4>2
    <3>10. \A e \in effects' : \E i \in T' : ledger'[i].of = e
      BY <3>1, <3>7 DEF AccountsOK, T
    <3>11. \E i \in D' : ledger'[i].of = Head(wave')
      BY <3>1, <3>6 DEF h
    <3> QED BY <3>1, <3>6, <3>9, <3>10, <3>11 DEF AccountsOK, T, D
  <2> QED BY <2>1, <2>2
<1>14. ASSUME NEW v \in {"acted", "handed", "stopped"}, Invoke(v)
       PROVE  AccountsOK'
  <2>1. /\ pc = "invoke" /\ pc' = "result" /\ UNCHANGED <<ledger, wave, minted>>
        /\ effects' \subseteq effects \cup {Head(wave)}
    BY <1>14 DEF Invoke
  <2>2. Kept
    BY <2>1, <1>4
  <2>3. Called' = Called
    BY <2>1 DEF Called
  <2>4. PICK x \in D : ledger[x].of = Head(wave)
    BY <2>1 DEF AccountsOK, D
  <2>5. x \in T
    BY <2>4, Types, DanglingIs DEF D, T
  <2>6. \A e \in effects' : \E i \in T' : ledger'[i].of = e
    BY <2>1, <2>2, <2>4, <2>5 DEF AccountsOK, Kept, T
  <2>7. \A i \in T' : ledger'[i].of <= Called'
    BY <2>2, <2>3 DEF AccountsOK, Kept, T
  <2>8. \E i \in D' : ledger'[i].of = Head(wave')
    BY <2>1, <2>2, <2>4 DEF Kept
  <2> QED BY <2>1, <2>2, <2>6, <2>7, <2>8 DEF AccountsOK, Kept, T, D
<1>15. ASSUME NEW x \in D, ledger' = Line("tool_result", ledger[x].of),
              effects' = effects, pc' \notin Open, Called' \in Int, Called <= Called'
       PROVE  AccountsOK'
  <2>1. Booked' /\ D' = {}
    BY <1>15, ResultIsBooked DEF AccountsOK, D
  <2>2. T' = T /\ \A i \in T : ledger'[i] = ledger[i]
    <3>1. x \in T
      BY Types, DanglingIs DEF D, T
    <3> QED BY <1>2, <1>15, <3>1, BooksAfter DEF Kinds, T
  <2>3. \A e \in effects' : \E i \in T' : ledger'[i].of = e
    BY <1>15, <2>2 DEF AccountsOK, T
  <2>4. \A i \in T' : ledger'[i].of <= Called'
    <3> TAKE i \in T'
    <3>1. ledger[i].of <= Called /\ ledger'[i] = ledger[i] /\ ledger[i].of \in Nat
      BY <1>2, <2>2 DEF AccountsOK, T
    <3> QED BY <1>3, <1>15, <3>1
  <2> QED BY <1>15, <2>1, <2>3, <2>4 DEF AccountsOK, T, D
<1>16. CASE Result
  <2>1. /\ pc = "result" /\ pc' = "execute" /\ wave' = Tail(wave)
        /\ UNCHANGED <<effects, minted>> /\ ledger' = Line("tool_result", Head(wave))
    BY <1>16 DEF Result
  <2>2. PICK x \in D : ledger[x].of = Head(wave)
    BY <2>1 DEF AccountsOK, D
  <2>3. wave # <<>>
    BY <2>1 DEF WaveOK
  <2>4. Len(wave') = Len(wave) - 1
    BY <2>1, <2>3, HeadOfWave
  <2>5. Called' = Called
    BY <1>1, <2>1, <2>4 DEF Called
  <2> QED BY <1>3, <1>15, <2>1, <2>2, <2>5
<1>17. CASE StorageFails \/ Crash
  <2>1. Kept
    BY <1>17, <1>4 DEF StorageFails, Crash
  <2>2. Called' = minted /\ effects' = effects /\ pc' \in Left /\ (pc \in Left => pc' = pc)
    BY <1>17 DEF StorageFails, Crash, Called, Appending, AtBoundary, Boundary
  <2> QED BY <1>1, <1>3, <1>6, <2>1, <2>2
<1>18. CASE startup_scan
  <2>1. /\ pc \in Left /\ pc' = pc /\ effects' = effects /\ minted' = minted
        /\ \E x \in D : ledger' = Line("tool_result", ledger[x].of)
    BY <1>18 DEF startup_scan, D
  <2>2. Called' = Called
    BY <2>1 DEF Called
  <2> QED BY <1>3, <1>15, <2>1, <2>2
<1> QED BY <1>7, <1>8, <1>9, <1>10, <1>11, <1>12, <1>13, <1>14, <1>16, <1>17, <1>18 DEF Next
-----------------------------------------------------------------------------
(* The invariant holds from dispatch on.                                     *)
LEMMA IndInvInit == Init => IndInv
<1> SUFFICES ASSUME Init PROVE IndInv
  OBVIOUS
<1>1. TypeOK
  BY BudgetAssumption DEF Init, TypeOK, Places
<1>2. CountsOK /\ WaveOK /\ FenceOK
  BY DEF Init, CountsOK, WaveOK, FenceOK, MidTurn, InTurn, InRun
<1>3. /\ \A k \in Kinds : Lines(k) = {}
      /\ dangling_tool_calls = {}
  BY DEF Init, Lines, dangling_tool_calls
<1>4. WindowOK
  BY <1>3 DEF Init, WindowOK, Shape, MidTurn, InTurn, InRun, Kinds
<1>5. EndOK /\ CancelEndsIt
  BY <1>3 DEF Init, EndOK, CancelEndsIt, Wrote, Kinds
<1>6. AccountsOK /\ FencedBeforeEffect
  BY <1>3 DEF Init, AccountsOK, Booked, FencedBeforeEffect, Kinds
<1> QED BY <1>1, <1>2, <1>4, <1>5, <1>6 DEF IndInv

(* Every step of the run, every fault and the scan after it keep it.         *)
LEMMA IndInvStep == IndInv /\ [Next]_vars => IndInv'
<1> SUFFICES ASSUME IndInv, [Next]_vars PROVE IndInv'
  OBVIOUS
<1>1. CASE Next
  BY <1>1, TypesStep, WaveStep, WindowStep, EndStep, FenceStep, AccountsStep DEF IndInv
<1>2. CASE UNCHANGED vars
  <2> USE <1>2 DEF vars
  <2>1. UNCHANGED ledger
    OBVIOUS
  <2>2. \A k : Lines(k)' = Lines(k)
    BY <2>1 DEF Lines
  <2>3. dangling_tool_calls' = dangling_tool_calls
    BY <2>1 DEF dangling_tool_calls
  <2>4. TypeOK' /\ CountsOK' /\ WaveOK'
    BY DEF IndInv, TypeOK, CountsOK, WaveOK, Answered
  <2>5. WindowOK'
    BY <2>2 DEF IndInv, WindowOK, Told, Read
  <2>6. EndOK' /\ CancelEndsIt'
    BY <2>2, <2>3 DEF IndInv, EndOK, CancelEndsIt, Wrote
  <2>7. FenceOK' /\ FencedBeforeEffect'
    BY <2>2 DEF IndInv, FenceOK, Fenced, FencedBeforeEffect
  <2>8. AccountsOK'
    BY <2>2, <2>3 DEF IndInv, AccountsOK, Booked, Called
  <2> QED BY <2>4, <2>5, <2>6, <2>7, <2>8 DEF IndInv
<1> QED BY <1>1, <1>2

LEMMA IndInvHolds == Spec => []IndInv
<1> QED BY IndInvInit, IndInvStep, PTL DEF Spec

-----------------------------------------------------------------------------
(* What is sent to the provider always has the shape it takes - roles        *)
(* alternate, and every tool call is answered in the very next message - and *)
(* holds exactly the steers the ledger has before the request's line.        *)
THEOREM RequestIsAlwaysFaithful == Spec => []RequestIsFaithful
<1>1. IndInv => RequestIsFaithful
  <2> SUFFICES ASSUME IndInv PROVE RequestIsFaithful
    OBVIOUS
  <2>1. TypeOK
    BY DEF IndInv
  <2>2. RequestIsWellFormed
    <3>1. Shape(chat)
      BY DEF IndInv, WindowOK
    <3> QED BY <3>1 DEF Shape, RequestIsWellFormed, Of, Named
  <2>3. ReadsWhatTheLedgerSays
    BY DEF IndInv, WindowOK, Read, ReadsWhatTheLedgerSays
  <2> QED BY <2>1, <2>2, <2>3 DEF RequestIsFaithful
<1> QED BY <1>1, IndInvHolds, PTL

(* After a cancel's line there are only the handoff and the freeze, and a    *)
(* run that was cancelled, or that lost its provider, hands nothing down.    *)
THEOREM CancelIsAlwaysFinal == Spec => []CancelIsFinal
<1> DEFINE Conceded == ending = "cancelled" => handed = {}
<1>1. Init => Conceded
  BY DEF Init
<1>2. IndInv /\ Conceded /\ [Next]_vars => Conceded'
  <2> SUFFICES ASSUME IndInv, Conceded, [Next]_vars PROVE Conceded'
    OBVIOUS
  <2>1. CASE conclude
    BY <2>1 DEF conclude
  <2>2. CASE record \/ carry \/ Cancelled
    <3>1. handed = {}
      BY <2>2 DEF IndInv, CountsOK, record, carry, Cancelled, AtBoundary, Boundary
    <3> QED BY <2>2, <3>1 DEF record, carry, Cancelled
  <2>3. CASE UNCHANGED <<ending, handed>>
    BY <2>3
  <2> QED BY <2>1, <2>2, <2>3
          DEF Next, vars, Pin, Started, Spent, Undisturbed, Steered, assemble, call,
              Returned, ProviderFails, fence, execute, Invoke, Result, Handoff, freeze,
              StorageFails, Crash, startup_scan
<1>3. IndInv /\ Conceded => CancelIsFinal
  BY DEF IndInv, EndOK, CancelIsFinal, CancelledHandsNothingDown
<1> HIDE DEF Conceded
<1> QED BY <1>1, <1>2, <1>3, IndInvHolds, PTL DEF Spec

(* A drive that is over left a handoff and, last, the freeze.                *)
THEOREM StartedIsAlwaysFrozen == Spec => []StartedIsFrozen
<1>1. IndInv => StartedIsFrozen
  BY DEF IndInv, EndOK, StartedIsFrozen
<1> QED BY <1>1, IndInvHolds, PTL

(* Every call follows a fence of its own turn, every effect has its call on  *)
(* the ledger, and once the drive is over, or the scan has nothing left to   *)
(* close, every call has exactly one result.                                 *)
THEOREM EffectsAreAlwaysKnown == Spec => []EffectsAreKnown
<1>1. IndInv => EffectsAreKnown
  <2> SUFFICES ASSUME IndInv PROVE EffectsAreKnown
    OBVIOUS
  <2>1. FencedBeforeEffect
    BY DEF IndInv
  <2>2. \A e \in effects : \E i \in Lines("tool_called") : ledger[i].of = e
    BY DEF IndInv, AccountsOK
  <2>3. ASSUME pc = "concluded" \/ (pc \in {"dead", "fatal"} /\ dangling_tool_calls = {}),
               NEW i \in Lines("tool_called")
        PROVE  Cardinality({j \in Lines("tool_result") : ledger[j].of = ledger[i].of}) = 1
    <3> DEFINE A == {j \in Lines("tool_result") : ledger[j].of = ledger[i].of}
    <3>1. dangling_tool_calls = {} /\ Booked
      BY <2>3 DEF IndInv, AccountsOK
    <3>2. PICK j \in Lines("tool_result") : ledger[j].of = ledger[i].of
      BY <3>1 DEF Booked
    <3>3. A = {j}
      BY <3>1, <3>2 DEF Booked
    <3>4. Cardinality({j}) = 1
      BY FS_Singleton
    <3> QED BY <3>3, <3>4
  <2> QED BY <2>1, <2>2, <2>3 DEF EffectsAreKnown, EffectsAreAccounted
<1> QED BY <1>1, IndInvHolds, PTL
=============================================================================
