----------------------------- MODULE McpSession -----------------------------
(***************************************************************************)
(* One external tool server over one run: the lifecycle of protocol::mcp,  *)
(* the child process and its pipes in mcp_stdio, the POSTs of mcp_http,    *)
(* and the run that holds the handles (assembly::mcp).                     *)
(*                                                                         *)
(* A run asks one question at a time. Over stdio the reader thread puts    *)
(* whatever line the server writes into a channel, and a call takes the    *)
(* next line out; over HTTP an answer comes back on the request's own      *)
(* exchange. Every question has a serial number the code does not have:    *)
(* the properties ask whose answer a call returned.                        *)
(***************************************************************************)
EXTENDS Naturals, Sequences

CONSTANTS
    Transports,  \* a subset of {"stdio", "http"}
    Programs,    \* a subset of {"plain", "wrapped", "chatty"}
    MaxAsks,     \* questions a run asks
    MaxLines     \* lines a server writes

ASSUME McpAssumption ==
    /\ Transports \subseteq {"stdio", "http"}
    /\ Programs \subseteq {"plain", "wrapped", "chatty"}
    /\ MaxAsks \in Nat /\ MaxLines \in Nat

VARIABLES
    transport, program,
    child,     \* the process the city started: "up" or "down"
    kin,       \* a process it started in turn, holding the same pipes
    writing,   \* the line going down the pipe: "none", "fits" or "blocked"
    pipe,      \* lines written and not yet read by the server
    answers,   \* lines the reader thread has put in the channel
    session,   \* the HTTP session id, 0 when there is none
    life,      \* how far the run has come with this server
    asked,     \* the serial of the call being waited for, 0 when none
    serial, written,
    heard,     \* history: the methods the server has read
    got        \* history: what each finished call returned

mcpVars == <<transport, program, child, kin, writing, pipe, answers, session, life, asked,
             serial, written, heard, got>>

Reads == child = "up" \/ kin = "up"      \* somebody holds the far end

McpInit ==
    /\ transport \in Transports /\ program \in Programs
    /\ transport = "http" => program = "plain"
    /\ child = "up" /\ kin = IF program = "wrapped" THEN "up" ELSE "none"
    /\ writing = "none" /\ pipe = <<>> /\ answers = <<>> /\ session = 0
    /\ life = "initialize" /\ asked = 0 /\ serial = 0 /\ written = 0
    /\ heard = <<>> /\ got = <<>>

-----------------------------------------------------------------------------
(* The run's side *)

\* What comes after each step of the lifecycle, answered or refused. A
\* server that fails to open is dropped; one that fails a call is not.
AfterAnswer == CASE life = "initialize" -> "initialized"
                 [] life = "tools/list" -> "tools/call"
                 [] OTHER -> life
AfterRefusal == IF life = "tools/call" THEN life ELSE "dropped"

Finish(result) ==
    /\ asked' = 0
    /\ got' = Append(got, [asked |-> asked, answer |-> result, life |-> life])
    /\ life' = IF result = 0 THEN AfterRefusal ELSE AfterAnswer

Asking ==
    /\ life \in {"initialize", "tools/list", "tools/call"}
    /\ writing = "none" /\ asked = 0 /\ serial < MaxAsks

\* writeln!: a blocking write of one line. It fits in the pipe's buffer, or
\* the worker stands in the write until the server has read on.
Write == writing' \in {"fits", "blocked"}

\* Connection::exchange begins: the question this step of the lifecycle asks.
call ==
    /\ transport = "stdio" /\ Asking /\ Write
    /\ serial' = serial + 1
    /\ UNCHANGED <<transport, program, child, kin, pipe, answers, session, life, asked, written,
                   heard, got>>

\* Connection::tell begins: the notification between initialize and
\* everything else.
notify ==
    /\ transport = "stdio" /\ life = "initialized" /\ writing = "none" /\ asked = 0 /\ Write
    /\ UNCHANGED <<transport, program, child, kin, pipe, answers, session, life, asked, serial,
                   written, heard, got>>

\* The line is down the pipe and flushed. Only now does a call's deadline
\* begin; a notification is not waited for.
flush ==
    /\ writing = "fits" /\ Reads /\ writing' = "none"
    /\ IF life = "initialized"
       THEN /\ pipe' = Append(pipe, [method |-> "initialized", serial |-> 0])
            /\ life' = "tools/list" /\ UNCHANGED asked
       ELSE /\ pipe' = Append(pipe, [method |-> life, serial |-> serial])
            /\ asked' = serial /\ UNCHANGED life
    /\ UNCHANGED <<transport, program, child, kin, answers, session, serial, written, heard, got>>

\* A pipe nobody reads refuses the line, also one that was blocked in it.
broken ==
    /\ writing # "none" /\ ~Reads /\ writing' = "none"
    /\ life' = AfterRefusal
    /\ got' = IF life = "initialized" THEN got
              ELSE Append(got, [asked |-> serial, answer |-> 0, life |-> life])
    /\ UNCHANGED <<transport, program, child, kin, pipe, answers, session, asked, serial, written,
                   heard>>

\* recv_timeout gives the next line, whichever it is; Rpc::read takes it for
\* the answer if it has a result, and looks at no id. An error (0) refuses the
\* call, and a notice (0 too) for having neither; the child is left running.
receive ==
    /\ asked # 0 /\ answers # <<>>
    /\ Finish(Head(answers))
    /\ answers' = Tail(answers)
    /\ UNCHANGED <<transport, program, child, kin, writing, pipe, session, serial, written, heard>>

\* Bug: the call is given up on and the server left running.
reclaim_Lenient == UNCHANGED child

\* Connection::reclaim: the child is killed and waited for. What the child
\* had started is not.
reclaim == child' = "down"

\* Bug: no deadline is set.
timeout_Never == FALSE /\ UNCHANGED mcpVars

\* The deadline passes with nothing in the channel.
timeout ==
    /\ asked # 0 /\ answers = <<>> /\ transport = "stdio" /\ Reads
    /\ reclaim
    /\ Finish(0)
    /\ UNCHANGED <<transport, program, kin, writing, pipe, answers, session, serial, written, heard>>

\* The channel is empty and its sender ended with the server's output.
disconnected ==
    /\ asked # 0 /\ answers = <<>> /\ ~Reads
    /\ Finish(0)
    /\ UNCHANGED <<transport, program, child, kin, writing, pipe, answers, session, serial,
                   written, heard>>

\* The run ends, or the server failed to open: the last handle is dropped.
drop ==
    /\ writing = "none" /\ asked = 0 /\ life \in {"tools/call", "dropped"}
    /\ reclaim
    /\ life' = "closed"
    /\ UNCHANGED <<transport, program, kin, writing, pipe, answers, session, asked, serial,
                   written, heard, got>>

-----------------------------------------------------------------------------
(* HTTP: one POST is one exchange *)

\* A session the server says is gone is dropped.
forget(id) == 0

\* What a server may do with a POST: answer it and hand out a session id
\* with the first, say the session has ended, refuse it, or never be heard.
post(outcome) ==
    /\ transport = "http" /\ Asking
    /\ serial' = serial + 1
    /\ session' = CASE outcome = "answered" /\ life = "initialize" -> serial + 1
                    [] outcome = "ended" -> forget(session)
                    [] OTHER -> session
    /\ outcome = "ended" => session # 0
    /\ heard' = IF outcome = "lost" THEN heard ELSE Append(heard, life)
    /\ got' = Append(got, [asked |-> serial + 1, life |-> life,
                           answer |-> IF outcome = "answered" THEN serial + 1 ELSE 0])
    /\ life' = IF outcome = "answered" THEN AfterAnswer ELSE AfterRefusal
    /\ UNCHANGED <<transport, program, child, kin, writing, pipe, answers, asked, written>>

\* A notification is a POST too, answered with a status and nothing else.
post_notify(outcome) ==
    /\ transport = "http" /\ life = "initialized"
    /\ life' = IF outcome = "answered" THEN "tools/list" ELSE "dropped"
    /\ outcome = "ended" => session # 0
    /\ session' = IF outcome = "ended" THEN forget(session) ELSE session
    /\ heard' = IF outcome = "lost" THEN heard ELSE Append(heard, "initialized")
    /\ UNCHANGED <<transport, program, child, kin, writing, pipe, answers, asked, serial,
                   written, got>>

Outcomes == {"answered", "ended", "refused", "lost"}

-----------------------------------------------------------------------------
(* The server's side: external *)

\* It reads a line, and may answer a request, with a result or an error, at
\* once or never.
serve(reply) ==
    /\ Reads /\ pipe # <<>> /\ written < MaxLines
    /\ heard' = Append(heard, Head(pipe).method)
    /\ pipe' = Tail(pipe)
    /\ IF reply = "silence" \/ Head(pipe).serial = 0 THEN UNCHANGED <<answers, written>>
       ELSE /\ answers' = Append(answers, IF reply = "error" THEN 0 ELSE Head(pipe).serial)
            /\ written' = written + 1
    /\ UNCHANGED <<transport, program, child, kin, writing, session, life, asked, serial, got>>

Replies == {"result", "error", "silence"}

\* It has read enough for the rest of a blocked line to fit.
read_on ==
    /\ Reads /\ writing = "blocked" /\ writing' = "fits"
    /\ UNCHANGED <<transport, program, child, kin, pipe, answers, session, life, asked, serial,
                   written, heard, got>>

\* It tells its client something nobody asked about.
notice ==
    /\ program = "chatty" /\ Reads /\ written < MaxLines
    /\ answers' = Append(answers, 0) /\ written' = written + 1
    /\ UNCHANGED <<transport, program, child, kin, writing, pipe, session, life, asked, serial,
                   heard, got>>

\* It ends by itself.
exit ==
    /\ transport = "stdio" /\ child = "up" /\ child' = "down"
    /\ kin' = IF kin = "up" THEN "none" ELSE kin
    /\ UNCHANGED <<transport, program, writing, pipe, answers, session, life, asked, serial,
                   written, heard, got>>

McpNext ==
    \/ call \/ notify \/ flush \/ broken \/ receive \/ timeout \/ disconnected \/ drop
    \/ \E o \in Outcomes : post(o) \/ post_notify(o)
    \/ \E r \in Replies : serve(r)
    \/ read_on \/ notice \/ exit

\* The city's own part of an exchange: a write that fits or that nobody reads
\* ends, and a line, the deadline or the end of the output ends the wait.
\* Nothing is assumed of the server.
exchange == flush \/ broken \/ receive \/ timeout \/ disconnected

-----------------------------------------------------------------------------
(* Properties *)

\* Every variable has its type.
McpTypeOK ==
    /\ child \in {"up", "down"} /\ kin \in {"up", "none"} /\ writing \in {"none", "fits", "blocked"}
    /\ serial \in 0..MaxAsks /\ asked \in 0..serial /\ written \in 0..MaxLines
    /\ life \in {"initialize", "initialized", "tools/list", "tools/call", "dropped", "closed"}
    /\ session \in 0..serial
    /\ \A i \in 1..Len(answers) : answers[i] \in 0..serial

\* What a call returned is the answer to the question that call asked: a
\* late answer is never read as the next one.
AnswersItsOwn ==
    \A i \in 1..Len(got) : got[i].answer \in {0, got[i].asked}

\* The same, of a server that writes nothing unasked and starts no process
\* of its own: the kill at the deadline is what makes it so.
PlainAnswersItsOwn == program = "plain" => AnswersItsOwn

\* The server hears initialize, then initialized, before anything else,
\* whichever lines were lost or refused on the way (protocol::handshake).
LifecycleInOrder ==
    /\ Len(heard) >= 1 => heard[1] = "initialize"
    /\ \A i \in 1..Len(heard) : heard[i] \in {"tools/list", "tools/call"} =>
            \E j \in 1..i - 1 : heard[j] = "initialized"

\* A tool server is spoken to in order and understood: each answer is read
\* as that of its own question.
SessionIsInOrder == McpTypeOK /\ LifecycleInOrder /\ PlainAnswersItsOwn

\* The server leaves no line of the city's half written for ever.
ReadsOn == []<>(writing # "blocked")

\* Every call over stdio comes back: once its line is down the pipe with an
\* answer, at its deadline, or when the server's output ends, whatever the
\* server does; and the line gets there as long as the server reads what it
\* is sent (Connection::exchange).
EveryCallReturns ==
    /\ (asked # 0) ~> (asked = 0)
    /\ ReadsOn => ((writing # "none") ~> (writing = "none"))

\* Not kept by the code (README, section 7).
\* "a TimeoutMs in a registration promises the call can be given up on": no
\* line is being written for ever, whatever the server does.
EveryCallIsGivenUpOn == (writing # "none") ~> (writing = "none")
=============================================================================
