------------------------------ MODULE HostChannel ------------------------------
(* The stream-json host's input: the main loop of _run_stream_json and, in    *)
(* the middle of a turn, the can_use_tool channel read the same stdin         *)
(* (cli/main.py, cli/structured_io.py).  Everything runs in one thread; the   *)
(* host at the other end sends, answers and closes when it likes.             *)
EXTENDS Naturals, Sequences, FiniteSets

CONSTANTS
    ChunkLines,     \* lines in a full chunk: read(n) waits for n characters or EOF
    MaxLines,       \* bound: lines the host sends
    MaxAsks         \* bound: permission requests

ASSUME HostAssumption == ChunkLines \in Nat \ {0} /\ MaxLines \in Nat /\ MaxAsks \in Nat

Placeholder == 0    \* "__PENDING__" as the request_id of a canned answer
Nothing == 0        \* no request

RequestNo == 1..MaxAsks

(* user messages and control requests, answers, and lines that do not parse.  *)
LineKinds == {"user", "control", "response", "malformed"}

VARIABLES
    stdin,              \* lines sent and not read
    hostClosed,         \* the host has closed its end
    cut,                \* the last line it sent has no newline
    lines,              \* every line sent so far
    mainLoop,           \* reading, turn or over
    prompt,             \* the prompt of the command line in _prepended_lines
    piece,              \* _buffer of StructuredIO: at most a line without newline
    ahead,              \* messages of a drain that the loop has not come to
    stdinBuffer,        \* _stdin_buffer of the channel
    pendingRequests,    \* ids in _pending_requests
    completed,          \* _completed_responses: id -> allowed
    inputClosed,        \* _input_closed
    asks,               \* number of requests sent
    waitingFor,         \* request wait() is called for
    waitAt,             \* where wait() is: deadline or read
    expired,            \* the deadline has passed
    verdicts            \* what the engine made of each request

loopVars == <<mainLoop, prompt, piece, ahead>>
requestVars == <<pendingRequests, completed, inputClosed>>
waitVars == <<stdinBuffer, asks, waitingFor, waitAt, expired, verdicts>>
hostVars == <<stdin, hostClosed, cut, lines, loopVars, requestVars, waitVars>>

HostInit ==
    /\ stdin = <<>> /\ lines = <<>> /\ stdinBuffer = <<>>
    /\ hostClosed = FALSE /\ inputClosed = FALSE /\ cut = FALSE
    /\ mainLoop = "reading"
    /\ prompt \in BOOLEAN /\ piece = <<>> /\ ahead = <<>>
    /\ pendingRequests = {}
    /\ completed = [r \in {} |-> FALSE]
    /\ asks = 0
    /\ waitingFor = Nothing
    /\ waitAt = "deadline"
    /\ expired = FALSE
    /\ verdicts = [r \in RequestNo |-> "none"]

(* The host: an answer names a request it was sent, or is a canned one.       *)
HostSends(line) ==
    /\ ~hostClosed
    /\ Len(lines) < MaxLines
    /\ stdin' = Append(stdin, line)
    /\ lines' = Append(lines, line)
    /\ UNCHANGED <<hostClosed, cut, loopVars, requestVars, waitVars>>

HostLines ==
    {[kind |-> k, id |-> Nothing, allow |-> FALSE] : k \in LineKinds \ {"response"}}
        \cup [kind : {"response"}, id : {Placeholder} \cup 1..asks, allow : BOOLEAN]

HostCloses ==
    /\ ~hostClosed
    /\ hostClosed' = TRUE
    /\ UNCHANGED <<stdin, cut, lines, loopVars, requestVars, waitVars>>

(* It closes after a line that it did not end.                                *)
HostClosesAfter(line) ==
    /\ ~hostClosed
    /\ Len(lines) < MaxLines
    /\ stdin' = Append(stdin, line)
    /\ lines' = Append(lines, line)
    /\ hostClosed' = TRUE /\ cut' = TRUE
    /\ UNCHANGED <<loopVars, requestVars, waitVars>>

(* process_line of a control response: only a pending request takes it.       *)
ProcessResponse(id, allow) ==
    IF id \in pendingRequests
    THEN /\ pendingRequests' = pendingRequests \ {id}
         /\ completed' = [r \in DOMAIN completed \cup {id} |->
                              IF r = id THEN allow ELSE completed[r]]
    ELSE UNCHANGED <<pendingRequests, completed>>

ProcessLine(line) ==
    IF line.kind = "response" THEN ProcessResponse(line.id, line.allow)
                              ELSE UNCHANGED <<pendingRequests, completed>>

(* What a drain returns: the prepended prompt comes before what was read.     *)
Drained(s) ==
    (IF prompt THEN <<"user">> ELSE <<>>)
        \o (IF s # <<>> /\ Head(s).kind \in {"user", "control"} THEN <<Head(s).kind>> ELSE <<>>)

(* A line that does not parse raises out of the loop, and what its drain had  *)
(* parsed before is lost; close_input fails the requests that are pending.    *)
RaiseOutOfLoop ==
    /\ mainLoop' = "over"
    /\ ahead' = <<>> /\ piece' = <<>> /\ prompt' = FALSE
    /\ inputClosed' = TRUE
    /\ pendingRequests' = {}
    /\ UNCHANGED completed

LoopReads == mainLoop = "reading" /\ ahead = <<>> /\ ~inputClosed

(* One line of the iteration over stdin, and its drain.                       *)
MainReadsLine ==
    /\ LoopReads
    /\ stdin # <<>> /\ ~(cut /\ Len(stdin) = 1)
    /\ stdin' = Tail(stdin)
    /\ IF Head(stdin).kind = "malformed"
       THEN RaiseOutOfLoop
       ELSE /\ ahead' = Drained(stdin) /\ prompt' = FALSE
            /\ ProcessLine(Head(stdin))
            /\ UNCHANGED <<mainLoop, piece, inputClosed>>
    /\ UNCHANGED <<hostClosed, cut, lines, waitVars>>

(* The line without newline is fed too, and stays in the buffer.              *)
MainReadsPiece ==
    /\ LoopReads
    /\ cut /\ Len(stdin) = 1
    /\ stdin' = <<>> /\ piece' = stdin
    /\ ahead' = Drained(<<>>) /\ prompt' = FALSE
    /\ UNCHANGED <<hostClosed, cut, lines, mainLoop, requestVars, waitVars>>

(* Mutant: the input is not closed before every request has its answer.       *)
MainReadsEofWhenAnswered ==
    /\ LoopReads
    /\ stdin = <<>> /\ hostClosed /\ pendingRequests = {}
    /\ inputClosed' = TRUE
    /\ ahead' = Drained(piece) /\ piece' = <<>> /\ prompt' = FALSE
    /\ UNCHANGED <<stdin, hostClosed, cut, lines, mainLoop, pendingRequests, completed, waitVars>>

(* EOF: close_input drains what is left and fails what is pending; the loop   *)
(* comes to the messages of this drain when the input is already closed.      *)
MainReadsEof ==
    /\ LoopReads
    /\ stdin = <<>> /\ hostClosed
    /\ IF piece # <<>> /\ Head(piece).kind = "malformed"
       THEN RaiseOutOfLoop
       ELSE /\ ahead' = Drained(piece) /\ piece' = <<>> /\ prompt' = FALSE
            /\ inputClosed' = TRUE /\ pendingRequests' = {}
            /\ completed' = IF piece # <<>> /\ Head(piece).id \in pendingRequests
                            THEN [r \in DOMAIN completed \cup {Head(piece).id} |->
                                      IF r = Head(piece).id THEN Head(piece).allow ELSE completed[r]]
                            ELSE completed
            /\ UNCHANGED mainLoop
    /\ UNCHANGED <<stdin, hostClosed, cut, lines, waitVars>>

(* A user message begins a turn; a control request is answered at once.       *)
MainHandles ==
    /\ mainLoop = "reading" /\ ahead # <<>>
    /\ mainLoop' = IF Head(ahead) = "user" THEN "turn" ELSE "reading"
    /\ ahead' = Tail(ahead)
    /\ UNCHANGED <<stdin, hostClosed, cut, lines, prompt, piece, requestVars, waitVars>>

MainStops ==
    /\ mainLoop = "reading" /\ ahead = <<>> /\ inputClosed
    /\ mainLoop' = "over"
    /\ UNCHANGED <<stdin, hostClosed, cut, lines, prompt, piece, ahead, requestVars, waitVars>>

TurnEnds ==
    /\ mainLoop = "turn" /\ waitingFor = Nothing
    /\ mainLoop' = "reading"
    /\ UNCHANGED <<stdin, hostClosed, cut, lines, prompt, piece, ahead, requestVars, waitVars>>

(* A tool call of the turn has to be asked for: send() and the call of wait().*)
SendPermissionRequest ==
    /\ mainLoop = "turn" /\ waitingFor = Nothing
    /\ asks < MaxAsks
    /\ ~inputClosed
    /\ asks' = asks + 1
    /\ pendingRequests' = pendingRequests \cup {asks + 1}
    /\ waitingFor' = asks + 1
    /\ waitAt' = "deadline"
    /\ expired' = FALSE
    /\ UNCHANGED <<stdin, hostClosed, cut, lines, loopVars, stdinBuffer, completed,
                   inputClosed, verdicts>>

(* A turn begun by the last drain: send() raises and the call is denied.      *)
SendIsRefused ==
    /\ mainLoop = "turn" /\ waitingFor = Nothing
    /\ asks < MaxAsks
    /\ inputClosed
    /\ asks' = asks + 1
    /\ verdicts' = [verdicts EXCEPT ![asks + 1] = "deny"]
    /\ UNCHANGED <<stdin, hostClosed, cut, lines, loopVars, requestVars, stdinBuffer,
                   waitingFor, waitAt, expired>>

Decide(verdict) ==
    /\ verdicts' = [verdicts EXCEPT ![waitingFor] = verdict]
    /\ waitingFor' = Nothing

TimePasses ==
    /\ waitingFor # Nothing /\ ~expired
    /\ expired' = TRUE
    /\ UNCHANGED <<stdin, hostClosed, cut, lines, loopVars, requestVars, stdinBuffer, asks,
                   waitingFor, waitAt, verdicts>>

(* wait(): the deadline is looked at before each line, and nowhere else.      *)
WaitLooksAtDeadline ==
    /\ waitingFor # Nothing /\ waitAt = "deadline"
    /\ IF expired THEN Decide("deny") /\ UNCHANGED waitAt
                  ELSE waitAt' = "read" /\ UNCHANGED <<verdicts, waitingFor>>
    /\ UNCHANGED <<stdin, hostClosed, cut, lines, loopVars, requestVars, stdinBuffer, asks,
                   expired>>

(* _read_line without a line in the buffer: read(_RECV_CHUNK) returns when    *)
(* the chunk is full or at EOF; a line without newline never leaves the       *)
(* buffer, so it is as if it were not there.                                  *)
WaitReadsChunk ==
    /\ waitingFor # Nothing /\ waitAt = "read" /\ stdinBuffer = <<>>
    /\ stdin # <<>>
    /\ Len(stdin) >= ChunkLines \/ hostClosed
    /\ LET n == IF Len(stdin) < ChunkLines THEN Len(stdin) ELSE ChunkLines
           ended == IF cut /\ n = Len(stdin) THEN n - 1 ELSE n
       IN  /\ stdinBuffer' = SubSeq(stdin, 1, ended)
           /\ stdin' = SubSeq(stdin, n + 1, Len(stdin))
    /\ UNCHANGED <<hostClosed, cut, lines, loopVars, requestVars, asks, waitingFor, waitAt,
                   expired, verdicts>>

WaitReadsEof ==
    /\ waitingFor # Nothing /\ waitAt = "read" /\ stdinBuffer = <<>>
    /\ stdin = <<>> /\ hostClosed
    /\ Decide("deny")
    /\ UNCHANGED <<stdin, hostClosed, cut, lines, loopVars, requestVars, stdinBuffer, asks,
                   waitAt, expired>>

(* Mutant: every answer is taken for the request that is waited for.          *)
AddressedToWaiter(line) == waitingFor

(* _substitute_request_id.                                                    *)
AddressedTo(line) == IF line.id = Placeholder THEN waitingFor ELSE line.id

(* A line of the buffer: the answer ends the wait and is taken; whatever else *)
(* it is, it is gone.                                                         *)
WaitTakesLine ==
    /\ waitingFor # Nothing /\ waitAt = "read" /\ stdinBuffer # <<>>
    /\ stdinBuffer' = Tail(stdinBuffer)
    /\ LET line == Head(stdinBuffer)
           id == AddressedTo(line)
       IN  IF line.kind = "response" /\ id = waitingFor /\ id \in pendingRequests
           THEN /\ pendingRequests' = pendingRequests \ {id}
                /\ Decide(IF line.allow THEN "allow" ELSE "deny")
                /\ UNCHANGED <<completed, waitAt>>
           ELSE /\ IF line.kind = "response" THEN ProcessResponse(id, line.allow)
                                             ELSE UNCHANGED <<pendingRequests, completed>>
                /\ waitAt' = "deadline"
                /\ UNCHANGED <<verdicts, waitingFor>>
    /\ UNCHANGED <<stdin, hostClosed, cut, lines, loopVars, inputClosed, asks, expired>>

HostMoves ==
    HostCloses \/ \E line \in HostLines : HostSends(line) \/ HostClosesAfter(line)

MainMoves ==
    \/ MainReadsLine \/ MainReadsPiece \/ MainReadsEof \/ MainHandles \/ MainStops
    \/ TurnEnds \/ SendPermissionRequest \/ SendIsRefused

WaitMoves ==
    WaitLooksAtDeadline \/ WaitReadsChunk \/ WaitReadsEof \/ WaitTakesLine

HostNext == HostMoves \/ MainMoves \/ WaitMoves \/ TimePasses

(* The thread runs unless a read blocks it; time passes; the host may stop    *)
(* sending without closing.                                                   *)
HostFairness ==
    /\ WF_hostVars(MainMoves)
    /\ WF_hostVars(WaitMoves)
    /\ WF_hostVars(TimePasses)

HostSpec == HostInit /\ [][HostNext]_hostVars /\ HostFairness

HostTypeOK ==
    /\ mainLoop \in {"reading", "turn", "over"}
    /\ pendingRequests \subseteq 1..asks
    /\ waitingFor \in {Nothing} \cup 1..asks
    /\ ahead \in Seq({"user", "control"})
    /\ verdicts \in [RequestNo -> {"none", "allow", "deny"}]

(* Fail closed: a call is allowed only by an answer that allowed this very    *)
(* request, or by a canned one that names none; a late answer that names the  *)
(* request it is for decides no other one.                                    *)
AllowedByItsAnswer ==
    \A r \in RequestNo : verdicts[r] = "allow" =>
        \E i \in DOMAIN lines : /\ lines[i].kind = "response" /\ lines[i].allow
                                /\ lines[i].id \in {r, Placeholder}

(* "a can_use_tool request still in flight while the host disconnects fails   *)
(* fast": when the host closes its end the program comes to its end.          *)
EndsWithHost == hostClosed ~> (mainLoop = "over")

(* "wait blocks reading the host's control_response line directly from the    *)
(* stream": a request the host has answered is decided.                       *)
AnswerIsHeard ==
    \A r \in RequestNo :
        (waitingFor = r /\ \E i \in DOMAIN stdin : stdin[i].kind = "response" /\ stdin[i].id = r)
            ~> (verdicts[r] # "none")
=============================================================================
