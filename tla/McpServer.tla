------------------------------ MODULE McpServer ------------------------------
(***************************************************************************)
(* The local MCP server (serveMcpStdio, mcp-stdio-server.ts): lines of     *)
(* JSON-RPC from a client, read byte by byte under a bound, handled one    *)
(* after the other, with a handshake before any tool runs.  The client may *)
(* send ahead and may read slowly.                                         *)
(*                                                                         *)
(* A line is its message and its length; a byte here is a block of bytes.  *)
(* A message is what the server distinguishes of it: whether it parses and *)
(* is an object, its identifier, its method, whether its members and its   *)
(* parameters have the shape that is asked for.                            *)
(* Answers keep below the bound on output: a packet has at most 32768      *)
(* bytes and an answer holds it at most three times.                       *)
(***************************************************************************)
EXTENDS Integers, Sequences, SequencesExt

CONSTANTS
    Messages,   \* messages that the client sends
    Long,       \* the message of lines that are too long
    LineLimit,  \* maximumInputLineBytes
    MaxLines    \* bound on lines

Methods == {"ping", "initialize", "initialized", "list", "call", "other"}

ASSUME LineAssumption ==
    /\ LineLimit \in Nat /\ LineLimit > 0
    /\ Messages \cup {Long} \subseteq
          [text : BOOLEAN, object : BOOLEAN, id : {"none", "bad", "good"}, known : BOOLEAN,
           method : Methods, params : BOOLEAN]

VARIABLES
    lines,    \* the lines that the client has begun: message, length, whether it ends
    stream,   \* what the server has of the line it reads
    session,  \* initializeResponded, initialized and the request it works on
    answers   \* messages written, with the line they answer, or None for a null identifier
serverVars == <<lines, stream, session, answers>>

None == 0
Reading == Len(lines)
Current == lines[Reading]
Message == Current.message
NoStream == [at |-> 0, pending |-> <<>>, dropping |-> FALSE]

-----------------------------------------------------------------------------
(* Input *)

\* The client begins a line; it may close its end instead of ending the line.
Send(message, length, ends) ==
    /\ session.pc = "read" /\ stream.at = 0
    /\ Reading < MaxLines /\ (Reading > 0 => Current.ends)
    /\ lines' = Append(lines, [message |-> message, length |-> length, ends |-> ends])
    /\ stream' = [stream EXCEPT !.at = 1]
    /\ UNCHANGED <<session, answers>>

\* Writing waits for the client when the pipe is full.
Written(line, answer) ==
    /\ answers' = Append(answers, [line |-> line, of |-> answer])
    /\ \E full \in BOOLEAN : session' = [session EXCEPT !.pc = IF full THEN "drain" ELSE "read"]

MutantReadByte ==
    /\ session.pc = "read" /\ stream.at > 0 /\ stream.at < Current.length
    /\ IF stream.dropping
       THEN stream' = [stream EXCEPT !.at = @ + 1] /\ UNCHANGED <<session, answers>>
       ELSE IF Len(stream.pending) = LineLimit
       THEN /\ stream' = [stream EXCEPT !.at = @ + 1, !.pending = <<>>, !.dropping = TRUE]
            /\ Written(None, "too-large")
       ELSE /\ stream' = [stream EXCEPT !.at = @ + 1, !.pending = Append(@, stream.at)]
            /\ UNCHANGED <<session, answers>>
    /\ UNCHANGED lines
ReadByte ==
    /\ session.pc = "read" /\ stream.at > 0 /\ stream.at <= Current.length
    /\ IF stream.dropping
       THEN stream' = [stream EXCEPT !.at = @ + 1] /\ UNCHANGED <<session, answers>>
       ELSE IF Len(stream.pending) = LineLimit
       THEN /\ stream' = [stream EXCEPT !.at = @ + 1, !.pending = <<>>, !.dropping = TRUE]
            /\ Written(None, "too-large")
       ELSE /\ stream' = [stream EXCEPT !.at = @ + 1, !.pending = Append(@, stream.at)]
            /\ UNCHANGED <<session, answers>>
    /\ UNCHANGED lines

AtEnd == session.pc = "read" /\ stream.at > 0 /\ stream.at > Current.length

-----------------------------------------------------------------------------
(* processLine *)

\* The bytes parse when they are those of the line.
Parsed ==
    /\ Message.text
    /\ stream.pending = [i \in 1..Current.length |-> i]

\* A request has an identifier that may be repeated in an answer; an identifier that is
\* no such one makes the message neither a request nor a notification.
IsNotification(m) == m.object /\ m.id = "none" /\ m.known
IsRequest(m) == m.object /\ m.id = "good" /\ m.known
ResponseId(m, line) == IF m.object /\ m.id = "good" THEN line ELSE None

Quietly == session' = [session EXCEPT !.pc = "read"] /\ UNCHANGED answers
Initialize ==
    IF session.responded \/ ~Message.params THEN Written(Reading, "invalid-params")
    ELSE /\ answers' = Append(answers, [line |-> Reading, of |-> "initialized"])
         /\ \E full \in BOOLEAN :
               session' = [session EXCEPT !.responded = TRUE,
                                          !.pc = IF full THEN "drain" ELSE "read"]

MutantNotification ==
    /\ session' = [session EXCEPT !.initialized = @ \/ Message.method = "initialized"]
    /\ UNCHANGED answers
Notification ==
    /\ session' = [session EXCEPT !.initialized =
                      @ \/ (Message.method = "initialized" /\ session.responded)]
    /\ UNCHANGED answers

\* Once the handshake is made: a tool call leaves the line to the provider.
Serviced ==
    CASE Message.method \notin {"list", "call"} -> Written(Reading, "no-method")
      [] Message.method \in {"list", "call"} /\ ~Message.params -> Written(Reading, "invalid-params")
      [] Message.method = "list" /\ Message.params -> Written(Reading, "tools")
      [] Message.method = "call" /\ Message.params ->
            session' = [session EXCEPT !.pc = "invoke"] /\ UNCHANGED answers

Process ==
    CASE ~Parsed -> Written(None, "parse-error")
      [] Parsed /\ IsNotification(Message) -> Notification
      [] Parsed /\ ~IsNotification(Message) /\ ~IsRequest(Message) ->
            Written(ResponseId(Message, Reading), "invalid-request")
      [] Parsed /\ IsRequest(Message) ->
            CASE Message.method = "ping" -> Written(Reading, "pong")
              [] Message.method = "initialize" -> Initialize
              [] Message.method \notin {"ping", "initialize"} ->
                    IF session.initialized THEN Serviced ELSE Written(Reading, "not-initialized")

\* A newline, or the end of the input.
EndLine ==
    /\ AtEnd
    /\ IF stream.dropping THEN UNCHANGED <<session, answers>> ELSE Process
    /\ stream' = NoStream
    /\ UNCHANGED lines

\* The provider answers, or fails, or answers something else.
Answer(good) ==
    /\ session.pc = "invoke"
    /\ Written(Reading, IF good THEN "result" ELSE "internal-error")
    /\ UNCHANGED <<lines, stream>>

\* The client reads on, or is gone: then the server fails.
Drain == session.pc = "drain" /\ Quietly /\ UNCHANGED <<lines, stream>>
OutputFails ==
    /\ session.pc = "drain" /\ session' = [session EXCEPT !.pc = "failed"]
    /\ UNCHANGED <<lines, stream, answers>>

ServerInit ==
    /\ lines = <<>> /\ stream = NoStream /\ answers = <<>>
    /\ session = [responded |-> FALSE, initialized |-> FALSE, pc |-> "read"]
\* No client is connected.
ServerRests ==
    /\ lines = <<>> /\ stream = NoStream /\ answers = <<>>
    /\ session = [responded |-> FALSE, initialized |-> FALSE, pc |-> "off"]

Serve == ReadByte \/ EndLine \/ Drain \/ \E good \in BOOLEAN : Answer(good)
ServerNext ==
    \/ \E message \in Messages, ends \in BOOLEAN : Send(message, LineLimit, ends)
    \/ \E ends \in BOOLEAN : Send(Long, LineLimit + 2, ends)
    \/ Serve \/ OutputFails
\* The server goes on; the provider answers and the client reads.
ServerFairness == WF_serverVars(Serve)

-----------------------------------------------------------------------------
(* Properties *)

\* The answers that a line is owed: none, or one with or without its identifier.
Owed(i) ==
    IF lines[i].length > LineLimit \/ ~lines[i].message.text THEN <<None>>
    ELSE IF IsNotification(lines[i].message) THEN <<>> ELSE <<ResponseId(lines[i].message, i)>>
OwedUpTo(n) == FlattenSeq([i \in 1..n |-> Owed(i)])
AnsweredLines == [n \in DOMAIN answers |-> answers[n].line]

\* Every line is answered once and in its turn, under its own identifier, or without one
\* when the server could not read one, even behind a line that was too large and had to
\* be skipped (mcp-stdio-server.ts:146).
AnsweredInTurn ==
    /\ IsPrefix(AnsweredLines, OwedUpTo(Reading))
    /\ Reading > 0 => IsPrefix(OwedUpTo(Reading - 1), AnsweredLines)

\* No tool is listed or called unless the client confirmed the handshake after the server
\* had answered it, and there is one handshake (mcp-stdio-server.ts:51).
HandshakeFirst ==
    /\ \A n \in DOMAIN answers :
          answers[n].of \in {"tools", "result", "internal-error"} =>
            \E m \in 1..(n - 1) :
                /\ answers[m].of = "initialized"
                /\ \E i \in (answers[m].line + 1)..(answers[n].line - 1) :
                      IsNotification(lines[i].message) /\ lines[i].message.method = "initialized"
    /\ \A m, n \in DOMAIN answers :
          answers[m].of = "initialized" /\ answers[n].of = "initialized" => m = n

\* Every line that has begun is answered, unless the client is gone.
EveryLineAnswered ==
    \A n \in 1..MaxLines :
        Reading >= n ~> session.pc = "failed" \/ (Reading >= n /\ IsPrefix(OwedUpTo(n), AnsweredLines))

\* Every line is answered, in its turn and once.
LinesAreAnswered == []AnsweredInTurn /\ EveryLineAnswered
=============================================================================
