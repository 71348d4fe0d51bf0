---------------------------- MODULE ClientServer ----------------------------
(***************************************************************************)
(* server.c, client.c and error_handlers.c: a server that serves one       *)
(* connection until its client leaves, and clients that send one line and  *)
(* block in a read until something comes back.                             *)
(*                                                                         *)
(* A connection is two queues of bounded length. One recv, and one read,   *)
(* takes what has come, as much as its buffer holds: one or more of the    *)
(* texts in the queue, and the strings are compared and printed up to the  *)
(* first zero byte, so that only the first counts. A request and a short   *)
(* answer are one text; the content that ls sends is as many as the reads  *)
(* it takes. What the commands of the server do is not in the repository   *)
(* (server.c has comments in their place): their results are any the code  *)
(* is prepared for.                                                        *)
(***************************************************************************)
EXTENDS Integers, Sequences

CONSTANTS
    Client,     \* client processes, each of which connects once
    NoClient,
    Typed,      \* the first words of the lines that are typed
    MaxFds,     \* descriptors the server has for connections
    MaxPieces,  \* reads a content takes at most
    Room        \* texts a connection holds in each direction

Word == {"help", "stop", "ls", "touch", "echo", "rm", "other"}

ASSUME ClientServerAssumption ==
    /\ NoClient \notin Client
    /\ Typed \subseteq Word
    /\ {MaxFds, MaxPieces, Room} \subseteq Nat \ {0}

VARIABLES
    \* the server
    up,         \* is the process there?
    peer,       \* client_fd: the client being served
    leaked,     \* descriptors of connections left without close
    reply,      \* what it is about to send: to the last request?, how many sends
    \* the kernel: the connections that wait to be accepted, and both ends
    backlog, requests, answers,
    closed,     \* has the server closed its end?
    reset,      \* will the server find the connection reset?
    \* the clients
    state,      \* what each one does
    \* history
    fate,       \* what became of the last request of each client
    heard,      \* what each client printed last
    split,      \* the clients that were sent an answer of several texts
    mishaps     \* what else happened that the protocol does not survive

serverVars == <<up, peer, leaked, reply>>
netVars    == <<backlog, requests, answers, closed, reset>>
history    == <<split, mishaps>>
vars       == <<serverVars, netVars, state, fate, heard, history>>

NoReply == [fresh |-> FALSE, left |-> 0]

\* Mutant: the line goes out as it was typed.
WireKeepsNewline(word) == [word |-> word, end |-> "newline"]

\* The client replaces the newline of a line by a zero byte.
Wire(word) == [word |-> word, end |-> "zero"]

Request == [text : [word : Word, end : {"zero", "newline"}], fresh : BOOLEAN]

TypeOK ==
    /\ up \in BOOLEAN
    /\ peer \in Client \cup {NoClient}
    /\ leaked \in 0 .. MaxFds
    /\ reply \in [fresh : BOOLEAN, left : 0 .. MaxPieces + 1]
    /\ backlog \in Seq(Client)
    /\ requests \in [Client -> Seq(Request)]
    /\ answers \in [Client -> Seq(BOOLEAN)]
    /\ closed \in [Client -> BOOLEAN]
    /\ reset \in [Client -> BOOLEAN]
    /\ state \in [Client -> {"new", "typing", "waiting", "gone"}]
    /\ fate \in [Client -> {"none", "sent", "taken", "answered", "silent", "swallowed"}]
    /\ heard \in [Client -> {"nothing", "answer", "stale", "itself"}]
    /\ split \subseteq Client
    /\ mishaps \subseteq {"killed", "refused", "stopped"}

Init ==
    /\ up = TRUE
    /\ peer = NoClient
    /\ leaked = 0
    /\ reply = NoReply
    /\ backlog = <<>>
    /\ requests = [c \in Client |-> <<>>]
    /\ answers = [c \in Client |-> <<>>]
    /\ closed = [c \in Client |-> FALSE]
    /\ reset = [c \in Client |-> FALSE]
    /\ state = [c \in Client |-> "new"]
    /\ fate = [c \in Client |-> "none"]
    /\ heard = [c \in Client |-> "nothing"]
    /\ split = {}
    /\ mishaps = {}

-----------------------------------------------------------------------------
(* The client.                                                             *)

\* connect succeeds while the server listens, whether or not it accepts.
Connect(c) ==
    /\ state[c] = "new"
    /\ IF up
       THEN /\ state' = [state EXCEPT ![c] = "typing"]
            /\ backlog' = Append(backlog, c)
       ELSE /\ state' = [state EXCEPT ![c] = "gone"]
            /\ UNCHANGED backlog
    /\ UNCHANGED <<serverVars, requests, answers, closed, reset, fate, heard, history>>

\* What is under way when the next line is written belongs to an earlier one.
Stale(texts) == [k \in DOMAIN texts |-> [texts[k] EXCEPT !.fresh = FALSE]]
Late(sent)   == [k \in DOMAIN sent |-> FALSE]

\* Mutant: the client does not read the answer to a line before the next.
WriteAhead(c, word) ==
    /\ state[c] = "typing"
    /\ up /\ ~closed[c]
    /\ \E s \in {"typing", "waiting"} : state' = [state EXCEPT ![c] = s]
    /\ requests[c] = <<>>
    /\ requests' = [requests EXCEPT ![c] = <<[text |-> Wire(word), fresh |-> TRUE]>>]
    /\ answers' = [answers EXCEPT ![c] = Late(@)]
    /\ reply' = IF peer = c THEN [reply EXCEPT !.fresh = FALSE] ELSE reply
    /\ fate' = [fate EXCEPT ![c] = "sent"]
    /\ UNCHANGED <<up, peer, leaked, backlog, closed, reset, heard, history>>

\* A line is typed and written, once the connection has room for it. At the end
\* of its input the client sends what its buffer holds, which is some line too.
Write(c, word) ==
    /\ state[c] = "typing"
    /\ up /\ ~closed[c]
    /\ Len(requests[c]) < Room
    /\ state' = [state EXCEPT ![c] = "waiting"]
    /\ requests' = [requests EXCEPT ![c] =
           Append(Stale(@), [text |-> Wire(word), fresh |-> TRUE])]
    /\ answers' = [answers EXCEPT ![c] = Late(@)]
    /\ reply' = IF peer = c THEN [reply EXCEPT !.fresh = FALSE] ELSE reply
    /\ fate' = [fate EXCEPT ![c] = "sent"]
    /\ UNCHANGED <<up, peer, leaked, backlog, closed, reset, heard, history>>

\* The other end is closed: the line is lost, and the second one ends the
\* client (SIGPIPE).
WriteInVain(c) ==
    /\ state[c] = "typing"
    /\ ~up \/ closed[c]
    /\ \E s \in {"waiting", "gone"} : state' = [state EXCEPT ![c] = s]
    /\ UNCHANGED <<serverVars, netVars, fate, heard, history>>

\* What is left of a queue when the first n texts are taken.
After(n, texts) == SubSeq(texts, n + 1, Len(texts))

\* Mutant: the read waits for a full buffer.
ReadFull(c) ==
    /\ state[c] = "waiting"
    /\ Len(answers[c]) > 1
    /\ state' = [state EXCEPT ![c] = "typing"]
    /\ heard' = [heard EXCEPT ![c] = IF Head(answers[c]) THEN "answer" ELSE "stale"]
    /\ answers' = [answers EXCEPT ![c] = <<>>]
    /\ UNCHANGED <<serverVars, backlog, requests, closed, reset, fate, history>>

\* The read takes the first n texts of what was sent: what has come of it, and
\* what the buffer holds. The first one is printed.
Read(c) ==
    /\ state[c] = "waiting"
    /\ answers[c] # <<>>
    /\ state' = [state EXCEPT ![c] = "typing"]
    /\ heard' = [heard EXCEPT ![c] = IF Head(answers[c]) THEN "answer" ELSE "stale"]
    /\ \E n \in 1 .. Len(answers[c]) : answers' = [answers EXCEPT ![c] = After(n, @)]
    /\ UNCHANGED <<serverVars, backlog, requests, closed, reset, fate, history>>

\* The other end is closed: nothing is read, and the buffer that is printed
\* still holds the line the client sent.
ReadNothing(c) ==
    /\ state[c] = "waiting"
    /\ answers[c] = <<>>
    /\ ~up \/ closed[c]
    /\ state' = [state EXCEPT ![c] = "typing"]
    /\ heard' = [heard EXCEPT ![c] = "itself"]
    /\ UNCHANGED <<serverVars, netVars, fate, history>>

\* A connection closed with something unread is reset.
Close(c) ==
    /\ state' = [state EXCEPT ![c] = "gone"]
    /\ reset' = [reset EXCEPT ![c] = @ \/ answers[c] # <<>>]
    /\ answers' = [answers EXCEPT ![c] = <<>>]
    /\ UNCHANGED <<serverVars, backlog, requests, closed, fate, heard, split>>

Exit(c) ==
    /\ state[c] = "typing"
    /\ Close(c)
    /\ UNCHANGED mishaps

Kill(c) ==
    /\ state[c] \in {"typing", "waiting"}
    /\ Close(c)
    /\ mishaps' = mishaps \cup {"killed"}

-----------------------------------------------------------------------------
(* The server.                                                             *)

\* The codes the commands may return: the named ones, success, another.
Code == -8 .. 0

\* handle_error: one send for a named code, none for any other.
handle_error(res) == IF res \in -7 .. -1 THEN 1 ELSE 0

\* The texts of ls: an error text and, all the same, the content.
Listing == {handle_error(res) + pieces : res \in Code, pieces \in 0 .. MaxPieces}

\* Mutant: the content is acknowledged as well.
SendsWithOk(word) ==
    CASE word = "help" -> {0}
      [] word = "ls"   -> {n + 1 : n \in Listing}
      [] OTHER -> {1}

\* How many texts a request is answered with. The answer to help is an empty
\* string, and so is the content of an empty directory: sends of nothing.
Sends(word) ==
    CASE word = "help" -> {0}
      [] word = "ls"   -> Listing
      [] word \in {"touch", "echo"} ->
             {1} \cup {handle_error(res) : res \in Code \ {0}}
      [] OTHER -> {1}     \* rm that succeeds, and what is not a command

\* The process ends: the kernel closes what it had open.
ServerGone ==
    /\ up' = FALSE
    /\ peer' = NoClient
    /\ leaked' = 0
    /\ reply' = NoReply
    /\ backlog' = <<>>
    /\ requests' = [c \in Client |-> <<>>]
    /\ UNCHANGED <<closed, reset, state, fate, heard, split>>

\* When no descriptor is left accept fails, for ever.
Accept ==
    /\ up
    /\ peer = NoClient
    /\ backlog # <<>>
    /\ leaked < MaxFds
    /\ peer' = Head(backlog)
    /\ backlog' = Tail(backlog)
    /\ UNCHANGED <<up, leaked, reply, requests, answers, closed, reset, state, fate, heard,
                   history>>

Receiving == up /\ peer # NoClient /\ reply.left = 0
Line      == Head(requests[peer])

\* What becomes of the last request of the client: it is taken, answered with
\* nothing, taken behind another one and lost, or it stays in the queue.
Taken(n, sends) ==
    CASE Line.fresh /\ sends = 0                      -> "silent"
      [] Line.fresh /\ sends > 0                      -> "taken"
      [] ~Line.fresh /\ n = Len(requests[peer])       -> "swallowed"
      [] OTHER                                        -> fate[peer]

\* Mutant: the answer is made and not sent.
ReceiveSilent ==
    /\ Receiving
    /\ requests[peer] # <<>>
    /\ \E n \in 1 .. Len(requests[peer]), sends \in Sends(Line.text.word) :
           /\ requests' = [requests EXCEPT ![peer] = After(n, @)]
           /\ fate' = [fate EXCEPT ![peer] = Taken(n, sends)]
           /\ split' = IF sends > 1 THEN split \cup {peer} ELSE split
    /\ UNCHANGED <<up, peer, leaked, reply, backlog, answers, closed, reset, state, heard, mishaps>>

\* A request is taken, with those that came behind it, and carried out.
Receive ==
    /\ Receiving
    /\ requests[peer] # <<>>
    /\ \E n \in 1 .. Len(requests[peer]), sends \in Sends(Line.text.word) :
           /\ requests' = [requests EXCEPT ![peer] = After(n, @)]
           /\ reply' = IF sends = 0 THEN NoReply ELSE [fresh |-> Line.fresh, left |-> sends]
           /\ fate' = [fate EXCEPT ![peer] = Taken(n, sends)]
           /\ split' = IF sends > 1 THEN split \cup {peer} ELSE split
    /\ UNCHANGED <<up, peer, leaked, backlog, answers, closed, reset, state, heard, mishaps>>

\* There is room for one more text to the client, or nobody to take it.
HasRoom == state[peer] = "gone" \/ Len(answers[peer]) < Room

\* Requests that came together may fill the buffer: the connection is closed.
ReceiveTooLong ==
    /\ Receiving
    /\ Len(requests[peer]) > 1
    /\ ~reset[peer]
    /\ HasRoom
    /\ requests' = [requests EXCEPT ![peer] = <<>>]
    /\ answers' = IF state[peer] = "gone" THEN answers
                  ELSE [answers EXCEPT ![peer] = Append(@, TRUE)]
    /\ fate' = [fate EXCEPT ![peer] = "answered"]
    /\ closed' = [closed EXCEPT ![peer] = TRUE]
    /\ peer' = NoClient
    /\ UNCHANGED <<up, leaked, reply, backlog, reset, state, heard, history>>

\* stop ends the server, with an answer, and so does an rm that fails.
Final == {[word |-> "stop", end |-> "newline"], Wire("rm")}

Ends ==
    /\ Receiving
    /\ requests[peer] # <<>>
    /\ Line.text \in Final
    /\ HasRoom
    /\ mishaps' = mishaps \cup {IF Line.text.word = "rm" THEN "refused" ELSE "stopped"}
    /\ answers' = IF Line.text.word = "stop" /\ state[peer] # "gone"
                  THEN [answers EXCEPT ![peer] = Append(@, Line.fresh)] ELSE answers
    /\ ServerGone

\* One text goes out, once the connection has room for it.
\* A send to a client that has left is lost, and has the connection reset; on
\* a connection already reset it can end the server (SIGPIPE).
Send ==
    /\ up /\ peer # NoClient /\ reply.left > 0
    /\ HasRoom
    /\ reply' = IF reply.left = 1 THEN NoReply ELSE [reply EXCEPT !.left = @ - 1]
    /\ IF state[peer] = "gone"
       THEN /\ reset' = [reset EXCEPT ![peer] = TRUE]
            /\ UNCHANGED answers
       ELSE /\ answers' = [answers EXCEPT ![peer] = Append(@, reply.fresh)]
            /\ UNCHANGED reset
    /\ fate' = IF reply.fresh THEN [fate EXCEPT ![peer] = "answered"] ELSE fate
    /\ UNCHANGED <<up, peer, leaked, backlog, requests, closed, state, heard, history>>

SendFails ==
    /\ up /\ peer # NoClient /\ reply.left > 0
    /\ reset[peer]
    /\ ServerGone
    /\ UNCHANGED <<answers, mishaps>>

\* Mutant: the end of the connection is taken for an error that passes.
ReceiveEndRetrying ==
    /\ Receiving
    /\ requests[peer] = <<>>
    /\ state[peer] = "gone"
    /\ UNCHANGED vars

\* The end of a connection is left without a close of client_fd.
ReceiveEnd ==
    /\ Receiving
    /\ requests[peer] = <<>>
    /\ state[peer] = "gone"
    /\ peer' = NoClient
    /\ leaked' = leaked + 1
    /\ UNCHANGED <<up, reply, netVars, state, fate, heard, history>>

\* recv fails on a connection that was reset: -1 is no less than the size of
\* the buffer, since bytes_read is unsigned, and the "too long" answer goes to
\* a connection that is not there.
ReceiveFails ==
    /\ Receiving
    /\ requests[peer] = <<>>
    /\ state[peer] = "gone" /\ reset[peer]
    /\ ServerGone
    /\ UNCHANGED <<answers, mishaps>>

-----------------------------------------------------------------------------
Serve ==
    \/ Receive
    \/ ReceiveTooLong
    \/ Ends
    \/ Send
    \/ SendFails
    \/ ReceiveEnd
    \/ ReceiveFails

Next ==
    \/ \E c \in Client :
           \/ Connect(c)
           \/ \E word \in Typed : Write(c, word)
           \/ WriteInVain(c)
           \/ Read(c)
           \/ ReadNothing(c)
           \/ Exit(c)
           \/ Kill(c)
    \/ Accept
    \/ Serve

\* The server runs, and so does a client whose read can return; nobody has to
\* connect, type or leave.
Fairness ==
    /\ WF_vars(Accept)
    /\ WF_vars(Serve)
    /\ \A c \in Client : WF_vars(Read(c) \/ ReadNothing(c))

Spec == Init /\ [][Next]_vars /\ Fairness

-----------------------------------------------------------------------------
(* Properties.                                                             *)

\* Server and client wait for each other in recv and read (server.c:86,
\* client.c:60) only after a request that was answered with nothing, or one that
\* an earlier answer of several texts to this client let be sent too early and
\* lost behind another. In send and write (server.c:140, client.c:59) they do
\* only after such an answer: both directions are full.
BothRead(c) ==
    /\ peer = c /\ Receiving /\ requests[c] = <<>>
    /\ state[c] = "waiting" /\ answers[c] = <<>>

BothWrite(c) ==
    /\ peer = c /\ reply.left > 0 /\ ~HasRoom
    /\ state[c] = "typing" /\ Len(requests[c]) = Room

WaitsOnlyForSilence ==
    \A c \in Client :
        /\ BothRead(c) => fate[c] = "silent" \/ (fate[c] = "swallowed" /\ c \in split)
        /\ BothWrite(c) => c \in split

\* What a client prints after a request is the answer to that request, as long
\* as it was not sent several texts for one request: an error text and a content
\* (server.c:139), or a content that one read did not take (server.c:140,
\* client.c:60). What is left comes as the answer to its next requests, and to
\* those of no other client.
InStep == \A c \in Client \ split : heard[c] # "stale"

\* No line a client types ends the server but an rm that fails, not even stop,
\* and neither does a client that leaves in order (server.c:103, :161, :93),
\* unless it was sent an answer of several texts and left some of them unread.
EndsOnlyByMishap == ~up => mishaps \cap {"refused", "killed"} # {} \/ split # {}

\* A client whose request the server has before it gets something to read,
\* unless that request is one of those nothing is sent for.
Answered ==
    \A c \in Client :
        peer = c /\ state[c] = "waiting"
            ~> state[c] # "waiting" \/ fate[c] \in {"silent", "swallowed"}

\* A client is served once all others have left, through any number of
\* connections that were left before they were accepted, unless the server
\* has lost all its descriptors.
TurnComes ==
    \A c \in Client :
        state[c] \in {"typing", "waiting"} /\ (\A d \in Client \ {c} : state[d] = "gone")
            ~> peer = c \/ closed[c] \/ state[c] = "gone" \/ ~up \/ leaked = MaxFds
=============================================================================
