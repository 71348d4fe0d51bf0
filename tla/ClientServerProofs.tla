------------------------- MODULE ClientServerProofs -------------------------
(***************************************************************************)
(* Proofs about ClientServer, for every set of clients, every set of lines *)
(* and every number of descriptors.                                        *)
(***************************************************************************)
EXTENDS ClientServer, SequenceTheorems, TLAPS

\* The connections: each client has one at most, in the backlog or served, and
\* a served one has a descriptor that can still be lost.
ConnectionInv ==
    /\ \A i \in DOMAIN backlog : /\ state[backlog[i]] # "new"
                                 /\ ~closed[backlog[i]]
                                 /\ backlog[i] # peer
    /\ \A i, j \in DOMAIN backlog : backlog[i] = backlog[j] => i = j
    /\ peer # NoClient => state[peer] # "new" /\ ~closed[peer] /\ leaked < MaxFds
    /\ \A c \in Client : closed[c] => state[c] # "new"
    /\ peer = NoClient => reply.left = 0
    /\ ~up => peer = NoClient /\ \A c \in Client : requests[c] = <<>>

\* Every request ends in a zero byte.
ZeroInv == \A c \in Client : \A k \in DOMAIN requests[c] : requests[c][k].text.end = "zero"

\* What is under way between a client and the server, and how much may be.
Load(c) ==
    Len(requests[c]) + Len(answers[c]) + (IF peer = c THEN reply.left ELSE 0)
Quota(c) ==
    IF state[c] = "waiting" \/ (state[c] = "gone" /\ "killed" \in mishaps) THEN 1 ELSE 0

\* A client in step: nothing is under way while it types and at most one thing
\* while it waits, and that belongs to its last line.
Apace(c) ==
    /\ Load(c) <= Quota(c)
    /\ \A k \in DOMAIN requests[c] : requests[c][k].fresh
    /\ \A k \in DOMAIN answers[c] : answers[c][k]
    /\ heard[c] # "stale"
    /\ ~closed[c]
    /\ peer = c /\ reply.left > 0 => reply.fresh

\* So is every client that was not sent several texts for one request.
StopAndWait == \A c \in Client \ split : Apace(c)

\* Where the answer is that a client waits for.
FateInv ==
    \A c \in Client : state[c] = "waiting" /\ up /\ ~closed[c] =>
        /\ fate[c] # "none"
        /\ fate[c] = "sent" => requests[c] # <<>>
        /\ fate[c] = "taken" => peer = c /\ reply.left > 0 /\ reply.fresh
        /\ fate[c] = "answered" => answers[c] # <<>>
        /\ fate[c] = "swallowed" => c \in split

\* Connections are reset only after a kill or an answer of several texts.
ResetInv == \A c \in Client : reset[c] => "killed" \in mishaps \/ c \in split

\* The inductive invariant.
IInv ==
    /\ TypeOK
    /\ ConnectionInv
    /\ ZeroInv
    /\ StopAndWait
    /\ FateInv
    /\ ResetInv
    /\ EndsOnlyByMishap

-----------------------------------------------------------------------------
(* The operators.                                                          *)

LEMMA StaleFacts ==
    ASSUME NEW q \in Seq(Request)
    PROVE  /\ Stale(q) \in Seq(Request)
           /\ Len(Stale(q)) = Len(q)
           /\ \A k \in DOMAIN q : Stale(q)[k].text = q[k].text
<1>1. q \in [1 .. Len(q) -> Request] /\ Len(q) \in Nat /\ DOMAIN q = 1 .. Len(q)
  OBVIOUS
<1>2. Stale(q) \in [1 .. Len(q) -> Request]
  BY <1>1 DEF Stale, Request
<1>3. Stale(q) \in Seq(Request)
  BY <1>1, <1>2
<1>4. Len(Stale(q)) = Len(q)
  BY <1>1, <1>2, <1>3
<1>5. \A k \in DOMAIN q : Stale(q)[k].text = q[k].text
  BY <1>1 DEF Stale, Request
<1> QED
  BY <1>3, <1>4, <1>5

LEMMA LateFacts ==
    ASSUME NEW q \in Seq(BOOLEAN)
    PROVE  Late(q) \in Seq(BOOLEAN) /\ Len(Late(q)) = Len(q)
<1>1. Len(q) \in Nat /\ DOMAIN q = 1 .. Len(q)
  OBVIOUS
<1>2. Late(q) \in [1 .. Len(q) -> BOOLEAN]
  BY <1>1 DEF Late
<1> QED
  BY <1>1, <1>2

\* No request is answered with more texts than an error and a whole content.
LEMMA SendsBounded == \A word \in Word : Sends(word) \subseteq 0 .. MaxPieces + 1
BY ClientServerAssumption DEF Sends, Listing, Word, handle_error, Code

\* Nothing, and at most one thing, under way.
LEMMA LoadFacts ==
    ASSUME TypeOK, NEW c \in Client
    PROVE  /\ Len(requests[c]) \in Nat /\ Len(answers[c]) \in Nat
           /\ Load(c) \in Nat /\ reply.left \in Nat
           /\ Len(requests[c]) <= Load(c) /\ Len(answers[c]) <= Load(c)
           /\ Len(requests[c]) + Len(answers[c]) <= Load(c)
           /\ peer = c => /\ reply.left + Len(requests[c]) <= Load(c)
                          /\ reply.left + Len(answers[c]) <= Load(c)
<1> DEFINE n == Len(requests[c])
           m == Len(answers[c])
           l == IF peer = c THEN reply.left ELSE 0
<1>1. n \in Nat /\ m \in Nat
  BY DEF TypeOK
<1>2. reply.left \in Nat
  BY ClientServerAssumption DEF TypeOK
<1>3. l \in Nat /\ (peer = c => l = reply.left)
  BY <1>2
<1>4. Load(c) = n + m + l
  BY DEF Load
<1> HIDE DEF n, m, l
<1>5. /\ n + m + l \in Nat /\ n <= n + m + l /\ m <= n + m + l /\ n + m <= n + m + l
      /\ l + n <= n + m + l /\ l + m <= n + m + l
  BY <1>1, <1>3
<1> QED
  BY <1>1, <1>2, <1>3, <1>4, <1>5 DEF n, m

\* What a recv or a read takes, and what it leaves.
LEMMA AfterFacts ==
    ASSUME NEW S, NEW q \in Seq(S), NEW n \in 1 .. Len(q)
    PROVE  /\ After(n, q) \in Seq(S)
           /\ Len(After(n, q)) = Len(q) - n
           /\ DOMAIN After(n, q) = 1 .. Len(q) - n
           /\ \A k \in DOMAIN After(n, q) : k + n \in DOMAIN q /\ After(n, q)[k] = q[k + n]
<1>1. Len(q) \in Nat /\ n \in Nat /\ n <= Len(q) /\ DOMAIN q = 1 .. Len(q)
  OBVIOUS
<1>2. \A i \in n + 1 .. Len(q) : q[i] \in S
  BY <1>1
<1>3. /\ SubSeq(q, n + 1, Len(q)) \in Seq(S)
      /\ Len(SubSeq(q, n + 1, Len(q))) =
             IF n + 1 <= Len(q) THEN Len(q) - (n + 1) + 1 ELSE 0
      /\ \A i \in 1 .. Len(q) - (n + 1) + 1 : SubSeq(q, n + 1, Len(q))[i] = q[n + 1 + i - 1]
  <2>1. n + 1 \in Int /\ Len(q) \in Int
    BY <1>1
  <2> QED
    BY <1>2, <2>1, SubSeqProperties
<1> DEFINE a == After(n, q)
<1>4. a \in Seq(S) /\ Len(a) = Len(q) - n
  <2>0. \A l, i \in Nat : i <= l => (~(i + 1 <= l) => l - i = 0)
    OBVIOUS
  <2>1. CASE n + 1 <= Len(q)
    <3>1. Len(q) - (n + 1) + 1 = Len(q) - n
      BY <1>1
    <3> QED
      BY <1>3, <2>1, <3>1 DEF After
  <2>2. CASE ~(n + 1 <= Len(q))
    <3>1. Len(q) - n = 0
      BY <1>1, <2>0, <2>2, Zenon
    <3> QED
      BY <1>3, <2>2, <3>1 DEF After
  <2> QED
    BY <2>1, <2>2
<1>5. DOMAIN a = 1 .. Len(q) - n
  BY <1>4
<1>6. \A k \in 1 .. Len(q) - n : a[k] = q[k + n]
  <2> TAKE k \in 1 .. Len(q) - n
  <2>1. k \in 1 .. Len(q) - (n + 1) + 1 /\ n + 1 + k - 1 = k + n
    BY <1>1
  <2> QED
    BY <1>3, <2>1 DEF After
<1>7. \A k \in 1 .. Len(q) - n : k + n \in DOMAIN q
  BY <1>1
<1> QED
  BY <1>4, <1>5, <1>6, <1>7

\* A step that puts nothing under way for a client leaves it in step.
LEMMA ApaceKept ==
    ASSUME TypeOK, NEW c \in Client, Apace(c),
           requests'[c] = requests[c] \/ requests'[c] = <<>>,
           answers'[c] = answers[c] \/ answers'[c] = <<>>,
           peer' = c => reply'.left = 0 \/ (peer = c /\ reply' = reply),
           heard'[c] # "stale", ~closed'[c],
           Quota(c) <= Quota(c)'
    PROVE  Apace(c)'
<1> DEFINE l == IF peer = c THEN reply.left ELSE 0
           m == IF peer' = c THEN reply'.left ELSE 0
           n == Len(requests[c])
           a == Len(answers[c])
           k == Len(requests'[c])
           b == Len(answers'[c])
<1>1. n \in Nat /\ a \in Nat /\ reply.left \in Nat
  BY LoadFacts
<1>2. k \in 0 .. n /\ b \in 0 .. a
  <2>1. Len(<<>>) = 0
    OBVIOUS
  <2> QED
    BY <1>1, <2>1
<1>3. l \in Nat /\ m \in 0 .. l
  BY <1>1
<1>4. Load(c) = n + a + l /\ Load(c)' = k + b + m
  BY DEF Load
<1>5. Quota(c) \in 0 .. 1 /\ Quota(c)' \in 0 .. 1 /\ Load(c) <= Quota(c)
  BY DEF Quota, Apace
<1>6. Load(c)' <= Quota(c)'
  <2> HIDE DEF n, a, k, b, l, m
  <2> QED
    BY <1>1, <1>2, <1>3, <1>4, <1>5
<1>7. /\ \A i \in DOMAIN requests'[c] : requests'[c][i].fresh
      /\ \A i \in DOMAIN answers'[c] : answers'[c][i]
  <2>1. DOMAIN <<>> = {}
    OBVIOUS
  <2> QED
    BY <2>1 DEF Apace
<1>8. peer' = c /\ reply'.left > 0 => reply'.fresh
  BY DEF Apace
<1> QED
  BY <1>6, <1>7, <1>8 DEF Apace

LEMMA InitIInv == Init => IInv
<1> SUFFICES ASSUME Init PROVE IInv
  OBVIOUS
<1>1. TypeOK
  BY ClientServerAssumption, EmptySeq DEF Init, TypeOK, NoReply
<1> QED
  BY <1>1 DEF Init, IInv, ConnectionInv, ZeroInv, StopAndWait, Apace, FateInv, ResetInv,
              EndsOnlyByMishap, NoReply, Load, Quota

-----------------------------------------------------------------------------
(* The steps of a client.                                                  *)

LEMMA ConnectStep ==
    ASSUME IInv, NEW c \in Client, Connect(c)
    PROVE  IInv'
<1> USE DEF IInv
<1>1. /\ backlog \in Seq(Client) /\ Len(backlog) \in Nat /\ DOMAIN backlog = 1 .. Len(backlog)
      /\ state \in [Client -> {"new", "typing", "waiting", "gone"}]
  BY DEF TypeOK
<1>2. TypeOK'
  <2>1. backlog' \in Seq(Client)
    BY <1>1 DEF Connect
  <2>2. state' \in [Client -> {"new", "typing", "waiting", "gone"}]
    BY <1>1 DEF Connect
  <2>3. UNCHANGED <<serverVars, requests, answers, closed, reset, fate, heard, split, mishaps>>
    BY DEF Connect, history
  <2> QED
    BY <2>1, <2>2, <2>3 DEF TypeOK, serverVars
<1>3. CASE up
  <2>1. /\ backlog' = Append(backlog, c)
        /\ state' = [state EXCEPT ![c] = "typing"]
        /\ state[c] = "new"
        /\ UNCHANGED <<serverVars, requests, answers, closed, reset, fate, heard, split, mishaps>>
    BY <1>3 DEF Connect, history
  <2>2. /\ DOMAIN backlog' = 1 .. Len(backlog) + 1
        /\ \A k \in 1 .. Len(backlog) : backlog'[k] = backlog[k] /\ backlog[k] \in Client
        /\ backlog'[Len(backlog) + 1] = c
    BY <1>1, <2>1
  <2>3. c # peer /\ ~closed[c] /\ \A k \in 1 .. Len(backlog) : backlog[k] # c
    BY <1>1, <2>1, ClientServerAssumption DEF ConnectionInv
  <2>4. ConnectionInv'
    BY <1>1, <2>1, <2>2, <2>3, SMTT(30) DEF ConnectionInv, serverVars, TypeOK
  <2>5. StopAndWait'
    BY <1>1, <2>1 DEF StopAndWait, Apace, Load, Quota, serverVars, TypeOK
  <2> QED
    BY <1>1, <1>2, <2>1, <2>4, <2>5
       DEF ZeroInv, FateInv, ResetInv, EndsOnlyByMishap, serverVars
<1>4. CASE ~up
  <2>1. /\ state' = [state EXCEPT ![c] = "gone"]
        /\ state[c] = "new"
        /\ UNCHANGED <<serverVars, netVars, fate, heard, split, mishaps>>
    BY <1>4 DEF Connect, netVars, history
  <2>2. ConnectionInv'
    BY <1>1, <2>1 DEF ConnectionInv, serverVars, netVars, TypeOK
  <2>3. StopAndWait'
    BY <1>1, <2>1 DEF StopAndWait, Apace, Load, Quota, serverVars, netVars, TypeOK
  <2> QED
    BY <1>1, <1>2, <2>1, <2>2, <2>3
       DEF ZeroInv, FateInv, ResetInv, EndsOnlyByMishap, serverVars, netVars
<1> QED
  BY <1>3, <1>4

LEMMA WriteStep ==
    ASSUME IInv, NEW c \in Client, NEW word \in Typed, Write(c, word)
    PROVE  IInv'
<1> USE DEF IInv
<1> DEFINE new == [text |-> Wire(word), fresh |-> TRUE]
           old == Stale(requests[c])
<1>1. /\ state[c] = "typing" /\ up /\ ~closed[c]
      /\ state' = [state EXCEPT ![c] = "waiting"]
      /\ requests' = [requests EXCEPT ![c] = Append(old, new)]
      /\ answers' = [answers EXCEPT ![c] = Late(answers[c])]
      /\ reply' = IF peer = c THEN [reply EXCEPT !.fresh = FALSE] ELSE reply
      /\ fate' = [fate EXCEPT ![c] = "sent"]
      /\ UNCHANGED <<up, peer, leaked, backlog, closed, reset, heard, split, mishaps>>
  BY DEF Write, history
<1>2. /\ requests \in [Client -> Seq(Request)] /\ answers \in [Client -> Seq(BOOLEAN)]
      /\ state \in [Client -> {"new", "typing", "waiting", "gone"}]
      /\ fate \in [Client -> {"none", "sent", "taken", "answered", "silent", "swallowed"}]
      /\ reply \in [fresh : BOOLEAN, left : 0 .. MaxPieces + 1]
  BY DEF TypeOK
<1>3. new \in Request /\ new.fresh /\ new.text.end = "zero"
  BY ClientServerAssumption DEF Request, Wire
<1>4. /\ old \in Seq(Request) /\ Len(old) = Len(requests[c])
      /\ \A k \in 1 .. Len(old) : old[k].text = requests[c][k].text
      /\ DOMAIN requests[c] = 1 .. Len(old)
  BY <1>2, StaleFacts
<1>5. Late(answers[c]) \in Seq(BOOLEAN) /\ Len(Late(answers[c])) = Len(answers[c])
  BY <1>2, LateFacts
<1>6. /\ requests'[c] \in Seq(Request)
      /\ requests'[c] # <<>>
      /\ Len(requests'[c]) = Len(requests[c]) + 1
      /\ \A k \in 1 .. Len(old) : requests'[c][k] = old[k]
      /\ requests'[c][Len(old) + 1] = new
  <2> HIDE DEF old, new, IInv
  <2>1. /\ Append(old, new) \in Seq(Request)
        /\ Append(old, new) # <<>>
        /\ Len(Append(old, new)) = Len(old) + 1
        /\ \A k \in 1 .. Len(old) : Append(old, new)[k] = old[k]
        /\ Append(old, new)[Len(old) + 1] = new
    BY <1>3, <1>4, AppendProperties
  <2>2. requests'[c] = Append(old, new)
    BY <1>1, <1>2
  <2> QED
    BY <1>4, <2>1, <2>2
<1>7. TypeOK'
  <2>1. requests' \in [Client -> Seq(Request)] /\ answers' \in [Client -> Seq(BOOLEAN)]
    BY <1>1, <1>2, <1>5, <1>6
  <2>2. reply' \in [fresh : BOOLEAN, left : 0 .. MaxPieces + 1]
    BY <1>1, <1>2
  <2> QED
    BY <1>1, <1>2, <2>1, <2>2 DEF TypeOK
<1>8. ConnectionInv'
  BY <1>1, <1>2 DEF ConnectionInv, TypeOK
<1>9. ZeroInv'
  <2> SUFFICES ASSUME NEW d \in Client, NEW k \in DOMAIN requests'[d]
               PROVE  requests'[d][k].text.end = "zero"
    BY DEF ZeroInv
  <2>1. CASE d = c
    <3>1. k \in 1 .. Len(old) + 1
      BY <1>4, <1>6, <2>1
    <3> HIDE DEF old, new
    <3> QED
      BY <1>3, <1>4, <1>6, <2>1, <3>1 DEF ZeroInv
  <2>2. CASE d # c
    BY <1>1, <1>2, <2>2 DEF ZeroInv
  <2> QED
    BY <2>1, <2>2
<1>10. StopAndWait'
  <2> SUFFICES ASSUME NEW d \in Client, d \notin split
               PROVE  Apace(d)'
    BY <1>1 DEF StopAndWait
  <2>a. Apace(d)
    BY DEF StopAndWait
  <2>b. CASE d # c
    <3>1. requests'[d] = requests[d] /\ answers'[d] = answers[d] /\ Quota(d)' = Quota(d)
      BY <1>1, <1>2, <2>b DEF Quota
    <3>2. /\ peer' = d => peer = d /\ reply' = reply
          /\ heard'[d] # "stale" /\ ~closed'[d] /\ Quota(d) <= Quota(d)'
      BY <1>1, <2>a, <2>b, <3>1 DEF Apace, Quota
    <3> QED
      BY <2>a, <3>1, <3>2, ApaceKept
  <2>c. CASE d = c
    <3>1. /\ Len(requests[c]) = 0 /\ Len(answers[c]) = 0
          /\ peer = c => reply.left = 0
      <4>1. Load(c) <= 0
        BY <1>1, <2>a, <2>c DEF Apace, Quota
      <4>2. /\ Len(requests[c]) \in Nat /\ Len(answers[c]) \in Nat /\ reply.left \in Nat
            /\ Load(c) \in Nat
            /\ Len(requests[c]) <= Load(c) /\ Len(answers[c]) <= Load(c)
            /\ peer = c => reply.left + Len(requests[c]) <= Load(c)
        BY LoadFacts
      <4> HIDE DEF old, new
      <4> QED
        BY <4>1, <4>2
    <3>2. \A k \in DOMAIN requests'[c] : requests'[c][k].fresh
      <4> HIDE DEF old, new
      <4> QED
        BY <1>3, <1>4, <1>6, <3>1
    <3>3. \A k \in DOMAIN answers'[c] : answers'[c][k]
      BY <1>1, <1>2, <1>5, <3>1
    <3>4. Load(c)' <= Quota(c)'
      BY <1>1, <1>2, <1>5, <1>6, <3>1 DEF Load, Quota
    <3>5. peer' = c => ~(reply'.left > 0)
      BY <1>1, <1>2, <3>1
    <3> QED
      BY <1>1, <2>a, <2>c, <3>2, <3>3, <3>4, <3>5 DEF Apace
  <2> QED
    BY <2>b, <2>c
<1>11. FateInv'
  <2> HIDE DEF old, new
  <2> QED
    BY <1>1, <1>2, <1>6 DEF FateInv
<1> QED
  BY <1>1, <1>7, <1>8, <1>9, <1>10, <1>11 DEF ResetInv, EndsOnlyByMishap

LEMMA WriteInVainStep ==
    ASSUME IInv, NEW c \in Client, WriteInVain(c)
    PROVE  IInv'
<1> USE DEF IInv
<1>1. PICK s \in {"waiting", "gone"} : state' = [state EXCEPT ![c] = s]
  BY DEF WriteInVain
<1>2. /\ state[c] = "typing" /\ (~up \/ closed[c])
      /\ UNCHANGED <<serverVars, netVars, fate, heard, split, mishaps>>
  BY DEF WriteInVain, history
<1>3. state \in [Client -> {"new", "typing", "waiting", "gone"}]
  BY DEF TypeOK
<1>4. TypeOK'
  BY <1>1, <1>2, <1>3 DEF TypeOK, serverVars, netVars
<1>5. ConnectionInv'
  BY <1>1, <1>2, <1>3 DEF ConnectionInv, serverVars, netVars, TypeOK
<1>6. StopAndWait'
  <2> SUFFICES ASSUME NEW d \in Client, d \notin split
               PROVE  Apace(d)'
    BY <1>2 DEF StopAndWait
  <2>1. Apace(d) /\ Quota(d) <= Quota(d)'
    BY <1>1, <1>2, <1>3 DEF StopAndWait, Quota
  <2> QED
    BY <1>2, <2>1, ApaceKept DEF Apace, serverVars, netVars
<1> QED
  BY <1>1, <1>2, <1>3, <1>4, <1>5, <1>6
     DEF ZeroInv, FateInv, ResetInv, EndsOnlyByMishap, serverVars, netVars

LEMMA ReadStep ==
    ASSUME IInv, NEW c \in Client, Read(c)
    PROVE  IInv'
<1> USE DEF IInv
<1>1. /\ state[c] = "waiting" /\ answers[c] # <<>>
      /\ state' = [state EXCEPT ![c] = "typing"]
      /\ UNCHANGED <<serverVars, backlog, requests, closed, reset, fate, split, mishaps>>
  BY DEF Read, history
<1>0. PICK n \in 1 .. Len(answers[c]) : answers' = [answers EXCEPT ![c] = After(n, answers[c])]
  BY DEF Read
<1>2. /\ state \in [Client -> {"new", "typing", "waiting", "gone"}]
      /\ heard \in [Client -> {"nothing", "answer", "stale", "itself"}]
      /\ answers \in [Client -> Seq(BOOLEAN)]
  BY DEF TypeOK
<1>3. answers[c] \in Seq(BOOLEAN) /\ answers[c][1] = Head(answers[c]) /\ Len(answers[c]) \in Nat
  BY <1>2
<1>a. Len(answers[c]) # 0
  BY <1>1, <1>3, EmptySeq
<1>b. heard' \in [Client -> {"nothing", "answer", "stale", "itself"}]
  <2>1. heard' = [heard EXCEPT ![c] = IF Head(answers[c]) THEN "answer" ELSE "stale"]
    BY DEF Read
  <2> QED
    BY <1>2, <2>1
<1>c. After(n, answers[c]) \in Seq(BOOLEAN) /\ Len(After(n, answers[c])) = Len(answers[c]) - n
  BY <1>3, AfterFacts
<1>d. answers'[c] = After(n, answers[c]) /\ \A d \in Client \ {c} : answers'[d] = answers[d]
  BY <1>0, <1>2
<1>4. TypeOK'
  <2>1. state' \in [Client -> {"new", "typing", "waiting", "gone"}]
    BY <1>1, <1>2
  <2>2. answers' \in [Client -> Seq(BOOLEAN)]
    <3> DEFINE x == After(n, answers[c])
    <3>1. x \in Seq(BOOLEAN) /\ answers' = [answers EXCEPT ![c] = x]
      BY <1>0, <1>c
    <3> HIDE DEF x
    <3> QED
      BY <1>2, <3>1
  <2> QED
    BY <1>1, <1>b, <2>1, <2>2 DEF TypeOK, serverVars
<1>5. ConnectionInv'
  BY <1>1, <1>2 DEF ConnectionInv, serverVars, TypeOK
<1>6. StopAndWait'
  <2> SUFFICES ASSUME NEW d \in Client, d \notin split
               PROVE  Apace(d)'
    BY <1>1 DEF StopAndWait
  <2>a. Apace(d)
    BY DEF StopAndWait
  <2>h. heard' = [heard EXCEPT ![c] = IF Head(answers[c]) THEN "answer" ELSE "stale"]
    BY DEF Read
  <2>b. CASE d # c
    <3>1. /\ requests'[d] = requests[d] /\ answers'[d] = answers[d]
          /\ heard'[d] # "stale" /\ ~closed'[d]
          /\ peer' = peer /\ reply' = reply
      BY <1>1, <1>2, <1>d, <2>a, <2>b, <2>h DEF Apace, serverVars
    <3>2. Quota(d) <= Quota(d)'
      BY <1>1, <1>2, <2>b DEF Quota
    <3> QED
      BY <2>a, <3>1, <3>2, ApaceKept
  <2>c. CASE d = c
    <3>1. heard'[c] # "stale"
      <4>1. 1 \in DOMAIN answers[c]
        BY <1>3, <1>a
      <4>2. answers[c][1]
        BY <2>a, <2>c, <4>1 DEF Apace
      <4>3. heard' = [heard EXCEPT ![c] = "answer"]
        BY <1>3, <2>h, <4>2
      <4> QED
        BY <1>2, <4>3
    <3>2. Load(c) <= 1
      BY <1>1, <2>a, <2>c DEF Apace, Quota
    <3>3. Len(requests[c]) = 0 /\ Len(answers'[c]) = 0 /\ (peer = c => reply.left = 0)
      <4> DEFINE k == Len(requests[c])
                 m == Len(answers[c])
                 t == Load(c)
                 l == reply.left
      <4>1. /\ k \in Nat /\ m \in Nat /\ m # 0 /\ t \in Nat /\ l \in Nat
            /\ t <= 1 /\ k + m <= t /\ (peer = c => l + m <= t)
        BY <1>a, <3>2, LoadFacts
      <4>2. n \in 1 .. m /\ Len(answers'[c]) = m - n
        BY <1>c, <1>d
      <4> HIDE DEF k, m, t, l
      <4>3. k = 0 /\ m - n = 0 /\ (peer = c => l = 0)
        BY <4>1, <4>2
      <4> QED
        BY <4>2, <4>3 DEF k, l
    <3>4. Len(answers'[c]) = 0 /\ Len(requests'[c]) = 0 /\ (peer' = c => reply'.left = 0)
      BY <1>1, <3>3 DEF serverVars
    <3>5. Load(c)' <= Quota(c)'
      BY <3>4 DEF Load, Quota
    <3>6. DOMAIN answers'[c] = {} /\ DOMAIN requests'[c] = {}
      <4>1. answers'[c] \in Seq(BOOLEAN) /\ requests'[c] \in Seq(Request)
        BY <1>4 DEF TypeOK
      <4> QED
        BY <3>4, <4>1, EmptySeq
    <3> QED
      BY <1>1, <2>a, <2>c, <3>1, <3>4, <3>5, <3>6 DEF Apace
  <2> QED
    BY <2>b, <2>c
<1>7. FateInv'
  BY <1>1, <1>2, <1>d DEF FateInv, serverVars
<1> QED
  BY <1>1, <1>4, <1>5, <1>6, <1>7 DEF ZeroInv, ResetInv, EndsOnlyByMishap, serverVars

LEMMA ReadNothingStep ==
    ASSUME IInv, NEW c \in Client, ReadNothing(c)
    PROVE  IInv'
<1> USE DEF IInv
<1>1. /\ state[c] = "waiting" /\ answers[c] = <<>> /\ (~up \/ closed[c])
      /\ state' = [state EXCEPT ![c] = "typing"]
      /\ heard' = [heard EXCEPT ![c] = "itself"]
      /\ UNCHANGED <<serverVars, netVars, fate, split, mishaps>>
  BY DEF ReadNothing, history
<1>2. /\ state \in [Client -> {"new", "typing", "waiting", "gone"}]
      /\ heard \in [Client -> {"nothing", "answer", "stale", "itself"}]
  BY DEF TypeOK
<1>3. TypeOK'
  <2>1. /\ state' \in [Client -> {"new", "typing", "waiting", "gone"}]
        /\ heard' \in [Client -> {"nothing", "answer", "stale", "itself"}]
    BY <1>1, <1>2
  <2> QED
    BY <1>1, <2>1 DEF TypeOK, serverVars, netVars
<1>4. ConnectionInv'
  BY <1>1, <1>2 DEF ConnectionInv, serverVars, netVars, TypeOK
<1>5. StopAndWait'
  <2> SUFFICES ASSUME NEW d \in Client, d \notin split
               PROVE  Apace(d)'
    BY <1>1 DEF StopAndWait
  <2>a. Apace(d)
    BY DEF StopAndWait
  <2>b. /\ requests' = requests /\ answers' = answers /\ closed' = closed
        /\ peer' = peer /\ reply' = reply
    BY <1>1 DEF serverVars, netVars
  <2>c. heard'[d] # "stale"
    BY <1>1, <1>2, <2>a DEF Apace
  <2>d. CASE d # c
    <3>1. Quota(d) <= Quota(d)'
      BY <1>1, <1>2, <2>d DEF Quota
    <3> QED
      BY <2>a, <2>b, <2>c, <3>1, ApaceKept DEF Apace
  <2>e. CASE d = c
    <3>1. requests[c] = <<>> /\ answers[c] = <<>> /\ peer # c
      BY <1>1, <2>a, <2>e, ClientServerAssumption DEF Apace, ConnectionInv
    <3>2. Load(c)' <= Quota(c)'
      BY <2>b, <3>1 DEF Load, Quota
    <3> QED
      BY <2>a, <2>b, <2>c, <2>e, <3>2 DEF Apace
  <2> QED
    BY <2>d, <2>e
<1>6. FateInv'
  BY <1>1, <1>2 DEF FateInv, serverVars, netVars
<1> QED
  BY <1>1, <1>3, <1>4, <1>5, <1>6 DEF ZeroInv, ResetInv, EndsOnlyByMishap, serverVars, netVars

LEMMA CloseStep ==
    ASSUME IInv, NEW c \in Client, Exit(c) \/ Kill(c)
    PROVE  IInv'
<1> USE DEF IInv
<1>1. /\ state[c] \in {"typing", "waiting"}
      /\ state' = [state EXCEPT ![c] = "gone"]
      /\ reset' = [reset EXCEPT ![c] = reset[c] \/ answers[c] # <<>>]
      /\ answers' = [answers EXCEPT ![c] = <<>>]
      /\ UNCHANGED <<serverVars, backlog, requests, closed, fate, heard, split>>
  BY DEF Exit, Kill, Close
<1>2. \/ state[c] = "typing" /\ mishaps' = mishaps
      \/ mishaps' = mishaps \cup {"killed"}
  BY DEF Exit, Kill
<1>3. /\ state \in [Client -> {"new", "typing", "waiting", "gone"}]
      /\ answers \in [Client -> Seq(BOOLEAN)] /\ reset \in [Client -> BOOLEAN]
      /\ mishaps \subseteq {"killed", "refused", "stopped"}
  BY DEF TypeOK
<1>4. TypeOK'
  <2>1. /\ state' \in [Client -> {"new", "typing", "waiting", "gone"}]
        /\ answers' \in [Client -> Seq(BOOLEAN)] /\ reset' \in [Client -> BOOLEAN]
    BY <1>1, <1>3
  <2>2. mishaps' \subseteq {"killed", "refused", "stopped"}
    BY <1>2, <1>3
  <2> QED
    BY <1>1, <2>1, <2>2 DEF TypeOK, serverVars
<1>5. ConnectionInv'
  BY <1>1, <1>3 DEF ConnectionInv, serverVars, TypeOK
<1>7. StopAndWait'
  <2> SUFFICES ASSUME NEW d \in Client, d \notin split
               PROVE  Apace(d)'
    BY <1>1 DEF StopAndWait
  <2>1. Apace(d)
    BY DEF StopAndWait
  <2>2. /\ requests'[d] = requests[d] /\ (answers'[d] = answers[d] \/ answers'[d] = <<>>)
        /\ heard'[d] # "stale" /\ ~closed'[d] /\ peer' = peer /\ reply' = reply
    BY <1>1, <1>3, <2>1 DEF Apace, serverVars
  <2>3. Quota(d) <= Quota(d)'
    BY <1>1, <1>2, <1>3 DEF Quota
  <2> QED
    BY <2>1, <2>2, <2>3, ApaceKept
<1>8. FateInv'
  BY <1>1, <1>2, <1>3 DEF FateInv, serverVars
<1>9. ResetInv'
  <2>1. CASE mishaps' = mishaps \cup {"killed"}
    BY <2>1 DEF ResetInv
  <2>2. CASE state[c] = "typing" /\ mishaps' = mishaps
    <3>1. c \notin split => answers[c] = <<>>
      <4>1. c \notin split => Load(c) <= 0
        BY <2>2 DEF StopAndWait, Apace, Quota
      <4>2. Len(answers[c]) \in Nat /\ Load(c) \in Nat /\ Len(answers[c]) <= Load(c)
        BY LoadFacts
      <4>3. c \notin split => Len(answers[c]) = 0
        BY <4>1, <4>2
      <4> QED
        BY <1>3, <4>3, EmptySeq
    <3> QED
      BY <1>1, <1>3, <2>2, <3>1 DEF ResetInv
  <2> QED
    BY <1>2, <2>1, <2>2
<1>10. EndsOnlyByMishap'
  BY <1>1, <1>2 DEF EndsOnlyByMishap, serverVars
<1> QED
  BY <1>1, <1>4, <1>5, <1>7, <1>8, <1>9, <1>10 DEF ZeroInv

-----------------------------------------------------------------------------
(* The steps of the server.                                                *)

LEMMA AcceptStep ==
    ASSUME IInv, Accept
    PROVE  IInv'
<1> USE DEF IInv
<1>1. /\ up /\ peer = NoClient /\ leaked < MaxFds
      /\ peer' = Head(backlog) /\ backlog' = Tail(backlog)
      /\ UNCHANGED <<up, leaked, reply, requests, answers, closed, reset, state, fate, heard, split, mishaps>>
  BY DEF Accept, history
<1>2. /\ backlog \in Seq(Client) /\ backlog # <<>>
  BY DEF Accept, TypeOK
<1>3. /\ Len(backlog) \in Nat \ {0} /\ DOMAIN backlog = 1 .. Len(backlog)
      /\ peer' = backlog[1] /\ peer' \in Client
      /\ backlog' \in Seq(Client) /\ DOMAIN backlog' = 1 .. Len(backlog) - 1
      /\ \A k \in 1 .. Len(backlog) - 1 : backlog'[k] = backlog[k + 1]
  BY <1>1, <1>2, EmptySeq, HeadTailProperties
<1>4. TypeOK'
  BY <1>1, <1>3 DEF TypeOK
<1>5. ConnectionInv'
  <2>1. peer' # NoClient
    BY <1>3, ClientServerAssumption
  <2>2. \A k \in DOMAIN backlog' : k \in 1 .. Len(backlog) - 1 /\ k + 1 \in DOMAIN backlog /\ k + 1 # 1
    BY <1>3
  <2>3. 1 \in DOMAIN backlog
    BY <1>3
  <2>4. \A k \in DOMAIN backlog' : backlog'[k] # peer'
    BY <1>3, <2>2, <2>3 DEF ConnectionInv
  <2>5. \A k \in DOMAIN backlog' : state'[backlog'[k]] # "new" /\ ~closed'[backlog'[k]]
    BY <1>1, <1>3, <2>2 DEF ConnectionInv
  <2>6. \A j, k \in DOMAIN backlog' : backlog'[j] = backlog'[k] => j = k
    <3> SUFFICES ASSUME NEW j \in DOMAIN backlog', NEW k \in DOMAIN backlog',
                        backlog'[j] = backlog'[k]
                 PROVE  j = k
      OBVIOUS
    <3>1. j + 1 = k + 1
      BY <1>3, <2>2 DEF ConnectionInv
    <3>2. j \in Int /\ k \in Int
      BY <1>3
    <3> QED
      BY <3>1, <3>2
  <2>7. state'[peer'] # "new" /\ ~closed'[peer'] /\ leaked' < MaxFds
    BY <1>1, <1>3, <2>3 DEF ConnectionInv
  <2> QED
    BY <1>1, <2>1, <2>4, <2>5, <2>6, <2>7 DEF ConnectionInv
<1>6. StopAndWait'
  <2>1. reply'.left = 0
    BY <1>1 DEF ConnectionInv
  <2>2. \A c \in Client : Apace(c) => Apace(c)'
    <3> SUFFICES ASSUME NEW c \in Client, Apace(c) PROVE Apace(c)'
      OBVIOUS
    <3>1. Quota(c) <= Quota(c)'
      BY <1>1 DEF Quota
    <3> QED
      BY <1>1, <2>1, <3>1, ApaceKept DEF Apace
  <2> QED
    BY <1>1, <2>2 DEF StopAndWait
<1>7. FateInv'
  BY <1>1, ClientServerAssumption DEF FateInv
<1> QED
  BY <1>1, <1>4, <1>5, <1>6, <1>7 DEF ZeroInv, ResetInv, EndsOnlyByMishap

\* The line the server takes.
LEMMA LineFacts ==
    ASSUME IInv, Receiving, requests[peer] # <<>>
    PROVE  /\ peer \in Client /\ reply.left = 0
           /\ Len(requests[peer]) \in Nat \ {0}
           /\ 1 \in DOMAIN requests[peer]
           /\ Line \in Request /\ Line = requests[peer][1]
           /\ Sends(Line.text.word) \subseteq 0 .. MaxPieces + 1
<1>1. peer \in Client /\ reply.left = 0
  BY DEF IInv, TypeOK, Receiving
<1>2. requests[peer] \in Seq(Request)
  BY <1>1 DEF IInv, TypeOK
<1>3. Len(requests[peer]) \in Nat \ {0}
  BY <1>2, EmptySeq
<1>4. 1 \in DOMAIN requests[peer] /\ Line = requests[peer][1] /\ Line \in Request
  BY <1>2, <1>3 DEF Line
<1>5. Line.text.word \in Word
  BY <1>4 DEF Request
<1> QED
  BY <1>1, <1>3, <1>4, <1>5, SendsBounded

LEMMA ReceiveStep ==
    ASSUME IInv, Receive
    PROVE  IInv'
<1> USE DEF IInv
<1> DEFINE rest(n) == After(n, requests[peer])
<1>1. /\ Receiving /\ requests[peer] # <<>>
      /\ UNCHANGED <<up, peer, leaked, backlog, answers, closed, reset, state, heard, mishaps>>
  BY DEF Receive
<1>2. PICK n \in 1 .. Len(requests[peer]), sends \in Sends(Line.text.word) :
           /\ requests' = [requests EXCEPT ![peer] = rest(n)]
           /\ reply' = IF sends = 0 THEN NoReply ELSE [fresh |-> Line.fresh, left |-> sends]
           /\ fate' = [fate EXCEPT ![peer] = Taken(n, sends)]
           /\ split' = IF sends > 1 THEN split \cup {peer} ELSE split
  BY DEF Receive
<1>3. /\ peer \in Client /\ reply.left = 0
      /\ Len(requests[peer]) \in Nat \ {0} /\ 1 \in DOMAIN requests[peer]
      /\ Line \in Request /\ Line = requests[peer][1]
      /\ sends \in 0 .. MaxPieces + 1
  BY <1>1, LineFacts
<1>4. /\ requests \in [Client -> Seq(Request)]
      /\ fate \in [Client -> {"none", "sent", "taken", "answered", "silent", "swallowed"}]
      /\ split \subseteq Client
  BY DEF TypeOK
<1>5. Line.fresh \in BOOLEAN
  BY <1>3 DEF Request
<1>6. reply' \in [fresh : BOOLEAN, left : 0 .. MaxPieces + 1] /\ reply'.left = sends
      /\ (sends # 0 => reply'.fresh = Line.fresh)
  BY <1>2, <1>3, <1>5, ClientServerAssumption DEF NoReply
<1>a. /\ rest(n) \in Seq(Request)
      /\ Len(rest(n)) = Len(requests[peer]) - n
      /\ DOMAIN rest(n) = 1 .. Len(requests[peer]) - n
      /\ \A k \in DOMAIN rest(n) : k + n \in DOMAIN requests[peer]
                                  /\ rest(n)[k] = requests[peer][k + n]
  BY <1>3, <1>4, AfterFacts
<1>b. requests'[peer] = rest(n) /\ \A d \in Client \ {peer} : requests'[d] = requests[d]
  BY <1>2, <1>3, <1>4
<1>c. sends \in Nat
  BY <1>3, ClientServerAssumption
<1> HIDE DEF rest
<1>7. TypeOK'
  <2>1. requests' \in [Client -> Seq(Request)]
    BY <1>2, <1>4, <1>a
  <2>2. fate' \in [Client -> {"none", "sent", "taken", "answered", "silent", "swallowed"}]
    <3>1. Taken(n, sends) \in {"none", "sent", "taken", "answered", "silent", "swallowed"}
      BY <1>3, <1>4, <1>5, <1>c DEF Taken
    <3> QED
      BY <1>2, <1>4, <3>1
  <2>3. split' \subseteq Client
    BY <1>2, <1>3, <1>4
  <2> QED
    BY <1>1, <1>6, <2>1, <2>2, <2>3 DEF TypeOK
<1>8. ConnectionInv'
  BY <1>1, <1>3, <1>b, ClientServerAssumption DEF ConnectionInv, Receiving
<1>9. ZeroInv'
  <2>1. \A k \in DOMAIN requests'[peer] : requests'[peer][k].text.end = "zero"
    BY <1>3, <1>a, <1>b DEF ZeroInv
  <2> QED
    BY <1>1, <1>b, <2>1 DEF ZeroInv
<1>10. StopAndWait'
  <2> SUFFICES ASSUME NEW d \in Client, d \notin split'
               PROVE  Apace(d)'
    BY DEF StopAndWait
  <2>a. d \notin split /\ Apace(d)
    BY <1>2 DEF StopAndWait
  <2>b. CASE d # peer
    <3>1. Quota(d) <= Quota(d)'
      BY <1>1 DEF Quota
    <3>2. /\ requests'[d] = requests[d] /\ answers'[d] = answers[d]
          /\ peer' # d /\ heard'[d] # "stale" /\ ~closed'[d]
      BY <1>1, <1>b, <2>a, <2>b DEF Apace
    <3> QED
      BY <2>a, <3>1, <3>2, ApaceKept
  <2>c. CASE d = peer
    <3>1. sends \in 0 .. 1
      BY <1>2, <1>c, <2>c
    <3>2. Line.fresh
      BY <1>3, <2>a, <2>c DEF Apace
    <3>3. reply'.left > 0 => reply'.fresh
      <4>1. reply'.left > 0 => sends # 0
        BY <1>6
      <4> QED
        BY <1>6, <3>2, <4>1, Zenon
    <3>4. Load(peer)' <= Quota(peer)'
      <4> DEFINE m == Len(answers[peer])
                 k == Len(requests[peer])
      <4>1. Load(peer)' = (k - n) + m + sends
        BY <1>1, <1>6, <1>a, <1>b DEF Load
      <4>2. Load(peer) = k + m + 0
        BY <1>3 DEF Load
      <4>3. Quota(peer)' = Quota(peer) /\ Load(peer) <= Quota(peer) /\ Quota(peer) \in 0 .. 1
        BY <1>1, <2>a, <2>c DEF Quota, Apace
      <4>4. m \in Nat /\ k \in Nat /\ n \in 1 .. k
        BY <1>3, LoadFacts
      <4> HIDE DEF m, k
      <4>5. (k - n) + m + sends <= k + m + 0
        BY <3>1, <4>4
      <4> QED
        BY <3>1, <4>1, <4>2, <4>3, <4>4, <4>5
    <3>5. \A k \in DOMAIN requests'[peer] : requests'[peer][k].fresh
      BY <1>a, <1>b, <2>a, <2>c DEF Apace
    <3> QED
      BY <1>1, <2>a, <2>c, <3>3, <3>4, <3>5 DEF Apace
  <2> QED
    BY <2>b, <2>c
<1>11. FateInv'
  <2> SUFFICES ASSUME NEW d \in Client, state[d] = "waiting", ~closed[d]
               PROVE  /\ fate'[d] # "none"
                      /\ fate'[d] = "sent" => requests'[d] # <<>>
                      /\ fate'[d] = "taken" => peer = d /\ reply'.left > 0 /\ reply'.fresh
                      /\ fate'[d] = "answered" => answers[d] # <<>>
                      /\ fate'[d] = "swallowed" => d \in split'
    BY <1>1 DEF FateInv
  <2>0. up /\ split \subseteq split'
    BY <1>1, <1>2 DEF Receiving
  <2>1. /\ fate[d] # "none"
        /\ fate[d] = "taken" => peer = d /\ reply.left > 0
        /\ fate[d] = "sent" => requests[d] # <<>>
        /\ fate[d] = "answered" => answers[d] # <<>>
        /\ fate[d] = "swallowed" => d \in split
    BY <2>0 DEF FateInv
  <2>2. CASE d # peer
    BY <1>2, <1>3, <1>4, <1>b, <2>0, <2>1, <2>2
  <2>3. CASE d = peer
    <3>1. fate'[d] = Taken(n, sends)
      BY <1>2, <1>3, <1>4, <2>3
    <3>2. ~Line.fresh => d \in split
      BY <1>3, <2>3 DEF StopAndWait, Apace
    <3>3. CASE Line.fresh
      <4>1. \/ fate'[d] = "silent"
            \/ fate'[d] = "taken" /\ sends > 0
        BY <1>c, <3>1, <3>3 DEF Taken
      <4>2. sends > 0 => reply'.left > 0 /\ sends # 0
        BY <1>6, <1>c
      <4>3. sends # 0 => reply'.fresh
        BY <1>6, <3>3, Zenon
      <4> QED
        BY <2>3, <4>1, <4>2, <4>3
    <3>4. CASE ~Line.fresh /\ n = Len(requests[peer])
      BY <2>0, <3>1, <3>2, <3>4 DEF Taken
    <3>5. CASE ~Line.fresh /\ n # Len(requests[peer])
      <4>1. fate'[d] = fate[d]
        BY <2>3, <3>1, <3>5 DEF Taken
      <4>2. requests'[d] # <<>>
        <5>1. Len(requests'[d]) # 0
          BY <1>3, <1>a, <1>b, <2>3, <3>5
        <5> QED
          BY <5>1
      <4>3. fate[d] # "taken"
        BY <1>3, <2>1
      <4> QED
        BY <2>0, <2>1, <4>1, <4>2, <4>3
    <3> QED
      BY <1>5, <3>3, <3>4, <3>5
  <2> QED
    BY <2>2, <2>3
<1>12. ResetInv' /\ EndsOnlyByMishap'
  BY <1>1, <1>2 DEF ResetInv, EndsOnlyByMishap
<1> QED
  BY <1>7, <1>8, <1>9, <1>10, <1>11, <1>12

LEMMA ReceiveTooLongStep ==
    ASSUME IInv, ReceiveTooLong
    PROVE  IInv'
<1> USE DEF IInv
<1>1. /\ Receiving /\ Len(requests[peer]) > 1
      /\ requests' = [requests EXCEPT ![peer] = <<>>]
      /\ answers' = IF state[peer] = "gone" THEN answers
                    ELSE [answers EXCEPT ![peer] = Append(answers[peer], TRUE)]
      /\ fate' = [fate EXCEPT ![peer] = "answered"]
      /\ closed' = [closed EXCEPT ![peer] = TRUE]
      /\ peer' = NoClient
      /\ UNCHANGED <<up, leaked, reply, backlog, reset, state, heard, split, mishaps>>
  BY DEF ReceiveTooLong, history
<1>2. /\ requests \in [Client -> Seq(Request)] /\ answers \in [Client -> Seq(BOOLEAN)]
      /\ closed \in [Client -> BOOLEAN]
      /\ fate \in [Client -> {"none", "sent", "taken", "answered", "silent", "swallowed"}]
      /\ state \in [Client -> {"new", "typing", "waiting", "gone"}]
  BY DEF TypeOK
<1>3. peer \in Client /\ peer # NoClient /\ reply.left = 0 /\ up
  BY <1>1 DEF TypeOK, Receiving
<1>4. peer \in split
  <2> SUFFICES ASSUME peer \notin split
               PROVE  FALSE
    OBVIOUS
  <2>1. Load(peer) <= Quota(peer) /\ Quota(peer) \in 0 .. 1
    BY <1>3 DEF StopAndWait, Apace, Quota
  <2>2. Len(requests[peer]) <= Load(peer) /\ Load(peer) \in Nat /\ Len(requests[peer]) \in Nat
    BY <1>3, LoadFacts
  <2> QED
    BY <1>1, <2>1, <2>2
<1>5. TypeOK'
  <2>1. requests' \in [Client -> Seq(Request)]
    BY <1>1, <1>2, EmptySeq
  <2>2. answers' \in [Client -> Seq(BOOLEAN)]
    <3>1. Append(answers[peer], TRUE) \in Seq(BOOLEAN)
      BY <1>2, <1>3, AppendProperties
    <3> QED
      BY <1>1, <1>2, <3>1
  <2>3. /\ closed' \in [Client -> BOOLEAN]
        /\ fate' \in [Client -> {"none", "sent", "taken", "answered", "silent", "swallowed"}]
    BY <1>1, <1>2
  <2> QED
    BY <1>1, <2>1, <2>2, <2>3 DEF TypeOK
<1>6. ConnectionInv'
  <2>1. \A k \in DOMAIN backlog : backlog[k] \in Client
    BY DEF TypeOK
  <2> QED
    BY <1>1, <1>2, <1>3, <2>1, ClientServerAssumption DEF ConnectionInv
<1>7. ZeroInv'
  <2>1. DOMAIN requests'[peer] = {}
    BY <1>1, <1>2, <1>3
  <2> QED
    BY <1>1, <1>2, <2>1 DEF ZeroInv
<1>8. StopAndWait'
  <2> SUFFICES ASSUME NEW d \in Client, d \notin split
               PROVE  Apace(d)'
    BY <1>1 DEF StopAndWait
  <2>1. Apace(d) /\ d # peer
    BY <1>4 DEF StopAndWait
  <2>2. /\ requests'[d] = requests[d] /\ answers'[d] = answers[d] /\ ~closed'[d]
        /\ peer' # d /\ heard'[d] # "stale"
    BY <1>1, <1>2, <2>1, ClientServerAssumption DEF Apace
  <2>3. Quota(d) <= Quota(d)'
    BY <1>1 DEF Quota
  <2> QED
    BY <2>1, <2>2, <2>3, ApaceKept
<1>9. FateInv'
  <2>1. closed'[peer]
    BY <1>1, <1>2, <1>3
  <2>2. \A d \in Client \ {peer} : /\ fate'[d] = fate[d] /\ requests'[d] = requests[d]
                                  /\ answers'[d] = answers[d] /\ closed'[d] = closed[d]
    BY <1>1, <1>2
  <2>3. FateInv /\ up' = up /\ state' = state /\ split' = split
    BY <1>1
  <2> HIDE DEF IInv
  <2>4. ASSUME NEW d \in Client, state'[d] = "waiting", up', ~closed'[d]
        PROVE  /\ d # peer /\ fate'[d] # "none" /\ fate'[d] # "taken"
               /\ fate'[d] = "sent" => requests'[d] # <<>>
               /\ fate'[d] = "answered" => answers'[d] # <<>>
               /\ fate'[d] = "swallowed" => d \in split'
    BY <2>1, <2>2, <2>3, <2>4 DEF FateInv
  <2> QED
    BY <2>4 DEF FateInv
<1>10. ResetInv'
  BY <1>1 DEF ResetInv
<1>11. EndsOnlyByMishap'
  BY <1>1 DEF EndsOnlyByMishap
<1> QED
  BY <1>5, <1>6, <1>7, <1>8, <1>9, <1>10, <1>11

LEMMA SendStep ==
    ASSUME IInv, Send
    PROVE  IInv'
<1> USE DEF IInv
<1>1. /\ up /\ peer # NoClient /\ reply.left > 0
      /\ reply' = IF reply.left = 1 THEN NoReply ELSE [reply EXCEPT !.left = reply.left - 1]
      /\ fate' = IF reply.fresh THEN [fate EXCEPT ![peer] = "answered"] ELSE fate
      /\ UNCHANGED <<up, peer, leaked, backlog, requests, closed, state, heard, split, mishaps>>
  BY DEF Send, history
<1>2. /\ requests \in [Client -> Seq(Request)] /\ answers \in [Client -> Seq(BOOLEAN)]
      /\ fate \in [Client -> {"none", "sent", "taken", "answered", "silent", "swallowed"}]
      /\ state \in [Client -> {"new", "typing", "waiting", "gone"}]
      /\ reset \in [Client -> BOOLEAN]
      /\ reply \in [fresh : BOOLEAN, left : 0 .. MaxPieces + 1]
      /\ peer \in Client
  BY <1>1 DEF TypeOK
<1>3. /\ reply' \in [fresh : BOOLEAN, left : 0 .. MaxPieces + 1]
      /\ reply'.left = reply.left - 1
      /\ reply'.left > 0 => reply'.fresh = reply.fresh
  <2>1. CASE reply.left = 1
    <3>1. reply' = [fresh |-> FALSE, left |-> 0]
      BY <1>1, <2>1 DEF NoReply
    <3> QED
      BY <2>1, <3>1, ClientServerAssumption
  <2>2. CASE reply.left # 1
    <3>1. reply' = [reply EXCEPT !.left = reply.left - 1]
      BY <1>1, <2>2
    <3>2. reply.left - 1 \in 0 .. MaxPieces + 1
      BY <1>1, <1>2, ClientServerAssumption
    <3> QED
      BY <1>2, <3>1, <3>2
  <2> QED
    BY <2>1, <2>2
<1>4. \/ state[peer] = "gone" /\ reset' = [reset EXCEPT ![peer] = TRUE] /\ answers' = answers
      \/ /\ state[peer] # "gone" /\ reset' = reset
         /\ answers' = [answers EXCEPT ![peer] = Append(answers[peer], reply.fresh)]
  BY DEF Send
<1>5. /\ Append(answers[peer], reply.fresh) \in Seq(BOOLEAN)
      /\ Len(Append(answers[peer], reply.fresh)) = Len(answers[peer]) + 1
      /\ Append(answers[peer], reply.fresh) # <<>>
      /\ \A k \in 1 .. Len(answers[peer]) :
             Append(answers[peer], reply.fresh)[k] = answers[peer][k]
      /\ Append(answers[peer], reply.fresh)[Len(answers[peer]) + 1] = reply.fresh
  <2> DEFINE a == answers[peer]
             f == reply.fresh
  <2>1. a \in Seq(BOOLEAN) /\ f \in BOOLEAN
    BY <1>2
  <2> HIDE DEF a, f, IInv
  <2>2. /\ Append(a, f) \in Seq(BOOLEAN)
        /\ Append(a, f) # <<>>
        /\ Len(Append(a, f)) = Len(a) + 1
        /\ \A k \in 1 .. Len(a) : Append(a, f)[k] = a[k]
        /\ Append(a, f)[Len(a) + 1] = f
    BY <2>1, AppendProperties, Zenon
  <2> QED
    BY <2>2 DEF a, f
<1>6. TypeOK'
  <2>1. answers' \in [Client -> Seq(BOOLEAN)] /\ reset' \in [Client -> BOOLEAN]
    <3> DEFINE x == Append(answers[peer], reply.fresh)
    <3>1. x \in Seq(BOOLEAN)
      BY <1>5
    <3> HIDE DEF x, IInv
    <3>2. CASE state[peer] = "gone"
      BY <1>2, <1>4, <3>2
    <3>3. CASE state[peer] # "gone"
      <4>1. answers' = [answers EXCEPT ![peer] = x] /\ reset' = reset
        BY <1>4, <3>3 DEF x
      <4> QED
        BY <1>2, <3>1, <4>1
    <3> QED
      BY <3>2, <3>3
  <2>2. fate' \in [Client -> {"none", "sent", "taken", "answered", "silent", "swallowed"}]
    BY <1>1, <1>2
  <2> QED
    BY <1>1, <1>3, <2>1, <2>2 DEF TypeOK
<1>7. ConnectionInv'
  BY <1>1 DEF ConnectionInv
<1>8. peer \notin split => Load(peer) <= Quota(peer) /\ reply.fresh
  BY <1>1, <1>2 DEF StopAndWait, Apace
<1>9. StopAndWait'
  <2> SUFFICES ASSUME NEW d \in Client, d \notin split
               PROVE  Apace(d)'
    BY <1>1 DEF StopAndWait
  <2>a. Apace(d) /\ Quota(d)' = Quota(d)
    BY <1>1 DEF StopAndWait, Quota
  <2>b. CASE d # peer
    <3>1. requests'[d] = requests[d] /\ answers'[d] = answers[d] /\ peer' # d
          /\ heard'[d] # "stale" /\ ~closed'[d] /\ Quota(d) <= Quota(d)'
      BY <1>1, <1>2, <1>4, <2>a, <2>b DEF Apace, Quota
    <3> QED
      BY <2>a, <3>1, ApaceKept
  <2>c. CASE d = peer
    <3>1. reply'.left > 0 => reply'.fresh
      BY <1>3, <1>8, <2>c, Zenon
    <3>2. Load(peer)' <= Quota(peer)'
      <4> DEFINE m == Len(answers[peer])
                 k == Len(requests[peer])
                 l == reply.left
      <4>1. m \in Nat /\ k \in Nat /\ l \in Nat
        BY <1>2, LoadFacts
      <4>2. Load(peer) = k + m + l
        BY DEF Load
      <4>3. Load(peer)' = k + m + (l - 1) \/ Load(peer)' = k + (m + 1) + (l - 1)
        <5>1. Load(peer)' = Len(requests[peer]) + Len(answers'[peer]) + reply'.left
          BY <1>1 DEF Load
        <5>2. Len(answers'[peer]) = m \/ Len(answers'[peer]) = m + 1
          BY <1>2, <1>4, <1>5
        <5> QED
          BY <1>3, <5>1, <5>2
      <4>4. Quota(peer)' = Quota(peer) /\ Quota(peer) \in 0 .. 1 /\ Load(peer) <= Quota(peer)
        <5>1. Quota(peer)' = Quota(peer) /\ Quota(peer) \in 0 .. 1
          BY <1>1 DEF Quota
        <5> QED
          BY <2>a, <2>c, <5>1 DEF Apace
      <4> HIDE DEF m, k, l
      <4> QED
        BY <4>1, <4>2, <4>3, <4>4
    <3>3. \A k \in DOMAIN answers'[peer] : answers'[peer][k]
      <4>1. CASE answers' = answers
        BY <2>a, <2>c, <4>1 DEF Apace
      <4>2. CASE answers' = [answers EXCEPT ![peer] = Append(answers[peer], reply.fresh)]
        <5> DEFINE q == Append(answers[peer], reply.fresh)
        <5>1. answers'[peer] = q
          BY <1>2, <4>2
        <5>2. DOMAIN q = 1 .. Len(answers[peer]) + 1
              /\ DOMAIN answers[peer] = 1 .. Len(answers[peer]) /\ Len(answers[peer]) \in Nat
          BY <1>2, <1>5
        <5>3. \A k \in 1 .. Len(answers[peer]) : q[k]
          BY <1>5, <2>a, <2>c, <5>2 DEF Apace
        <5>4. q[Len(answers[peer]) + 1]
          BY <1>5, <1>8, <2>c
        <5> HIDE DEF q
        <5> QED
          BY <5>1, <5>2, <5>3, <5>4
      <4> QED
        BY <1>4, <4>1, <4>2
    <3> QED
      BY <1>1, <2>a, <2>c, <3>1, <3>2, <3>3 DEF Apace
  <2> QED
    BY <2>b, <2>c
<1>10. FateInv'
  <2>1. CASE reply.fresh
    <3>1. fate'[peer] = "answered" /\ \A d \in Client \ {peer} : fate'[d] = fate[d]
      BY <1>1, <1>2, <2>1
    <3>2. state[peer] # "gone" => answers'[peer] # <<>>
      BY <1>2, <1>4, <1>5
    <3>3. \A d \in Client \ {peer} : answers'[d] = answers[d]
      BY <1>2, <1>4
    <3> QED
      BY <1>1, <1>2, <3>1, <3>2, <3>3 DEF FateInv
  <2>2. CASE ~reply.fresh
    <3>1. fate' = fate
      BY <1>1, <2>2
    <3>2. \A d \in Client : answers[d] # <<>> => answers'[d] # <<>>
      BY <1>2, <1>4, <1>5
    <3>3. \A d \in Client : state[d] = "waiting" /\ up /\ ~closed[d] => fate[d] # "taken"
      BY <2>2 DEF FateInv
    <3> QED
      BY <1>1, <3>1, <3>2, <3>3 DEF FateInv
  <2> QED
    BY <2>1, <2>2
<1>11. ResetInv'
  <2>1. CASE state[peer] # "gone"
    BY <1>1, <1>4, <2>1 DEF ResetInv
  <2>2. CASE state[peer] = "gone"
    <3>1. "killed" \in mishaps \/ peer \in split
      <4> SUFFICES ASSUME peer \notin split, "killed" \notin mishaps
                   PROVE  FALSE
        OBVIOUS
      <4>1. Load(peer) <= 0
        BY <1>8, <2>2 DEF Quota
      <4>2. reply.left + Len(requests[peer]) <= Load(peer) /\ Load(peer) \in Nat
            /\ Len(requests[peer]) \in Nat /\ reply.left \in Nat /\ reply.left > 0
        BY <1>1, <1>2, LoadFacts
      <4> DEFINE l == reply.left
                 k == Len(requests[peer])
                 t == Load(peer)
      <4>3. l + k <= t /\ t \in Nat /\ k \in Nat /\ l \in Nat /\ l > 0 /\ t <= 0
        BY <4>1, <4>2
      <4> HIDE DEF l, k, t
      <4> QED
        BY <4>3
    <3> QED
      BY <1>1, <1>2, <1>4, <3>1 DEF ResetInv
  <2> QED
    BY <2>1, <2>2
<1> QED
  BY <1>1, <1>6, <1>7, <1>9, <1>10, <1>11 DEF ZeroInv, EndsOnlyByMishap

\* The process goes away: after a mishap, and with nothing but its own state.
LEMMA ServerGoneStep ==
    ASSUME IInv, ServerGone, answers' = answers,
           mishaps' = mishaps \/ mishaps' = mishaps \cup {"refused"},
           mishaps' \cap {"refused", "killed"} # {} \/ split # {}
    PROVE  IInv'
<1> USE DEF IInv
<1>1. /\ up' = FALSE /\ peer' = NoClient /\ leaked' = 0 /\ reply' = NoReply /\ backlog' = <<>>
      /\ requests' = [c \in Client |-> <<>>]
      /\ UNCHANGED <<closed, reset, state, fate, heard, split>>
  BY DEF ServerGone
<1>2. /\ mishaps \subseteq mishaps'
      /\ "killed" \in mishaps' <=> "killed" \in mishaps
  OBVIOUS
<1>3. TypeOK'
  <2>1. requests' \in [Client -> Seq(Request)] /\ backlog' \in Seq(Client)
    BY <1>1, EmptySeq
  <2>2. leaked' \in 0 .. MaxFds /\ reply' \in [fresh : BOOLEAN, left : 0 .. MaxPieces + 1]
    BY <1>1, ClientServerAssumption DEF NoReply
  <2>3. mishaps' \subseteq {"killed", "refused", "stopped"} /\ split' \subseteq Client
    BY <1>1 DEF TypeOK
  <2> QED
    BY <1>1, <2>1, <2>2, <2>3 DEF TypeOK
<1>4. ConnectionInv'
  BY <1>1 DEF ConnectionInv, NoReply
<1>5. ZeroInv'
  BY <1>1 DEF ZeroInv
<1>6. StopAndWait'
  <2> SUFFICES ASSUME NEW c \in Client, c \notin split
               PROVE  Apace(c)'
    BY <1>1 DEF StopAndWait
  <2>1. Apace(c) /\ Quota(c) <= Quota(c)'
    BY <1>1, <1>2 DEF StopAndWait, Quota
  <2>2. /\ requests'[c] = <<>> /\ peer' # c
        /\ heard'[c] # "stale" /\ ~closed'[c]
    BY <1>1, <2>1, ClientServerAssumption DEF Apace
  <2> QED
    BY <2>1, <2>2, ApaceKept
<1>7. FateInv' /\ ResetInv' /\ EndsOnlyByMishap'
  BY <1>1, <1>2 DEF FateInv, ResetInv, EndsOnlyByMishap
<1> QED
  BY <1>3, <1>4, <1>5, <1>6, <1>7

LEMMA EndsStep ==
    ASSUME IInv, Ends
    PROVE  IInv'
<1>1. Receiving /\ requests[peer] # <<>> /\ Line.text \in Final /\ ServerGone
  BY DEF Ends
<1>2. peer \in Client /\ 1 \in DOMAIN requests[peer] /\ Line = requests[peer][1]
  BY <1>1, LineFacts
<1>3. Line.text.end = "zero"
  BY <1>2 DEF IInv, ZeroInv
<1>4. Line.text.word = "rm"
  BY <1>1, <1>3 DEF Final, Wire
<1>5. answers' = answers /\ mishaps' = mishaps \cup {"refused"}
  BY <1>4 DEF Ends
<1> QED
  BY <1>1, <1>5, ServerGoneStep

LEMMA FailsStep ==
    ASSUME IInv, SendFails \/ ReceiveFails
    PROVE  IInv'
<1>1. ServerGone /\ answers' = answers /\ mishaps' = mishaps /\ reset[peer] /\ peer # NoClient
  BY DEF SendFails, ReceiveFails, Receiving
<1>2. "killed" \in mishaps \/ split # {}
  BY <1>1 DEF IInv, TypeOK, ResetInv
<1> QED
  BY <1>1, <1>2, ServerGoneStep

LEMMA ReceiveEndStep ==
    ASSUME IInv, ReceiveEnd
    PROVE  IInv'
<1> USE DEF IInv
<1>1. /\ up /\ peer # NoClient /\ reply.left = 0 /\ state[peer] = "gone"
      /\ peer' = NoClient /\ leaked' = leaked + 1
      /\ UNCHANGED <<up, reply, netVars, state, fate, heard, split, mishaps>>
  BY DEF ReceiveEnd, Receiving, history
<1>2. leaked < MaxFds
  BY <1>1 DEF ConnectionInv
<1>3. TypeOK'
  <2>1. leaked' \in 0 .. MaxFds
    BY <1>1, <1>2, ClientServerAssumption DEF TypeOK
  <2> QED
    BY <1>1, <2>1 DEF TypeOK, netVars
<1>4. ConnectionInv'
  <2>1. \A k \in DOMAIN backlog : backlog[k] \in Client
    BY DEF TypeOK
  <2> QED
    BY <1>1, <2>1, ClientServerAssumption DEF ConnectionInv, netVars
<1>5. StopAndWait'
  <2> SUFFICES ASSUME NEW c \in Client, c \notin split
               PROVE  Apace(c)'
    BY <1>1 DEF StopAndWait
  <2>1. Apace(c) /\ Quota(c) <= Quota(c)'
    BY <1>1 DEF StopAndWait, Quota
  <2> QED
    BY <1>1, <2>1, ApaceKept DEF Apace, netVars
<1>6. FateInv'
  BY <1>1 DEF FateInv, netVars
<1> QED
  BY <1>1, <1>3, <1>4, <1>5, <1>6 DEF ZeroInv, ResetInv, EndsOnlyByMishap, netVars

LEMMA Stutter == ASSUME IInv, UNCHANGED vars PROVE IInv'
<1>1. UNCHANGED <<serverVars, netVars, state, fate, heard, split, mishaps>>
  BY DEF vars, history
<1> QED
  BY <1>1 DEF IInv, TypeOK, ConnectionInv, ZeroInv, StopAndWait, Apace, FateInv, ResetInv,
              EndsOnlyByMishap, Load, Quota, serverVars, netVars

LEMMA NextIInv == ASSUME IInv, [Next]_vars PROVE IInv'
<1>1. ASSUME NEW c \in Client,
             Connect(c) \/ (\E word \in Typed : Write(c, word)) \/ WriteInVain(c)
               \/ Read(c) \/ ReadNothing(c) \/ Exit(c) \/ Kill(c)
      PROVE  IInv'
  BY <1>1, ConnectStep, WriteStep, WriteInVainStep, ReadStep, ReadNothingStep, CloseStep
<1>2. ASSUME Serve PROVE IInv'
  BY <1>2, ReceiveStep, ReceiveTooLongStep, EndsStep, SendStep, FailsStep, ReceiveEndStep DEF Serve
<1> QED
  BY <1>1, <1>2, AcceptStep, Stutter DEF Next

-----------------------------------------------------------------------------
(* The theorems.                                                           *)

LEMMA Invariance == Spec => []IInv
<1>1. Init => IInv
  BY InitIInv
<1>2. IInv /\ [Next]_vars => IInv'
  BY NextIInv
<1> QED
  BY <1>1, <1>2, PTL DEF Spec

\* Every reachable state is well typed; in particular the server never loses
\* more descriptors than it has, and no request is answered with more texts than
\* an error and a whole content.
THEOREM TypeCorrect == Spec => []TypeOK
<1>1. IInv => TypeOK
  BY DEF IInv
<1> QED
  BY <1>1, Invariance, PTL

\* Server and client wait for each other in recv and read only after a request
\* that was answered with nothing, or one lost behind another after an answer of
\* several texts to the same client, and in send and write only after such an
\* answer.
THEOREM NoOtherDeadlock == Spec => []WaitsOnlyForSilence
<1>1. IInv => WaitsOnlyForSilence
  <2>a. ASSUME IInv, NEW c \in Client, BothRead(c)
        PROVE  fate[c] = "silent" \/ (fate[c] = "swallowed" /\ c \in split)
    <3>1. /\ peer = c /\ up /\ reply.left = 0 /\ requests[c] = <<>>
          /\ state[c] = "waiting" /\ answers[c] = <<>>
      BY <2>a DEF BothRead, Receiving
    <3>2. ~closed[c]
      BY <2>a, <3>1, ClientServerAssumption DEF IInv, ConnectionInv
    <3>3. fate[c] \notin {"none", "sent", "taken", "answered"}
          /\ (fate[c] = "swallowed" => c \in split)
      BY <2>a, <3>1, <3>2 DEF IInv, FateInv
    <3>4. fate[c] \in {"none", "sent", "taken", "answered", "silent", "swallowed"}
      BY <2>a DEF IInv, TypeOK
    <3> QED
      BY <3>3, <3>4
  <2>b. ASSUME IInv, NEW c \in Client, BothWrite(c)
        PROVE  c \in split
    <3> SUFFICES ASSUME c \notin split PROVE FALSE
      OBVIOUS
    <3>1. /\ peer = c /\ reply.left > 0 /\ Len(requests[c]) = Room
          /\ state[c] = "typing" /\ Room \in Nat \ {0}
      BY <2>b, ClientServerAssumption DEF BothWrite
    <3>2. Load(c) <= 0
      BY <2>b, <3>1 DEF IInv, StopAndWait, Apace, Quota
    <3>3. Len(requests[c]) <= Load(c) /\ Load(c) \in Nat
      BY <2>b, LoadFacts DEF IInv
    <3> QED
      BY <3>1, <3>2, <3>3
  <2> QED
    BY <2>a, <2>b DEF WaitsOnlyForSilence
<1> QED
  BY <1>1, Invariance, PTL

\* What a client prints is the answer to its last line, unless it was sent
\* several texts for one request, whatever was sent to others.
THEOREM AnswersInStep == Spec => []InStep
<1>1. IInv => InStep
  BY DEF IInv, StopAndWait, Apace, InStep
<1> QED
  BY <1>1, Invariance, PTL

\* The server ends only by an rm that fails, or after a client was killed or
\* sent several texts for one request: never by stop, whatever is typed.
THEOREM StopsOnlyByMishap == Spec => []EndsOnlyByMishap
<1>1. IInv => EndsOnlyByMishap
  BY DEF IInv
<1> QED
  BY <1>1, Invariance, PTL
=============================================================================
