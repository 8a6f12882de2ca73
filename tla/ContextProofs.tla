---------------------------- MODULE ContextProofs ----------------------------
(***************************************************************************)
(* Theorems about Context, for any claims, tasks, worlds, messages and     *)
(* bounds: what evidence and claims say and retract, what a packet keeps   *)
(* within its budget, and which lines the server answers.                  *)
(***************************************************************************)
EXTENDS Context, OrderLemmas, FiniteSetTheorems

-----------------------------------------------------------------------------
(* The parts *)

\* One part is at work: its steps are steps of the whole.
LEMMA StepsOfParts ==
    ASSUME [AllNext]_allVars
    PROVE  /\ [DerivationNext]_derivationVars
           /\ [ContextNext]_contextVars
           /\ [ServerNext]_serverVars
<1>1. CASE AllNext
    <2>1. CASE serving = "hooks"
        BY <1>1, <2>1 DEF AllNext, Still, Parts
    <2>2. CASE serving = "evidence"
        BY <1>1, <2>2 DEF AllNext, Still, Parts
    <2>3. CASE serving = "task"
        BY <1>1, <2>3 DEF AllNext, Still, Parts
    <2>4. CASE serving = "server"
        BY <1>1, <2>4 DEF AllNext, Still, Parts
    <2> QED BY <1>1, <2>1, <2>2, <2>3, <2>4 DEF AllNext
<1>2. CASE UNCHANGED allVars
    BY <1>2 DEF allVars
<1> QED BY <1>1, <1>2

-----------------------------------------------------------------------------
(* Sequences of sequences, and prefixes *)

\* What FlattenSeq computes, element by element.
IsFlat(f, q, n) == f = [i \in 1..n |-> IF i = 1 THEN q[i] ELSE f[i - 1] \o q[i]]

LEMMA FlatExists ==
    ASSUME NEW q, NEW n \in Nat
    PROVE  \E f : IsFlat(f, q, n)
<1> DEFINE B == {m \in Nat : ~\E f : IsFlat(f, q, m)}
<1>1. ASSUME B # {} PROVE FALSE
    <2>1. PICK m \in B : \A k \in B : m <= k
        BY <1>1, LeastExists
    <2>2. ~\E f : IsFlat(f, q, m)
        BY <2>1
    <2>3. CASE m = 0
        <3> DEFINE f == [i \in 1..0 |-> <<>>]
        <3>1. f = [i \in 1..0 |-> IF i = 1 THEN q[i] ELSE f[i - 1] \o q[i]]
            OBVIOUS
        <3>2. IsFlat(f, q, 0)
            BY <3>1 DEF IsFlat
        <3> QED BY <2>2, <2>3, <3>2
    <2>4. CASE m # 0
        <3>1. m \in Nat /\ m - 1 \in Nat /\ m - 1 \notin B
            BY <2>1, <2>4
        <3>2. PICK f : IsFlat(f, q, m - 1)
            BY <3>1
        <3> DEFINE last == IF m = 1 THEN q[m] ELSE f[m - 1] \o q[m]
                   g == [i \in 1..m |-> IF i = m THEN last ELSE f[i]]
        <3>3. \A i \in 1..(m - 1) : f[i] = IF i = 1 THEN q[i] ELSE f[i - 1] \o q[i]
            BY <3>2 DEF IsFlat
        <3>4. /\ \A i \in 1..(m - 1) : i \in 1..m /\ i # m
              /\ m \in 1..m
              /\ \A i \in 1..m : i # 1 => i - 1 \in 1..(m - 1) /\ i - 1 # m /\ i - 1 \in 1..m
              /\ \A i \in 1..m : i # m => i \in 1..(m - 1)
            BY <2>4, <3>1
        <3>5. /\ \A i \in 1..(m - 1) : g[i] = f[i]
              /\ g[m] = last
            BY <3>4
        <3>6. ASSUME NEW i \in 1..m
              PROVE  g[i] = IF i = 1 THEN q[i] ELSE g[i - 1] \o q[i]
            <4> HIDE DEF g
            <4>1. i # 1 => g[i - 1] = f[i - 1]
                BY <3>4, <3>5
            <4>2. CASE i = m
                BY <3>5, <4>1, <4>2
            <4>3. CASE i # m
                <5>1. i \in 1..(m - 1)
                    BY <3>4, <4>3
                <5>2. g[i] = f[i]
                    BY <3>5, <5>1
                <5> QED BY <3>3, <4>1, <5>1, <5>2
            <4> QED BY <4>2, <4>3
        <3>7. g = [i \in 1..m |-> g[i]]
            OBVIOUS
        <3> HIDE DEF g
        <3>8. IsFlat(g, q, m)
            <4>1. [i \in 1..m |-> g[i]] = [i \in 1..m |-> IF i = 1 THEN q[i] ELSE g[i - 1] \o q[i]]
                BY <3>6
            <4> QED BY <3>7, <4>1 DEF IsFlat
        <3> QED BY <2>2, <3>8
    <2> QED BY <2>3, <2>4
<1> QED BY <1>1

LEMMA FlattenIsFlat ==
    ASSUME NEW q, NEW n \in Nat, Len(q) = n, n > 0
    PROVE  \E f : IsFlat(f, q, n) /\ FlattenSeq(q) = f[n]
<1> DEFINE f == CHOOSE g : IsFlat(g, q, n)
<1>1. IsFlat(f, q, n)
    BY FlatExists
<1>2. FlattenSeq(q) = f[n]
    <2>1. Len(q) # 0
        OBVIOUS
    <2> QED BY Zenon, <2>1 DEF FlattenSeq, IsFlat
<1> QED BY <1>1, <1>2

\* A sequence more is a sequence at the end.
OneMore(r, q, n, T) ==
    /\ n \in Nat /\ Len(q) = n + 1 /\ Len(r) = n
    /\ \A i \in 1..(n + 1) : q[i] \in Seq(T)
    /\ \A i \in 1..n : q[i] = r[i]
    /\ n = 0 => r = <<>>

LEMMA FlattenLast ==
    ASSUME NEW T, NEW n, NEW q, NEW r, OneMore(r, q, n, T)
    PROVE  FlattenSeq(q) = FlattenSeq(r) \o q[n + 1]
<1>0. /\ n \in Nat /\ Len(q) = n + 1 /\ Len(r) = n
      /\ \A i \in 1..(n + 1) : q[i] \in Seq(T)
      /\ \A i \in 1..n : q[i] = r[i]
      /\ n = 0 => r = <<>>
    BY DEF OneMore
<1> USE <1>0
<1>1. PICK f : IsFlat(f, q, n + 1) /\ FlattenSeq(q) = f[n + 1]
    BY FlattenIsFlat
<1>2. f[n + 1] = IF n + 1 = 1 THEN q[n + 1] ELSE f[n] \o q[n + 1]
    <2>1. n + 1 \in 1..(n + 1) /\ (n + 1) - 1 = n
        OBVIOUS
    <2>2. f[n + 1] = IF n + 1 = 1 THEN q[n + 1] ELSE f[(n + 1) - 1] \o q[n + 1]
        BY <1>1, <2>1 DEF IsFlat
    <2> QED BY <2>1, <2>2
<1>3. CASE n = 0
    <2>1. FlattenSeq(r) = <<>>
        BY Zenon, <1>3 DEF FlattenSeq
    <2>2. q[1] \in Seq(T)
        BY <1>3
    <2>3. <<>> \o q[1] = q[1]
        BY <2>2, ConcatEmptySeq
    <2> QED BY <1>1, <1>2, <1>3, <2>1, <2>3
<1>4. CASE n # 0
    <2>1. PICK g : IsFlat(g, r, n) /\ FlattenSeq(r) = g[n]
        BY <1>4, FlattenIsFlat
    <2>2. n + 1 \in Nat /\ n <= n + 1 /\ n + 1 # 1 /\ n \in 1..n
        BY <1>4
    <2>3. IsFlat(f, q, n + 1)
        BY <1>1
    <2> DEFINE B == {i \in 1..n : f[i] # g[i]}
    <2>4. ASSUME B # {} PROVE FALSE
        <3>1. PICK k \in B : \A j \in B : k <= j
            <4>1. B \subseteq Nat
                OBVIOUS
            <4> HIDE DEF B
            <4> QED BY <2>4, <4>1, LeastExists
        <3>2. k \in 1..n /\ f[k] # g[k] /\ k \in 1..(n + 1)
            BY <3>1
        <3>3. k # 1 => k - 1 \in 1..n /\ k - 1 \notin B
            BY <3>1, <3>2
        <3>4. k # 1 => f[k - 1] = g[k - 1]
            BY <3>3
        <3>5. /\ f[k] = IF k = 1 THEN q[k] ELSE f[k - 1] \o q[k]
              /\ g[k] = IF k = 1 THEN r[k] ELSE g[k - 1] \o r[k]
            BY <2>1, <2>3, <3>2 DEF IsFlat
        <3> QED BY <3>2, <3>4, <3>5
    <2>5. f[n] = g[n]
        BY <2>2, <2>4
    <2> QED BY <1>1, <1>2, <2>1, <2>2, <2>5, Zenon
<1> QED BY <1>3, <1>4

LEMMA FlattenTypes ==
    ASSUME NEW T, NEW n \in Nat, NEW q \in Seq(Seq(T)), Len(q) = n
    PROVE  FlattenSeq(q) \in Seq(T)
<1>0. DOMAIN q = 1..n /\ \A i \in 1..n : q[i] \in Seq(T)
    BY LenProperties, ElementOfSeq
<1>1. CASE n = 0
    <2>1. q = <<>>
        BY <1>1, EmptySeq
    <2>2. FlattenSeq(q) = <<>>
        BY Zenon, <1>1, <2>1 DEF FlattenSeq
    <2> QED BY <2>2
<1>2. CASE n # 0
    <2>1. PICK f : IsFlat(f, q, n) /\ FlattenSeq(q) = f[n]
        BY <1>2, FlattenIsFlat
    <2> DEFINE B == {i \in 1..n : f[i] \notin Seq(T)}
    <2>2. ASSUME B # {} PROVE FALSE
        <3>1. PICK k \in B : \A j \in B : k <= j
            <4>1. B \subseteq Nat
                OBVIOUS
            <4> HIDE DEF B
            <4> QED BY <2>2, <4>1, LeastExists
        <3>2. k \in 1..n /\ f[k] \notin Seq(T)
            BY <3>1
        <3>3. k # 1 => k - 1 \in 1..n /\ k - 1 \notin B
            BY <3>1, <3>2
        <3>4. k # 1 => f[k - 1] \in Seq(T)
            BY <3>3
        <3>5. f[k] = IF k = 1 THEN q[k] ELSE f[k - 1] \o q[k]
            BY <2>1, <3>2 DEF IsFlat
        <3>6. q[k] \in Seq(T)
            BY <1>0, <3>2
        <3>7. k # 1 => f[k - 1] \o q[k] \in Seq(T)
            BY <3>4, <3>6, ConcatProperties
        <3> QED BY <3>2, <3>5, <3>6, <3>7
    <2>3. f[n] \in Seq(T)
        BY <1>2, <2>2
    <2> QED BY <2>1, <2>3
<1> QED BY <1>1, <1>2

LEMMA PrefixItself ==
    ASSUME NEW T, NEW s \in Seq(T)
    PROVE  IsPrefix(s, s)
BY LenProperties DEF IsPrefix

LEMMA PrefixConcat ==
    ASSUME NEW T, NEW s \in Seq(T), NEW u \in Seq(T)
    PROVE  IsPrefix(s, s \o u)
<1> DEFINE t == s \o u
           n == Len(s)
<1>1. t \in Seq(T) /\ n \in Nat /\ Len(u) \in Nat /\ Len(t) = n + Len(u)
      /\ \A i \in 1..n : t[i] = s[i] /\ s[i] \in T
    BY ConcatProperties, LenProperties, ElementOfSeq
<1> HIDE DEF t, n
<1>2. \A i \in 1..n : s[i] \in T /\ t[i] \in T
    BY <1>1
<1>3. /\ SubSeq(s, 1, n) \in Seq(T) /\ SubSeq(t, 1, n) \in Seq(T)
      /\ Len(SubSeq(s, 1, n)) = n /\ Len(SubSeq(t, 1, n)) = n
      /\ \A i \in 1..n : SubSeq(s, 1, n)[i] = s[i] /\ SubSeq(t, 1, n)[i] = t[i]
    <2>1. ASSUME NEW v, \A i \in 1..n : v[i] \in T
          PROVE  /\ SubSeq(v, 1, n) \in Seq(T) /\ Len(SubSeq(v, 1, n)) = n
                 /\ \A i \in 1..n : SubSeq(v, 1, n)[i] = v[i]
        <3>1. /\ SubSeq(v, 1, n) \in Seq(T)
              /\ Len(SubSeq(v, 1, n)) = IF 1 <= n THEN n - 1 + 1 ELSE 0
              /\ \A i \in 1..(n - 1 + 1) : SubSeq(v, 1, n)[i] = v[1 + i - 1]
            BY <1>1, <2>1, SubSeqProperties
        <3> HIDE DEF n
        <3>2. \A i \in 1..n : i \in 1..(n - 1 + 1) /\ 1 + i - 1 = i
            BY <1>1
        <3> QED BY <1>1, <3>1, <3>2
    <2> QED BY <1>2, <2>1
<1>4. \A i \in 1..n : SubSeq(s, 1, n)[i] = SubSeq(t, 1, n)[i]
    BY <1>1, <1>3
<1>5. SubSeq(s, 1, n) = SubSeq(t, 1, n)
    BY <1>3, <1>4, SeqEqual
<1> QED BY <1>1, <1>5 DEF IsPrefix, t, n

-----------------------------------------------------------------------------
(* The server: types *)

AnswerKinds ==
    {"too-large", "parse-error", "invalid-request", "invalid-params", "initialized", "pong",
     "not-initialized", "no-method", "tools", "result", "internal-error"}
LineRecords == [message : Messages \cup {Long}, length : Nat, ends : BOOLEAN]
AnswerRecords == [line : Nat, of : AnswerKinds]
StreamRecords == [at : Nat, pending : Seq(Nat), dropping : BOOLEAN]
SessionRecords ==
    [responded : BOOLEAN, initialized : BOOLEAN,
     pc : {"read", "drain", "invoke", "failed", "off"}]
ServerTypes ==
    /\ lines \in Seq(LineRecords) /\ answers \in Seq(AnswerRecords)
    /\ stream \in StreamRecords /\ session \in SessionRecords

\* What the server has of the line it reads is its beginning, unless it drops the line for
\* being too long; a request at the provider is the line read last.
StreamGood ==
    /\ stream.at > 0 => Reading > 0 /\ stream.at <= Current.length + 1
    /\ stream.at = 0 => stream.pending = <<>> /\ ~stream.dropping
    /\ stream.at > 0 /\ ~stream.dropping =>
          /\ Len(stream.pending) = stream.at - 1 /\ Len(stream.pending) <= LineLimit
          /\ \A i \in 1..Len(stream.pending) : stream.pending[i] = i
    /\ stream.dropping => Current.length > LineLimit
    /\ session.pc = "invoke" => Reading > 0 /\ stream.at = 0 /\ IsRequest(Message)

Utters(line, kind) == answers' = Append(answers, [line |-> line, of |-> kind])
Remembers ==
    session'.responded = session.responded /\ session'.initialized = session.initialized

LEMMA WrittenEffect ==
    ASSUME session \in SessionRecords, NEW line, NEW kind, Written(line, kind)
    PROVE  Utters(line, kind) /\ Remembers /\ session' \in SessionRecords
           /\ session'.pc \in {"read", "drain"}
<1>1. PICK full \in BOOLEAN : session' = [session EXCEPT !.pc = IF full THEN "drain" ELSE "read"]
    BY DEF Written
<1>2. (IF full THEN "drain" ELSE "read") \in {"read", "drain"}
    OBVIOUS
<1>3. PICK pc \in {"read", "drain"} : session' = [session EXCEPT !.pc = pc]
    BY <1>1, <1>2
<1>4. session' \in SessionRecords /\ session'.pc = pc
      /\ session'.responded = session.responded /\ session'.initialized = session.initialized
    BY <1>3 DEF SessionRecords
<1> QED BY <1>4 DEF Written, Utters, Remembers

-----------------------------------------------------------------------------
(* The server: what the end of a line leads to *)

\* A notification is heard, or a request is answered or left to the provider, as owed.
Heard ==
    /\ IsNotification(Message) /\ UNCHANGED answers
    /\ session'.responded = session.responded /\ session'.pc = "read"
    /\ session'.initialized =>
          session.initialized \/ (Message.method = "initialized" /\ session.responded)
Told(line, kind) ==
    /\ Utters(line, kind) /\ Remembers /\ session'.pc \in {"read", "drain"}
    /\ kind \in AnswerKinds \ {"initialized", "result", "internal-error"}
    /\ kind = "tools" => session.initialized /\ line = Reading /\ IsRequest(Message)
Shaken ==
    /\ Utters(Reading, "initialized") /\ IsRequest(Message)
    /\ ~session.responded /\ session'.responded /\ session'.initialized = session.initialized
    /\ session'.pc \in {"read", "drain"}
Invoked ==
    /\ session.initialized /\ IsRequest(Message) /\ session'.pc = "invoke"
    /\ Remembers /\ UNCHANGED answers

\* A line that is not dropped has its length, and its bytes.
LEMMA ParsedFacts ==
    ASSUME ServerTypes, StreamGood, AtEnd, ~stream.dropping
    PROVE  /\ Reading \in Nat /\ Reading > 0 /\ Current \in LineRecords
           /\ Current.length <= LineLimit
           /\ Parsed <=> Message.text
<1>1. /\ stream.at \in Nat /\ stream.at > 0 /\ stream.at > Current.length
      /\ Reading > 0 /\ stream.at <= Current.length + 1
      /\ Len(stream.pending) = stream.at - 1 /\ Len(stream.pending) <= LineLimit
      /\ \A i \in 1..Len(stream.pending) : stream.pending[i] = i
    BY DEF ServerTypes, StreamGood, AtEnd, StreamRecords
<1>2. Reading \in Nat /\ Current \in LineRecords
    <2>1. Len(lines) \in Nat
        BY LenProperties DEF ServerTypes
    <2>2. Reading \in 1..Len(lines)
        BY <1>1, <2>1 DEF Reading
    <2>3. lines[Reading] \in LineRecords
        BY <2>2, ElementOfSeq DEF ServerTypes
    <2> QED BY <2>1, <2>3 DEF Reading, Current
<1>3. Current.length \in Nat /\ Current.length = stream.at - 1
    BY <1>1, <1>2 DEF LineRecords
<1>4. stream.pending = [i \in 1..Current.length |-> i]
    <2> DEFINE n == Current.length
               s == stream.pending
               t == [i \in 1..n |-> i]
    <2>1. s \in Seq(Nat) /\ Len(s) = n
        BY <1>1, <1>3 DEF ServerTypes, StreamRecords
    <2>2. n \in Nat
        BY <1>3
    <2>3. \A i \in 1..n : s[i] = i
        BY <1>1, <1>3
    <2> HIDE DEF n, s
    <2>4. t \in Seq(Nat) /\ Len(t) = n
        BY <2>2
    <2>5. \A i \in 1..Len(s) : s[i] = t[i]
        BY <2>1, <2>3
    <2> HIDE DEF t
    <2>6. s = t
        BY <2>1, <2>4, <2>5, SeqEqual
    <2> QED BY <2>6 DEF n, s, t
<1>5. Parsed <=> Message.text
    BY <1>4 DEF Parsed
<1> QED BY <1>1, <1>2, <1>3, <1>5

LEMMA ProcessEffect ==
    ASSUME ServerTypes, StreamGood, AtEnd, ~stream.dropping, Process
    PROVE  /\ session' \in SessionRecords
           /\ \/ Owed(Reading) = <<>> /\ Heard
              \/ \E line \in {None, Reading}, kind \in AnswerKinds :
                    Owed(Reading) = <<line>> /\ Told(line, kind)
              \/ Owed(Reading) = <<Reading>> /\ Shaken
              \/ Owed(Reading) = <<Reading>> /\ Invoked
<1> DEFINE m == Message
           r == Reading
           Right(line, kind) == Owed(r) = <<line>> /\ Told(line, kind)
<1>1. /\ r \in Nat /\ r > 0 /\ Current \in LineRecords /\ Current.length \in Nat
      /\ Current.length <= LineLimit /\ (Parsed <=> m.text)
      /\ session \in SessionRecords /\ session.pc = "read"
    BY ParsedFacts DEF ServerTypes, LineRecords, AtEnd
<1>2. Owed(r) = IF ~m.text THEN <<None>>
                ELSE IF IsNotification(m) THEN <<>> ELSE <<ResponseId(m, r)>>
    <2>1. ~(lines[r].length > LineLimit) /\ lines[r].message = m
        BY <1>1, LineAssumption DEF Current, Message
    <2> QED BY <2>1 DEF Owed
<1>3. \A line, kind :
         /\ Written(line, kind) /\ Owed(r) = <<line>>
         /\ kind \in AnswerKinds \ {"initialized", "result", "internal-error"}
         /\ kind = "tools" => session.initialized /\ line = r /\ IsRequest(m)
         => Right(line, kind) /\ session' \in SessionRecords
    BY <1>1, WrittenEffect DEF Told
<1> HIDE DEF m, r
<1>4. CASE ~Parsed
    <2>1. Written(None, "parse-error")
        BY <1>4 DEF Process
    <2>2. Right(None, "parse-error") /\ session' \in SessionRecords
        BY <1>1, <1>2, <1>3, <1>4, <2>1 DEF AnswerKinds
    <2> QED BY <2>2 DEF AnswerKinds, r
<1>5. CASE Parsed /\ IsNotification(Message)
    <2>0. ~IsRequest(Message)
        BY <1>5 DEF IsNotification, IsRequest
    <2>1. Notification
        BY <1>5, <2>0 DEF Process
    <2>2. PICK b \in BOOLEAN : /\ session' = [session EXCEPT !.initialized = b]
                               /\ b => session.initialized
                                       \/ (Message.method = "initialized" /\ session.responded)
        <3>1. session.initialized \in BOOLEAN
            BY <1>1 DEF SessionRecords
        <3> DEFINE b == session.initialized \/ (Message.method = "initialized" /\ session.responded)
        <3>2. b \in BOOLEAN
            OBVIOUS
        <3>3. session' = [session EXCEPT !.initialized = b]
            BY <2>1 DEF Notification
        <3> QED BY Zenon, <3>2, <3>3
    <2>3. /\ session' \in SessionRecords /\ session'.responded = session.responded
          /\ session'.pc = "read" /\ session'.initialized = b
        BY <1>1, <2>2 DEF SessionRecords
    <2>4. UNCHANGED answers
        BY <2>1 DEF Notification
    <2>5. Owed(r) = <<>>
        BY <1>1, <1>2, <1>5 DEF m
    <2> QED BY <1>5, <2>2, <2>3, <2>4, <2>5 DEF Heard, r
<1>6. CASE Parsed /\ ~IsNotification(Message) /\ ~IsRequest(Message)
    <2>1. Written(ResponseId(Message, Reading), "invalid-request")
        BY <1>6 DEF Process
    <2>2. Owed(r) = <<ResponseId(m, r)>>
        BY <1>1, <1>2, <1>6 DEF m
    <2>3. Right(ResponseId(m, r), "invalid-request") /\ session' \in SessionRecords
        BY <1>3, <2>1, <2>2 DEF AnswerKinds, m, r
    <2>4. ResponseId(m, r) \in {None, Reading}
        BY DEF ResponseId, r
    <2> QED BY <2>3, <2>4 DEF AnswerKinds, r
<1>7. CASE Parsed /\ IsRequest(Message)
    <2>1. /\ ~IsNotification(m) /\ IsRequest(m) /\ ResponseId(m, r) = r
        BY <1>7 DEF IsNotification, IsRequest, ResponseId, m
    <2>2. Owed(r) = <<r>>
        BY <1>1, <1>2, <1>7, <2>1
    <2>3. \A kind \in AnswerKinds \ {"initialized", "result", "internal-error"} :
             Written(r, kind) /\ (kind = "tools" => session.initialized)
             => Right(r, kind) /\ session' \in SessionRecords
        BY <1>3, <2>1, <2>2
    <2> DEFINE Spoke == \E kind \in AnswerKinds \ {"initialized", "result", "internal-error"} :
                          Written(r, kind) /\ (kind = "tools" => session.initialized)
    <2>4. CASE Spoke
        <3>1. PICK kind \in AnswerKinds \ {"initialized", "result", "internal-error"} :
                 Written(r, kind) /\ (kind = "tools" => session.initialized)
            BY <2>4
        <3>2. Right(r, kind) /\ session' \in SessionRecords
            BY <2>3, <3>1
        <3> QED BY <3>2 DEF r
    <2>5. Spoke \/ Initialize \/ (session.initialized /\ Serviced)
        <3>1. \/ Message.method = "ping" /\ Written(Reading, "pong")
              \/ Message.method = "initialize" /\ Initialize
              \/ session.initialized /\ Serviced
              \/ Written(Reading, "not-initialized")
            BY <1>7, <2>1 DEF Process, m
        <3> QED BY <3>1 DEF AnswerKinds, r
    <2>6. CASE Initialize
        <3>1. CASE session.responded \/ ~Message.params
            <4>1. Written(r, "invalid-params")
                BY <2>6, <3>1 DEF Initialize, r
            <4>2. Spoke
                BY <4>1 DEF AnswerKinds
            <4> QED BY <2>4, <4>2
        <3>2. CASE ~(session.responded \/ ~Message.params)
            <4>1. PICK pc \in {"read", "drain"} :
                     session' = [session EXCEPT !.responded = TRUE, !.pc = pc]
                BY <2>6, <3>2 DEF Initialize
            <4>2. /\ session' \in SessionRecords /\ session'.responded
                  /\ session'.initialized = session.initialized /\ session'.pc = pc
                BY <1>1, <4>1 DEF SessionRecords
            <4>3. Utters(r, "initialized")
                BY <2>6, <3>2 DEF Initialize, Utters, r
            <4> QED BY <2>1, <2>2, <3>2, <4>2, <4>3 DEF Shaken, m, r
        <3> QED BY <3>1, <3>2
    <2>7. CASE session.initialized /\ Serviced
        <3>1. Spoke \/ (session' = [session EXCEPT !.pc = "invoke"] /\ UNCHANGED answers)
            <4>1. \/ Written(Reading, "no-method") \/ Written(Reading, "invalid-params")
                  \/ Written(Reading, "tools")
                  \/ session' = [session EXCEPT !.pc = "invoke"] /\ UNCHANGED answers
                BY <2>7 DEF Serviced
            <4> QED BY <2>7, <4>1 DEF AnswerKinds, r
        <3>2. CASE session' = [session EXCEPT !.pc = "invoke"] /\ UNCHANGED answers
            <4>1. /\ session' \in SessionRecords /\ session'.pc = "invoke" /\ Remembers
                BY <1>1, <3>2 DEF SessionRecords, Remembers
            <4> QED BY <2>1, <2>2, <2>7, <3>2, <4>1 DEF Invoked, m, r
        <3> QED BY <2>4, <3>1, <3>2
    <2> QED BY <2>4, <2>5, <2>6, <2>7
<1> QED BY <1>4, <1>5, <1>6, <1>7

-----------------------------------------------------------------------------
(* The server: types and the line it reads are kept *)

LEMMA ReadingFacts ==
    ASSUME ServerTypes
    PROVE  /\ Reading \in Nat /\ DOMAIN lines = 1..Reading
           /\ \A i \in 1..Reading : lines[i] \in LineRecords
           /\ Reading > 0 => Current \in LineRecords /\ Current.length \in Nat
                             /\ Message \in Messages \cup {Long}
           /\ stream.at \in Nat /\ stream.dropping \in BOOLEAN /\ stream.pending \in Seq(Nat)
<1>1. Reading \in Nat /\ DOMAIN lines = 1..Reading
    BY LenProperties DEF ServerTypes, Reading
<1>2. \A i \in 1..Reading : lines[i] \in LineRecords
    BY ElementOfSeq DEF ServerTypes, Reading
<1>3. ASSUME Reading > 0 PROVE Current \in LineRecords
    <2>1. Reading \in 1..Reading
        BY <1>1, <1>3
    <2> QED BY <1>2, <2>1 DEF Current
<1>4. \A l \in LineRecords : l.length \in Nat /\ l.message \in Messages \cup {Long}
    BY DEF LineRecords
<1> QED BY <1>1, <1>2, <1>3, <1>4 DEF ServerTypes, StreamRecords, Message

\* A line more.
Begins ==
    /\ session.pc = "read" /\ stream.at = 0
    /\ Reading' = Reading + 1 /\ \A i \in 1..Reading : lines'[i] = lines[i]
    /\ stream'.at = 1 /\ ~stream'.dropping /\ UNCHANGED <<session, answers>>

LEMMA SendEffect ==
    ASSUME ServerTypes, StreamGood, NEW message \in Messages \cup {Long}, NEW length \in Nat,
           NEW ends \in BOOLEAN, Send(message, length, ends)
    PROVE  ServerTypes' /\ StreamGood' /\ Begins
<1> DEFINE l == [message |-> message, length |-> length, ends |-> ends]
<1>1. /\ session.pc = "read" /\ stream.at = 0 /\ lines' = Append(lines, l)
      /\ stream' = [stream EXCEPT !.at = 1] /\ UNCHANGED <<session, answers>>
    BY DEF Send
<1>2. l \in LineRecords /\ l.length = length
    BY DEF LineRecords
<1> HIDE DEF l
<1>3. /\ lines' \in Seq(LineRecords) /\ Len(lines') = Len(lines) + 1
      /\ \A i \in 1..Len(lines) : lines'[i] = lines[i]
      /\ lines'[Len(lines) + 1] = l
    BY <1>1, <1>2, AppendProperties DEF ServerTypes
<1>4. /\ stream' \in StreamRecords /\ stream'.at = 1
      /\ stream'.pending = <<>> /\ ~stream'.dropping
    BY <1>1 DEF ServerTypes, StreamGood, StreamRecords
<1>5. /\ Reading' = Reading + 1 /\ Reading' > 0 /\ Current'.length \in Nat
    BY <1>2, <1>3, ReadingFacts DEF Reading, Current
<1>6. ServerTypes'
    BY <1>1, <1>3, <1>4 DEF ServerTypes
<1>7. StreamGood'
    <2>1. Len(stream'.pending) = 0 /\ 1..0 = {}
        BY <1>4
    <2>2. session'.pc # "invoke"
        BY <1>1
    <2> QED BY <1>4, <1>5, <2>1, <2>2, LineAssumption DEF StreamGood
<1>8. Begins
    BY <1>1, <1>3, <1>4, <1>5 DEF Begins, Reading
<1> QED BY <1>6, <1>7, <1>8

LEMMA StreamFields ==
    ASSUME stream \in StreamRecords, NEW at \in Nat, NEW pending \in Seq(Nat)
    PROVE  /\ LET s == [stream EXCEPT !.at = at]
              IN  s \in StreamRecords /\ s.at = at /\ s.pending = stream.pending
                  /\ s.dropping = stream.dropping
           /\ LET s == [stream EXCEPT !.at = at, !.pending = pending]
              IN  s \in StreamRecords /\ s.at = at /\ s.pending = pending
                  /\ s.dropping = stream.dropping
           /\ LET s == [stream EXCEPT !.at = at, !.pending = pending, !.dropping = TRUE]
              IN  s \in StreamRecords /\ s.at = at /\ s.pending = pending /\ s.dropping = TRUE
<1> DEFINE Lists == Seq(Nat)
           Records == [at : Nat, pending : Lists, dropping : BOOLEAN]
           one == [stream EXCEPT !.at = at]
           two == [one EXCEPT !.pending = pending]
           three == [two EXCEPT !.dropping = TRUE]
<1>1. stream \in Records /\ pending \in Lists
    BY DEF StreamRecords
<1> HIDE DEF Lists
<1>2. /\ one \in Records /\ one.at = at /\ one.pending = stream.pending
      /\ one.dropping = stream.dropping
    BY <1>1
<1> HIDE DEF one
<1>3. /\ two \in Records /\ two.at = at /\ two.pending = pending
      /\ two.dropping = stream.dropping
    BY <1>1, <1>2
<1> HIDE DEF two
<1>4. /\ three \in Records /\ three.at = at /\ three.pending = pending
      /\ three.dropping = TRUE
    BY <1>1, <1>3
<1> HIDE DEF three
<1>5. two = [stream EXCEPT !.at = at, !.pending = pending]
    BY Zenon DEF one, two
<1>6. three = [stream EXCEPT !.at = at, !.pending = pending, !.dropping = TRUE]
    BY Zenon DEF one, two, three
<1>7. Records = StreamRecords
    BY DEF Lists, StreamRecords
<1> HIDE DEF Records
<1> QED BY Zenon, <1>2, <1>3, <1>4, <1>5, <1>6, <1>7 DEF one

\* A byte more of the line, or none of it any more.
Continues ==
    /\ UNCHANGED lines /\ session.pc = "read" /\ Remembers /\ stream.at > 0 /\ stream'.at > 0
    /\ session'.pc # "invoke"
    /\ \/ stream'.dropping = stream.dropping /\ UNCHANGED answers
       \/ /\ ~stream.dropping /\ stream'.dropping /\ Current.length > LineLimit
          /\ Utters(None, "too-large")

LEMMA ReadByteEffect ==
    ASSUME ServerTypes, StreamGood, ReadByte
    PROVE  ServerTypes' /\ StreamGood' /\ Continues
<1> DEFINE n == stream.at
<1>1. /\ session.pc = "read" /\ n \in Nat /\ n > 0 /\ n <= Current.length
      /\ Reading > 0 /\ Current.length \in Nat /\ UNCHANGED lines
      /\ stream \in StreamRecords /\ session \in SessionRecords /\ answers \in Seq(AnswerRecords)
    BY ReadingFacts DEF ReadByte, StreamGood, ServerTypes
<1>2. Reading' = Reading /\ Current' = Current /\ Message' = Message
    BY <1>1 DEF Reading, Current, Message
<1>3. CASE stream.dropping
    <2>1. stream' = [stream EXCEPT !.at = n + 1] /\ UNCHANGED <<session, answers>>
        BY <1>3 DEF ReadByte
    <2>2. n + 1 \in Nat /\ n + 1 > 0 /\ <<>> \in Seq(Nat)
        BY <1>1
    <2>5. /\ stream' \in StreamRecords /\ stream'.at = n + 1 /\ stream'.dropping = stream.dropping
          /\ stream'.pending = stream.pending
        BY <1>1, <2>1, <2>2, StreamFields
    <2>3. ServerTypes'
        BY <1>1, <2>1, <2>5 DEF ServerTypes
    <2>4. StreamGood'
        BY <1>1, <1>2, <1>3, <2>1, <2>2, <2>5 DEF StreamGood
    <2>6. Continues
        BY <1>1, <2>1, <2>2, <2>5 DEF Continues, Remembers
    <2> QED BY <2>3, <2>4, <2>6
<1>4. CASE ~stream.dropping /\ Len(stream.pending) = LineLimit
    <2>1. /\ stream' = [stream EXCEPT !.at = n + 1, !.pending = <<>>, !.dropping = TRUE]
          /\ Written(None, "too-large")
        BY <1>4 DEF ReadByte
    <2>2. <<>> \in Seq(Nat) /\ n + 1 \in Nat /\ n + 1 > 0
        BY <1>1
    <2>3. stream' \in StreamRecords /\ stream'.at = n + 1 /\ stream'.dropping
        BY <1>1, <2>1, <2>2, StreamFields
    <2>4. /\ Utters(None, "too-large") /\ Remembers /\ session' \in SessionRecords
          /\ session'.pc \in {"read", "drain"}
        BY <1>1, <2>1, WrittenEffect
    <2>5. Current.length > LineLimit
        BY <1>1, <1>4, LineAssumption DEF StreamGood
    <2>6. answers' \in Seq(AnswerRecords)
        <3>1. [line |-> None, of |-> "too-large"] \in AnswerRecords
            BY DEF AnswerRecords, AnswerKinds, None
        <3> QED BY <1>1, <2>4, <3>1, AppendProperties DEF Utters
    <2>7. ServerTypes'
        BY <1>1, <2>3, <2>4, <2>6 DEF ServerTypes
    <2>8. StreamGood'
        BY <1>1, <1>2, <2>2, <2>3, <2>4, <2>5 DEF StreamGood
    <2>9. Continues
        BY <1>1, <1>4, <2>2, <2>3, <2>4, <2>5 DEF Continues
    <2> QED BY <2>7, <2>8, <2>9
<1>5. CASE ~stream.dropping /\ Len(stream.pending) # LineLimit
    <2>1. /\ stream' = [stream EXCEPT !.at = n + 1, !.pending = Append(stream.pending, n)]
          /\ UNCHANGED <<session, answers>>
        BY <1>5 DEF ReadByte
    <2> DEFINE s == stream.pending
               t == Append(stream.pending, n)
    <2>2. /\ s \in Seq(Nat) /\ Len(s) = n - 1 /\ Len(s) <= LineLimit /\ Len(s) # LineLimit
          /\ \A i \in 1..Len(s) : s[i] = i
        BY <1>1, <1>5 DEF StreamGood, StreamRecords
    <2>3. /\ t \in Seq(Nat) /\ Len(t) = Len(s) + 1
          /\ \A i \in 1..Len(s) : t[i] = s[i]
          /\ t[Len(s) + 1] = n
        BY <1>1, <2>2, AppendProperties
    <2> HIDE DEF s, t
    <2>4. Len(t) = n /\ Len(t) <= LineLimit /\ \A i \in 1..Len(t) : t[i] = i
        <3>1. LineLimit \in Nat
            BY LineAssumption
        <3>2. Len(t) = n /\ Len(t) <= LineLimit
            BY <1>1, <2>2, <2>3, <3>1
        <3>3. \A i \in 1..n : i \in 1..Len(s) \/ i = Len(s) + 1
            BY <1>1, <2>2
        <3> QED BY <1>1, <2>2, <2>3, <3>2, <3>3
    <2>5. stream' = [stream EXCEPT !.at = n + 1, !.pending = t]
        BY <2>1 DEF t
    <2>0. n + 1 \in Nat /\ n + 1 > 0
        BY <1>1
    <2>6. /\ stream' \in StreamRecords /\ stream'.at = n + 1 /\ stream'.dropping = stream.dropping
          /\ stream'.pending = t
        BY <1>1, <2>0, <2>3, <2>5, StreamFields
    <2>7. ServerTypes'
        BY <1>1, <2>1, <2>6 DEF ServerTypes
    <2>8. StreamGood'
        <3>1. ~stream'.dropping
            BY <1>5, <2>6
        <3>2. /\ Len(stream'.pending) = stream'.at - 1 /\ Len(stream'.pending) <= LineLimit
              /\ \A i \in 1..Len(stream'.pending) : stream'.pending[i] = i
            BY <1>1, <2>4, <2>6
        <3>3. /\ stream'.at > 0 /\ stream'.at <= Current'.length + 1 /\ Reading' > 0
              /\ session'.pc # "invoke"
            BY <1>1, <1>2, <2>1, <2>6
        <3> QED BY <2>0, <2>6, <3>1, <3>2, <3>3 DEF StreamGood
    <2>9. Continues
        BY <1>1, <2>0, <2>1, <2>6 DEF Continues, Remembers
    <2> QED BY <2>7, <2>8, <2>9
<1> QED BY <1>3, <1>4, <1>5

\* The end of a line: it is settled, or its request is with the provider.
Ends ==
    /\ UNCHANGED lines /\ session.pc = "read" /\ stream.at > 0 /\ stream' = NoStream
    /\ Reading > 0
    /\ \/ stream.dropping /\ UNCHANGED <<session, answers>>
       \/ ~stream.dropping /\ Owed(Reading) = <<>> /\ Heard
       \/ /\ ~stream.dropping
          /\ \E line \in {None, Reading}, kind \in AnswerKinds :
                Owed(Reading) = <<line>> /\ Told(line, kind)
       \/ ~stream.dropping /\ Owed(Reading) = <<Reading>> /\ Shaken
       \/ ~stream.dropping /\ Owed(Reading) = <<Reading>> /\ Invoked

LEMMA UttersTypes ==
    ASSUME answers \in Seq(AnswerRecords), NEW line \in Nat, NEW kind \in AnswerKinds,
           Utters(line, kind)
    PROVE  /\ answers' \in Seq(AnswerRecords) /\ Len(answers) \in Nat
           /\ DOMAIN answers = 1..Len(answers)
           /\ DOMAIN answers' = 1..(Len(answers) + 1) /\ Len(answers') = Len(answers) + 1
           /\ \A n \in 1..Len(answers) : answers'[n] = answers[n]
           /\ answers'[Len(answers) + 1].line = line
           /\ answers'[Len(answers) + 1].of = kind
<1> DEFINE a == [line |-> line, of |-> kind]
<1>1. a \in AnswerRecords /\ a.line = line /\ a.of = kind
    BY DEF AnswerRecords
<1>2. answers' = Append(answers, a)
    BY DEF Utters
<1> HIDE DEF a
<1>3. /\ answers' \in Seq(AnswerRecords) /\ Len(answers') = Len(answers) + 1
      /\ \A n \in 1..Len(answers) : answers'[n] = answers[n]
      /\ answers'[Len(answers) + 1] = a
    BY <1>1, <1>2, AppendProperties
<1>4. Len(answers) \in Nat /\ DOMAIN answers = 1..Len(answers) /\ DOMAIN answers' = 1..Len(answers')
    BY <1>3, LenProperties
<1> QED BY <1>1, <1>3, <1>4

LEMMA EndLineEffect ==
    ASSUME ServerTypes, StreamGood, EndLine
    PROVE  ServerTypes' /\ StreamGood' /\ Ends
<1>1. /\ session.pc = "read" /\ stream.at \in Nat /\ stream.at > 0 /\ Reading > 0 /\ Reading \in Nat
      /\ stream' = NoStream /\ UNCHANGED lines
      /\ session \in SessionRecords /\ answers \in Seq(AnswerRecords) /\ lines \in Seq(LineRecords)
    BY ReadingFacts DEF EndLine, AtEnd, StreamGood, ServerTypes
<1>2. Reading' = Reading /\ Current' = Current /\ Message' = Message
    BY <1>1 DEF Reading, Current, Message
<1>3. /\ stream' \in StreamRecords /\ stream'.at = 0 /\ stream'.pending = <<>> /\ ~stream'.dropping
    <2>1. <<>> \in Seq(Nat)
        OBVIOUS
    <2> QED BY <1>1, <2>1 DEF NoStream, StreamRecords
<1>4. CASE stream.dropping
    <2>1. UNCHANGED <<session, answers>>
        BY <1>4 DEF EndLine
    <2>2. ServerTypes' /\ StreamGood'
        BY <1>1, <1>3, <2>1 DEF ServerTypes, StreamGood
    <2> QED BY <1>1, <1>4, <2>1, <2>2 DEF Ends
<1>5. CASE ~stream.dropping
    <2>1. Process /\ AtEnd
        BY <1>5 DEF EndLine
    <2>2. /\ session' \in SessionRecords
          /\ \/ Owed(Reading) = <<>> /\ Heard
             \/ \E line \in {None, Reading}, kind \in AnswerKinds :
                   Owed(Reading) = <<line>> /\ Told(line, kind)
             \/ Owed(Reading) = <<Reading>> /\ Shaken
             \/ Owed(Reading) = <<Reading>> /\ Invoked
        BY <1>5, <2>1, ProcessEffect
    <2>3. Ends
        BY <1>1, <1>5, <2>2 DEF Ends
    <2>4. answers' \in Seq(AnswerRecords)
        <3>1. \A line \in {None, Reading}, kind \in AnswerKinds :
                 Utters(line, kind) => answers' \in Seq(AnswerRecords)
            BY <1>1, UttersTypes DEF None
        <3> QED BY <1>1, <2>2, <3>1 DEF Heard, Told, Shaken, Invoked, AnswerKinds
    <2>5. session'.pc = "invoke" => IsRequest(Message)
        BY <2>2 DEF Heard, Told, Shaken, Invoked
    <2>6. ServerTypes' /\ StreamGood'
        BY <1>1, <1>2, <1>3, <2>2, <2>4, <2>5 DEF ServerTypes, StreamGood
    <2> QED BY <2>3, <2>6
<1> QED BY <1>4, <1>5

\* The provider is done.
Concludes ==
    /\ UNCHANGED <<lines, stream>> /\ session.pc = "invoke" /\ session'.pc # "invoke" /\ Remembers
    /\ \E kind \in {"result", "internal-error"} : Utters(Reading, kind)

LEMMA AnswerEffect ==
    ASSUME ServerTypes, StreamGood, NEW good \in BOOLEAN, Answer(good)
    PROVE  ServerTypes' /\ StreamGood' /\ Concludes
<1>1. PICK kind \in {"result", "internal-error"} : Written(Reading, kind)
    BY DEF Answer
<1>2. /\ UNCHANGED <<lines, stream>> /\ session.pc = "invoke" /\ Reading \in Nat
      /\ session \in SessionRecords /\ kind \in AnswerKinds
    BY ReadingFacts DEF Answer, ServerTypes, AnswerKinds
<1>3. /\ Utters(Reading, kind) /\ Remembers /\ session' \in SessionRecords
      /\ session'.pc \in {"read", "drain"}
    BY <1>1, <1>2, WrittenEffect
<1>4. answers' \in Seq(AnswerRecords)
    BY <1>2, <1>3, UttersTypes DEF ServerTypes
<1>5. Reading' = Reading /\ Current' = Current /\ Message' = Message
    BY <1>2 DEF Reading, Current, Message
<1>6. ServerTypes' /\ StreamGood'
    BY <1>2, <1>3, <1>4, <1>5 DEF ServerTypes, StreamGood
<1> QED BY <1>2, <1>3, <1>6 DEF Concludes

\* The client reads on or is gone, or nothing happens.
Waits ==
    /\ UNCHANGED <<lines, stream, answers>> /\ Remembers
    /\ session'.pc = "invoke" <=> session.pc = "invoke"

LEMMA WaitEffect ==
    ASSUME ServerTypes, StreamGood, Drain \/ OutputFails \/ UNCHANGED serverVars
    PROVE  ServerTypes' /\ StreamGood' /\ Waits
<1>1. UNCHANGED <<lines, stream, answers>>
    BY DEF Drain, OutputFails, Quietly, serverVars
<1>2. /\ session' \in SessionRecords /\ Remembers
      /\ session'.pc = "invoke" <=> session.pc = "invoke"
    <2>1. session \in SessionRecords
        BY DEF ServerTypes
    <2>2. CASE Drain
        BY <2>1, <2>2 DEF Drain, Quietly, SessionRecords, Remembers
    <2>3. CASE OutputFails
        BY <2>1, <2>3 DEF OutputFails, SessionRecords, Remembers
    <2>4. CASE UNCHANGED serverVars
        BY <2>1, <2>4 DEF serverVars, Remembers
    <2> QED BY <2>2, <2>3, <2>4
<1>3. Reading' = Reading /\ Current' = Current /\ Message' = Message
    BY <1>1 DEF Reading, Current, Message
<1>4. ServerTypes' /\ StreamGood'
    BY <1>1, <1>2, <1>3 DEF ServerTypes, StreamGood
<1> QED BY <1>1, <1>2, <1>4 DEF Waits

\* Every step of the server is one of these.
LEMMA ServerEffect ==
    ASSUME ServerTypes, StreamGood, [ServerNext]_serverVars
    PROVE  ServerTypes' /\ StreamGood' /\ (Begins \/ Continues \/ Ends \/ Concludes \/ Waits)
<1>1. LineLimit \in Nat /\ LineLimit + 2 \in Nat
    BY LineAssumption
<1>2. ASSUME NEW message \in Messages, NEW ends \in BOOLEAN, Send(message, LineLimit, ends)
      PROVE  ServerTypes' /\ StreamGood' /\ Begins
    BY <1>1, <1>2, SendEffect
<1>3. ASSUME NEW ends \in BOOLEAN, Send(Long, LineLimit + 2, ends)
      PROVE  ServerTypes' /\ StreamGood' /\ Begins
    BY <1>1, <1>3, SendEffect
<1>4. CASE ReadByte
    BY <1>4, ReadByteEffect
<1>5. CASE EndLine
    BY <1>5, EndLineEffect
<1>6. ASSUME NEW good \in BOOLEAN, Answer(good)
      PROVE  ServerTypes' /\ StreamGood' /\ Concludes
    BY <1>6, AnswerEffect
<1>7. CASE Drain \/ OutputFails \/ UNCHANGED serverVars
    BY <1>7, WaitEffect
<1> QED BY <1>2, <1>3, <1>4, <1>5, <1>6, <1>7 DEF ServerNext, Serve

-----------------------------------------------------------------------------
(* The server: the handshake *)

IsConfirmation(i) == IsNotification(lines[i].message) /\ lines[i].message.method = "initialized"
Confirmed ==
    \E m \in DOMAIN answers :
        /\ answers[m].of = "initialized"
        /\ \E i \in (answers[m].line + 1)..Reading : IsConfirmation(i)

\* An answer names a line that was read; the handshake was asked for, is remembered, and
\* was confirmed on a later line when the session counts as initialized.
AnswerGood(n) ==
    /\ answers[n].line <= Reading
    /\ answers[n].of = "initialized" =>
          /\ session.responded /\ answers[n].line > 0
          /\ IsRequest(lines[answers[n].line].message)
HandshakeGood ==
    /\ \A n \in DOMAIN answers : AnswerGood(n)
    /\ session.responded => \E m \in DOMAIN answers : answers[m].of = "initialized"
    /\ session.initialized => Confirmed
    /\ session.pc = "invoke" => session.initialized
    /\ HandshakeFirst

LEMMA AnswerFacts ==
    ASSUME ServerTypes
    PROVE  /\ Len(answers) \in Nat /\ DOMAIN answers = 1..Len(answers)
           /\ \A n \in DOMAIN answers : answers[n].line \in Nat
           /\ session.responded \in BOOLEAN /\ session.initialized \in BOOLEAN
<1>1. Len(answers) \in Nat /\ DOMAIN answers = 1..Len(answers)
    BY LenProperties DEF ServerTypes
<1>2. \A n \in 1..Len(answers) : answers[n] \in AnswerRecords
    BY ElementOfSeq DEF ServerTypes
<1>3. \A a \in AnswerRecords : a.line \in Nat
    BY DEF AnswerRecords
<1> QED BY <1>1, <1>2, <1>3 DEF ServerTypes, SessionRecords

\* A request is no notification.
LEMMA RequestsDiffer ==
    ASSUME NEW m, IsRequest(m)
    PROVE  ~IsNotification(m)
BY DEF IsRequest, IsNotification

\* What was answered stays so when lines are added.
LEMMA AnswersOfLines ==
    ASSUME ServerTypes, HandshakeGood,
           Reading' \in Nat, Reading' >= Reading, \A i \in 1..Reading : lines'[i] = lines[i],
           NEW n \in DOMAIN answers, answers'[n] = answers[n],
           session.responded => session'.responded
    PROVE  AnswerGood(n)' /\ answers[n].line \in 0..Reading
<1>1. Reading \in Nat /\ answers[n].line \in Nat /\ AnswerGood(n)
    BY AnswerFacts, ReadingFacts DEF HandshakeGood
<1>2. answers[n].line <= Reading' /\ answers[n].line \in 0..Reading
    BY <1>1 DEF AnswerGood
<1>3. answers[n].line > 0 => lines'[answers[n].line] = lines[answers[n].line]
    BY <1>1 DEF AnswerGood
<1> QED BY <1>1, <1>2, <1>3 DEF AnswerGood

\* Lines that are added, and a confirmation that is heard, keep what was answered.
LEMMA HandshakeOfLines ==
    ASSUME ServerTypes, HandshakeGood, UNCHANGED answers,
           Reading' \in Nat, Reading' >= Reading, \A i \in 1..Reading : lines'[i] = lines[i],
           session'.responded = session.responded,
           session'.initialized => session.initialized
               \/ (session.responded /\ Reading > 0 /\ IsConfirmation(Reading)),
           session'.pc = "invoke" => session'.initialized
    PROVE  HandshakeGood'
<1>1. /\ Len(answers) \in Nat /\ DOMAIN answers = 1..Len(answers) /\ Reading \in Nat
      /\ \A n \in DOMAIN answers : answers[n].line \in Nat
    BY AnswerFacts, ReadingFacts
<1>2. \A n \in DOMAIN answers : AnswerGood(n)' /\ answers[n].line \in 0..Reading
    BY AnswersOfLines
<1>3. \A i \in 1..Reading : i \in 1..Reading' /\ (IsConfirmation(i) => IsConfirmation(i)')
    BY <1>1 DEF IsConfirmation
<1>4. ASSUME session'.initialized PROVE Confirmed
    <2>1. CASE session.initialized
        BY <2>1 DEF HandshakeGood
    <2>2. CASE session.responded /\ Reading > 0 /\ IsConfirmation(Reading)
        <3>1. PICK m \in DOMAIN answers : answers[m].of = "initialized"
            BY <2>2 DEF HandshakeGood
        <3>2. AnswerGood(m) /\ answers[m].line \in 0..Reading
            BY <1>2 DEF HandshakeGood
        <3>3. IsRequest(lines[answers[m].line].message)
            BY <3>1, <3>2 DEF AnswerGood
        <3>4. answers[m].line # Reading
            BY <2>2, <3>3, RequestsDiffer DEF IsConfirmation
        <3>5. Reading \in (answers[m].line + 1)..Reading
            BY <1>1, <3>2, <3>4
        <3> QED BY <2>2, <3>1, <3>5 DEF Confirmed
    <2> QED BY <1>4, <2>1, <2>2
<1>5. session'.initialized => Confirmed'
    <2> SUFFICES ASSUME session'.initialized PROVE Confirmed'
        OBVIOUS
    <2>1. PICK m \in DOMAIN answers :
             /\ answers[m].of = "initialized"
             /\ \E i \in (answers[m].line + 1)..Reading : IsConfirmation(i)
        BY <1>4 DEF Confirmed
    <2>2. PICK i \in (answers[m].line + 1)..Reading : IsConfirmation(i)
        BY <2>1
    <2>3. i \in (answers[m].line + 1)..Reading' /\ i \in 1..Reading
        BY <1>1
    <2>4. IsConfirmation(i)'
        BY <1>3, <2>2, <2>3
    <2> QED BY <2>1, <2>3, <2>4 DEF Confirmed
<1>6. HandshakeFirst'
    <2>1. ASSUME NEW n \in DOMAIN answers, answers[n].of \in {"tools", "result", "internal-error"}
          PROVE  \E m \in 1..(n - 1) :
                    /\ answers[m].of = "initialized"
                    /\ \E i \in (answers[m].line + 1)..(answers[n].line - 1) : IsConfirmation(i)'
        <3>1. PICK m \in 1..(n - 1) :
                 /\ answers[m].of = "initialized"
                 /\ \E i \in (answers[m].line + 1)..(answers[n].line - 1) : IsConfirmation(i)
            BY <2>1 DEF HandshakeGood, HandshakeFirst, IsConfirmation
        <3>2. PICK i \in (answers[m].line + 1)..(answers[n].line - 1) : IsConfirmation(i)
            BY <3>1
        <3>3. answers[n].line \in 0..Reading /\ answers[m].line \in Nat
            BY <1>1, <1>2
        <3>4. i \in 1..Reading
            BY <1>1, <3>3
        <3> QED BY <1>3, <3>1, <3>2, <3>4
    <2>2. \A m, n \in DOMAIN answers :
             answers[m].of = "initialized" /\ answers[n].of = "initialized" => m = n
        BY DEF HandshakeGood, HandshakeFirst
    <2> QED BY <2>1, <2>2 DEF HandshakeFirst, IsConfirmation
<1>7. session'.responded => \E m \in DOMAIN answers' : answers'[m].of = "initialized"
    BY DEF HandshakeGood
<1> QED BY <1>2, <1>5, <1>6, <1>7 DEF HandshakeGood

\* An answer more: one that only an initialized session gets names the request that is read.
LEMMA HandshakeOfAnswer ==
    ASSUME ServerTypes, HandshakeGood, UNCHANGED lines,
           NEW line \in Nat, line <= Reading, NEW kind \in AnswerKinds, Utters(line, kind),
           session'.initialized = session.initialized, session'.pc # "invoke",
           session.responded => session'.responded,
           \/ kind # "initialized" /\ session'.responded = session.responded
           \/ /\ kind = "initialized" /\ ~session.responded /\ session'.responded
              /\ line > 0 /\ IsRequest(lines[line].message),
           kind \in {"tools", "result", "internal-error"} =>
              session.initialized /\ line = Reading /\ Reading > 0 /\ IsRequest(Message)
    PROVE  HandshakeGood'
<1>0. PICK k : k = Len(answers) + 1
    OBVIOUS
<1>1. /\ Len(answers) \in Nat /\ DOMAIN answers = 1..Len(answers) /\ Reading \in Nat
      /\ \A n \in DOMAIN answers : answers[n].line \in Nat
      /\ Reading' = Reading
    BY AnswerFacts, ReadingFacts DEF Reading
<1>2. /\ DOMAIN answers' = 1..k
      /\ \A n \in 1..Len(answers) : answers'[n] = answers[n]
      /\ answers'[k].line = line /\ answers'[k].of = kind
    BY <1>0, UttersTypes DEF ServerTypes
<1>3. /\ k \in 1..k /\ \A n \in 1..k : n = k \/ n \in 1..Len(answers)
      /\ \A n \in 1..Len(answers) : n \in 1..k /\ n \in 1..(k - 1)
      /\ k \notin 1..Len(answers)
    BY <1>0, <1>1
<1>4. \A n \in DOMAIN answers : AnswerGood(n)' /\ answers[n].line \in 0..Reading
    BY <1>1, <1>2, AnswersOfLines
<1>5. AnswerGood(k)'
    BY <1>1, <1>2 DEF AnswerGood
<1>6. \A i : IsConfirmation(i)' <=> IsConfirmation(i)
    BY DEF IsConfirmation
<1>7. kind = "initialized" => \A n \in DOMAIN answers : answers[n].of # "initialized"
    BY DEF HandshakeGood, AnswerGood
<1>8. session'.responded => \E m \in DOMAIN answers' : answers'[m].of = "initialized"
    <2>1. CASE kind = "initialized"
        BY <1>2, <1>3, <2>1
    <2>2. CASE kind # "initialized"
        BY <1>1, <1>2, <1>3, <2>2 DEF HandshakeGood
    <2> QED BY <2>1, <2>2
<1>9. session'.initialized => Confirmed'
    <2> SUFFICES ASSUME session.initialized PROVE Confirmed'
        OBVIOUS
    <2>1. PICK m \in DOMAIN answers :
             /\ answers[m].of = "initialized"
             /\ \E i \in (answers[m].line + 1)..Reading : IsConfirmation(i)
        BY DEF HandshakeGood, Confirmed
    <2>2. m \in DOMAIN answers' /\ answers'[m] = answers[m]
        BY <1>1, <1>2, <1>3
    <2> QED BY <1>1, <1>6, <2>1, <2>2 DEF Confirmed
<1>10. ASSUME NEW n \in DOMAIN answers', answers'[n].of \in {"tools", "result", "internal-error"}
       PROVE  \E m \in 1..(n - 1) :
                 /\ answers'[m].of = "initialized"
                 /\ \E i \in (answers'[m].line + 1)..(answers'[n].line - 1) : IsConfirmation(i)
    <2>1. CASE n \in 1..Len(answers)
        <3>1. PICK m \in 1..(n - 1) :
                 /\ answers[m].of = "initialized"
                 /\ \E i \in (answers[m].line + 1)..(answers[n].line - 1) : IsConfirmation(i)
            BY <1>1, <1>2, <1>10, <2>1 DEF HandshakeGood, HandshakeFirst, IsConfirmation
        <3>2. answers'[n] = answers[n] /\ answers'[m] = answers[m]
            BY <1>1, <1>2, <2>1
        <3> QED BY <3>1, <3>2
    <2>2. CASE n = k
        <3>1. /\ session.initialized /\ line = Reading /\ Reading > 0 /\ IsRequest(Message)
            BY <1>2, <1>10, <2>2
        <3>2. PICK m \in DOMAIN answers :
                 /\ answers[m].of = "initialized"
                 /\ \E i \in (answers[m].line + 1)..Reading : IsConfirmation(i)
            BY <3>1 DEF HandshakeGood, Confirmed
        <3>3. PICK i \in (answers[m].line + 1)..Reading : IsConfirmation(i)
            BY <3>2
        <3>4. i # Reading
            BY <3>1, <3>3, RequestsDiffer DEF IsConfirmation, Message, Current
        <3>5. answers[m].line \in Nat
            BY <1>1
        <3>6. i \in (answers[m].line + 1)..(Reading - 1)
            BY <1>1, <3>4, <3>5
        <3>7. m \in 1..(n - 1) /\ answers'[m] = answers[m]
            BY <1>1, <1>2, <1>3, <2>2
        <3> QED BY <1>2, <2>2, <3>1, <3>2, <3>3, <3>6, <3>7
    <2> QED BY <1>2, <1>3, <2>1, <2>2
<1>11. ASSUME NEW m \in DOMAIN answers', NEW n \in DOMAIN answers',
              answers'[m].of = "initialized", answers'[n].of = "initialized"
       PROVE  m = n
    BY <1>1, <1>2, <1>3, <1>7, <1>11 DEF HandshakeGood, HandshakeFirst
<1>12. HandshakeFirst'
    BY <1>10, <1>11 DEF HandshakeFirst, IsConfirmation
<1>13. \A n \in DOMAIN answers' : AnswerGood(n)'
    BY <1>1, <1>2, <1>3, <1>4, <1>5
<1> QED BY <1>8, <1>9, <1>12, <1>13 DEF HandshakeGood

LEMMA HandshakeStep ==
    ASSUME ServerTypes, StreamGood, HandshakeGood, [ServerNext]_serverVars
    PROVE  HandshakeGood'
<1>1. Reading \in Nat /\ session.responded \in BOOLEAN /\ session.initialized \in BOOLEAN
    BY ReadingFacts, AnswerFacts
<1>2. CASE Begins
    BY <1>1, <1>2, HandshakeOfLines DEF Begins, HandshakeGood
<1>3. CASE Waits
    <2>1. Reading' = Reading
        BY <1>3 DEF Waits, Reading
    <2>2. session'.pc = "invoke" => session'.initialized
        BY <1>3 DEF Waits, Remembers, HandshakeGood
    <2> QED BY <1>1, <1>3, <2>1, <2>2, HandshakeOfLines DEF Waits, Remembers
<1>4. CASE Continues
    <2>1. Reading' = Reading
        BY <1>4 DEF Continues, Reading
    <2>2. CASE UNCHANGED answers
        BY <1>1, <1>4, <2>1, <2>2, HandshakeOfLines DEF Continues, Remembers
    <2>3. CASE Utters(None, "too-large")
        <3>1. None \in Nat /\ None <= Reading /\ "too-large" \in AnswerKinds
            BY <1>1 DEF None, AnswerKinds
        <3> QED BY <1>1, <1>4, <2>3, <3>1, HandshakeOfAnswer DEF Continues, Remembers
    <2> QED BY <1>4, <2>2, <2>3 DEF Continues
<1>5. CASE Concludes
    <2>1. PICK kind \in {"result", "internal-error"} : Utters(Reading, kind)
        BY <1>5 DEF Concludes
    <2>2. /\ session.initialized /\ Reading > 0 /\ IsRequest(Message) /\ kind \in AnswerKinds
          /\ UNCHANGED lines /\ session'.pc # "invoke" /\ Remembers
        BY <1>5 DEF Concludes, StreamGood, HandshakeGood, AnswerKinds
    <2> QED BY <1>1, <2>1, <2>2, HandshakeOfAnswer DEF Remembers
<1>6. CASE Ends
    <2>1. Reading' = Reading /\ Reading > 0 /\ UNCHANGED lines
        BY <1>6 DEF Ends, Reading
    <2>2. CASE UNCHANGED <<session, answers>>
        BY <1>1, <2>1, <2>2, HandshakeOfLines DEF HandshakeGood
    <2>3. CASE Heard
        <3>1. IsConfirmation(Reading) <=> (IsNotification(Message) /\ Message.method = "initialized")
            BY DEF IsConfirmation, Message, Current
        <3> QED BY <1>1, <2>1, <2>3, <3>1, HandshakeOfLines DEF Heard
    <2>4. ASSUME NEW line \in {None, Reading}, NEW kind \in AnswerKinds, Told(line, kind)
          PROVE  HandshakeGood'
        <3>1. line \in Nat /\ line <= Reading
            BY <1>1 DEF None
        <3>2. /\ Utters(line, kind) /\ Remembers /\ session'.pc # "invoke"
              /\ kind \notin {"initialized", "result", "internal-error"}
              /\ kind = "tools" => session.initialized /\ line = Reading /\ IsRequest(Message)
            BY <2>4 DEF Told
        <3> QED BY <1>1, <2>1, <3>1, <3>2, HandshakeOfAnswer DEF Remembers
    <2>5. CASE Shaken
        <3>1. PICK kind \in AnswerKinds : kind = "initialized"
            BY DEF AnswerKinds
        <3>2. IsRequest(lines[Reading].message)
            BY <2>5 DEF Shaken, Message, Current
        <3>3. /\ Utters(Reading, kind) /\ ~session.responded /\ session'.responded
              /\ session'.initialized = session.initialized /\ session'.pc # "invoke"
              /\ kind \notin {"tools", "result", "internal-error"}
            BY <2>5, <3>1 DEF Shaken
        <3>4. Reading \in Nat /\ Reading <= Reading /\ Reading > 0
            BY <1>1, <2>1
        <3> QED BY <2>1, <3>1, <3>2, <3>3, <3>4, HandshakeOfAnswer
    <2>6. CASE Invoked
        BY <1>1, <2>1, <2>6, HandshakeOfLines DEF Invoked, Remembers
    <2> QED BY <1>6, <2>2, <2>3, <2>4, <2>5, <2>6 DEF Ends
<1> QED BY <1>2, <1>3, <1>4, <1>5, <1>6, ServerEffect

-----------------------------------------------------------------------------
(* The server: answers in turn *)

\* The lines that got what they are owed: all but one that is still read or worked on.
Settled ==
    IF (stream.at > 0 /\ ~stream.dropping) \/ session.pc = "invoke" THEN Reading - 1 ELSE Reading
TurnGood ==
    /\ AnsweredLines = OwedUpTo(Settled)
    /\ session.pc = "invoke" => Owed(Reading) = <<Reading>>

LEMMA OwedTypes ==
    ASSUME ServerTypes, NEW i \in 1..Reading
    PROVE  Owed(i) \in Seq(Nat)
<1>1. i \in Nat /\ None \in Nat
    BY ReadingFacts DEF None
<1>2. /\ <<>> \in Seq(Nat) /\ <<None>> \in Seq(Nat)
      /\ <<ResponseId(lines[i].message, i)>> \in Seq(Nat)
    BY <1>1 DEF ResponseId
<1> QED BY <1>2 DEF Owed

LEMMA OwedUpToTypes ==
    ASSUME ServerTypes, NEW n \in 0..Reading
    PROVE  OwedUpTo(n) \in Seq(Nat)
<1> DEFINE q == [i \in 1..n |-> Owed(i)]
           S == Seq(Nat)
<1>1. n \in Nat /\ \A i \in 1..n : Owed(i) \in S
    BY OwedTypes, ReadingFacts
<1>2. q \in Seq(S) /\ Len(q) = n
    <2> HIDE DEF S
    <2> QED BY <1>1
<1>3. FlattenSeq(q) \in Seq(Nat)
    <2> HIDE DEF q
    <2> QED BY <1>1, <1>2, FlattenTypes
<1> QED BY <1>3 DEF OwedUpTo

LEMMA OwedUpToNext ==
    ASSUME ServerTypes, Reading > 0
    PROVE  OwedUpTo(Reading) = OwedUpTo(Reading - 1) \o Owed(Reading)
<1> DEFINE n == Reading - 1
           q == [i \in 1..(n + 1) |-> Owed(i)]
           r == [i \in 1..n |-> Owed(i)]
<1>1. n \in Nat /\ n + 1 = Reading
    BY ReadingFacts
<1> HIDE DEF n
<1>2. \A i \in 1..(n + 1) : Owed(i) \in Seq(Nat)
    BY <1>1, OwedTypes
<1>3. Len(q) = n + 1 /\ Len(r) = n
    BY <1>1
<1>4. /\ \A i \in 1..(n + 1) : q[i] \in Seq(Nat)
      /\ \A i \in 1..n : q[i] = r[i]
      /\ q[n + 1] = Owed(n + 1)
    BY <1>1, <1>2
<1>5. n = 0 => r = <<>>
    OBVIOUS
<1> HIDE DEF q, r
<1>6. FlattenSeq(q) = FlattenSeq(r) \o q[n + 1]
    <2>1. OneMore(r, q, n, Nat)
        BY <1>1, <1>3, <1>4, <1>5 DEF OneMore
    <2> QED BY <2>1, FlattenLast, Zenon
<1>7. OwedUpTo(n + 1) = OwedUpTo(n) \o Owed(n + 1)
    BY <1>4, <1>6 DEF OwedUpTo, q, r
<1> QED BY <1>1, <1>7 DEF n

\* What lines are owed depends on these lines alone.
LEMMA OwedStays ==
    ASSUME ServerTypes, \A i \in 1..Reading : lines'[i] = lines[i], NEW n \in 0..Reading
    PROVE  OwedUpTo(n)' = OwedUpTo(n)
<1>1. \A i \in 1..n : Owed(i)' = Owed(i)
    BY ReadingFacts DEF Owed
<1>2. [i \in 1..n |-> Owed(i)'] = [i \in 1..n |-> Owed(i)]
    BY <1>1
<1> QED BY <1>2 DEF OwedUpTo

LEMMA AnsweredNext ==
    ASSUME ServerTypes, NEW line \in Nat, NEW kind \in AnswerKinds, Utters(line, kind)
    PROVE  AnsweredLines \in Seq(Nat) /\ AnsweredLines' = AnsweredLines \o <<line>>
<1>0. PICK k : k = Len(answers)
    OBVIOUS
<1>1. /\ k \in Nat /\ DOMAIN answers = 1..k /\ DOMAIN answers' = 1..(k + 1)
      /\ \A n \in 1..k : answers'[n] = answers[n]
      /\ answers'[k + 1].line = line
    BY <1>0, UttersTypes DEF ServerTypes
<1>2. \A n \in 1..k : answers[n].line \in Nat
    BY <1>1, AnswerFacts
<1> DEFINE s == AnsweredLines
           t == AnsweredLines'
           u == s \o <<line>>
<1>3. /\ s = [n \in 1..k |-> answers[n].line]
      /\ t = [n \in 1..(k + 1) |-> answers'[n].line]
    BY <1>1 DEF AnsweredLines
<1>4. \A n \in 1..(k + 1) : answers'[n].line \in Nat
    <2>1. \A n \in 1..(k + 1) : n \in 1..k \/ n = k + 1
        BY <1>1
    <2> QED BY <1>1, <1>2, <2>1
<1>5. s \in Seq(Nat) /\ Len(s) = k /\ t \in Seq(Nat) /\ Len(t) = k + 1
    BY <1>1, <1>2, <1>3, <1>4
<1>6. \A n \in 1..k : s[n] = t[n]
    BY <1>1, <1>3
<1>7. t[k + 1] = line
    BY <1>1, <1>3
<1> HIDE DEF s, t
<1>8. <<line>> \in Seq(Nat) /\ Len(<<line>>) = 1 /\ <<line>>[1] = line
    OBVIOUS
<1>9. /\ u \in Seq(Nat) /\ Len(u) = k + 1
      /\ \A n \in 1..(k + 1) : u[n] = IF n <= k THEN s[n] ELSE <<line>>[n - k]
    BY <1>5, <1>8, ConcatProperties
<1> HIDE DEF u
<1>10. \A n \in 1..(k + 1) : t[n] = u[n]
    <2> SUFFICES ASSUME NEW n \in 1..(k + 1) PROVE t[n] = u[n]
        OBVIOUS
    <2>1. CASE n <= k
        <3>1. n \in 1..k
            BY <1>1, <2>1
        <3> QED BY <1>6, <1>9, <2>1, <3>1
    <2>2. CASE ~(n <= k)
        <3>1. n = k + 1 /\ n - k = 1
            BY <1>1, <2>2
        <3> QED BY <1>7, <1>8, <1>9, <2>2, <3>1
    <2> QED BY <2>1, <2>2
<1>11. t = u
    BY <1>5, <1>9, <1>10, SeqEqual
<1> QED BY <1>5, <1>11 DEF s, t, u

\* A line that is settled gets what it is owed.
LEMMA TurnSettles ==
    ASSUME ServerTypes, TurnGood, UNCHANGED lines, Reading > 0,
           Settled = Reading - 1, Settled' = Reading, session'.pc # "invoke",
           \/ UNCHANGED answers /\ Owed(Reading) = <<>>
           \/ \E line \in Nat, kind \in AnswerKinds : Utters(line, kind) /\ Owed(Reading) = <<line>>
    PROVE  TurnGood'
<1>1. Reading \in Nat /\ Reading \in 0..Reading /\ Reading - 1 \in 0..Reading
    BY ReadingFacts
<1>2. OwedUpTo(Reading) = AnsweredLines \o Owed(Reading)
    BY OwedUpToNext DEF TurnGood
<1>3. AnsweredLines \in Seq(Nat)
    BY <1>1, OwedUpToTypes DEF TurnGood
<1>4. OwedUpTo(Settled)' = OwedUpTo(Reading)
    <2>1. PICK n : n = Reading
        OBVIOUS
    <2>2. OwedUpTo(n)' = OwedUpTo(n)
        BY <1>1, <2>1, OwedStays
    <2>3. OwedUpTo(Settled)' = OwedUpTo(n)'
        BY <2>1 DEF OwedUpTo
    <2> QED BY <2>1, <2>2, <2>3
<1>5. AnsweredLines' = OwedUpTo(Reading)
    <2>1. CASE UNCHANGED answers /\ Owed(Reading) = <<>>
        <3>1. AnsweredLines' = AnsweredLines
            BY <2>1 DEF AnsweredLines
        <3>2. AnsweredLines \o <<>> = AnsweredLines
            BY <1>3, ConcatEmptySeq
        <3> QED BY <1>2, <2>1, <3>1, <3>2
    <2>2. CASE \E line \in Nat, kind \in AnswerKinds : Utters(line, kind) /\ Owed(Reading) = <<line>>
        BY <1>2, <2>2, AnsweredNext
    <2> QED BY <2>1, <2>2
<1> QED BY <1>4, <1>5 DEF TurnGood

\* A step that answers nothing and settles nothing.
LEMMA TurnStays ==
    ASSUME ServerTypes, TurnGood, \A i \in 1..Reading : lines'[i] = lines[i],
           Settled' = Settled, Settled \in 0..Reading, UNCHANGED answers,
           session'.pc = "invoke" => UNCHANGED lines /\ Owed(Reading) = <<Reading>>
    PROVE  TurnGood'
<1>1. OwedUpTo(Settled)' = OwedUpTo(Settled)
    <2>1. PICK n : n = Settled
        OBVIOUS
    <2>2. OwedUpTo(n)' = OwedUpTo(n)
        BY <2>1, OwedStays
    <2>3. OwedUpTo(Settled)' = OwedUpTo(n)'
        BY <2>1 DEF OwedUpTo
    <2> QED BY <2>1, <2>2, <2>3
<1>2. AnsweredLines' = AnsweredLines
    BY DEF AnsweredLines
<1>3. session'.pc = "invoke" => (Owed(Reading) = <<Reading>>)'
    BY DEF Owed, Reading
<1> QED BY <1>1, <1>2, <1>3 DEF TurnGood

LEMMA TurnStep ==
    ASSUME ServerTypes, StreamGood, TurnGood, [ServerNext]_serverVars
    PROVE  TurnGood'
<1>1. /\ Reading \in Nat /\ stream.at \in Nat /\ Reading \in 0..Reading
      /\ Reading > 0 => Reading - 1 \in 0..Reading
    BY ReadingFacts
<1>2. CASE Begins
    <2>1. Settled = Reading /\ Settled' = Reading
        BY <1>1, <1>2 DEF Begins, Settled
    <2> QED BY <1>1, <1>2, <2>1, TurnStays DEF Begins
<1>3. CASE Waits
    <2>1. Settled' = Settled /\ Reading' = Reading
        BY <1>3 DEF Waits, Settled, Reading
    <2>2. Settled \in 0..Reading
        BY <1>1 DEF Settled, StreamGood
    <2>3. session'.pc = "invoke" => UNCHANGED lines /\ Owed(Reading) = <<Reading>>
        BY <1>3 DEF Waits, TurnGood
    <2> QED BY <1>3, <2>1, <2>2, <2>3, TurnStays DEF Waits
<1>4. CASE Continues
    <2>1. Reading' = Reading /\ Reading > 0
        BY <1>4 DEF Continues, Reading, StreamGood
    <2>2. CASE stream'.dropping = stream.dropping /\ UNCHANGED answers
        <3>1. Settled' = Settled /\ Settled \in 0..Reading
            BY <1>1, <1>4, <2>1, <2>2 DEF Continues, Settled
        <3> QED BY <1>4, <2>2, <3>1, TurnStays DEF Continues
    <2>3. CASE /\ ~stream.dropping /\ stream'.dropping /\ Current.length > LineLimit
               /\ Utters(None, "too-large")
        <3>1. Settled = Reading - 1 /\ Settled' = Reading
            BY <1>4, <2>1, <2>3 DEF Continues, Settled
        <3>2. Owed(Reading) = <<None>>
            BY <2>3 DEF Owed, Current
        <3>3. None \in Nat /\ "too-large" \in AnswerKinds
            BY DEF None, AnswerKinds
        <3>4. \E line \in Nat, kind \in AnswerKinds : Utters(line, kind) /\ Owed(Reading) = <<line>>
            BY <2>3, <3>2, <3>3
        <3> QED BY <1>4, <2>1, <3>1, <3>4, TurnSettles DEF Continues
    <2> QED BY <1>4, <2>2, <2>3 DEF Continues
<1>5. CASE Concludes
    <2>1. PICK kind \in {"result", "internal-error"} : Utters(Reading, kind)
        BY <1>5 DEF Concludes
    <2>2. Reading > 0 /\ Reading' = Reading /\ UNCHANGED lines /\ session'.pc # "invoke"
        BY <1>5 DEF Concludes, StreamGood, Reading
    <2>3. Settled = Reading - 1 /\ Settled' = Reading
        BY <1>1, <1>5, <2>2 DEF Concludes, StreamGood, Settled
    <2>4. kind \in AnswerKinds /\ Owed(Reading) = <<Reading>>
        BY <1>5 DEF AnswerKinds, Concludes, TurnGood
    <2>5. \E line \in Nat, k \in AnswerKinds : Utters(line, k) /\ Owed(Reading) = <<line>>
        BY <1>1, <2>1, <2>4
    <2> QED BY <2>2, <2>3, <2>5, TurnSettles
<1>6. CASE Ends
    <2>1. /\ Reading' = Reading /\ Reading > 0 /\ UNCHANGED lines /\ session.pc = "read"
          /\ stream.at > 0 /\ stream'.at = 0
        BY <1>6 DEF Ends, Reading, NoStream
    <2>2. Settled' = IF session'.pc = "invoke" THEN Reading - 1 ELSE Reading
        BY <2>1 DEF Settled
    <2>3. CASE stream.dropping /\ UNCHANGED <<session, answers>>
        <3>1. Settled = Reading /\ Settled' = Reading
            BY <2>1, <2>2, <2>3 DEF Settled
        <3> QED BY <1>1, <2>1, <2>3, <3>1, TurnStays
    <2>4. ASSUME ~stream.dropping PROVE Settled = Reading - 1
        BY <2>1, <2>4 DEF Settled
    <2>5. CASE ~stream.dropping /\ Owed(Reading) = <<>> /\ Heard
        BY <2>1, <2>2, <2>4, <2>5, TurnSettles DEF Heard
    <2>6. ASSUME ~stream.dropping, NEW line \in {None, Reading}, NEW kind \in AnswerKinds,
                 Owed(Reading) = <<line>>, Told(line, kind)
          PROVE  TurnGood'
        <3>1. line \in Nat
            BY <1>1 DEF None
        <3>2. session'.pc # "invoke" /\ Utters(line, kind)
            BY <2>6 DEF Told
        <3>3. \E l \in Nat, k \in AnswerKinds : Utters(l, k) /\ Owed(Reading) = <<l>>
            BY <2>6, <3>1, <3>2
        <3> QED BY <2>1, <2>2, <2>4, <2>6, <3>2, <3>3, TurnSettles
    <2>7. CASE ~stream.dropping /\ Owed(Reading) = <<Reading>> /\ Shaken
        <3>1. session'.pc # "invoke" /\ Utters(Reading, "initialized") /\ "initialized" \in AnswerKinds
            BY <2>7 DEF Shaken, AnswerKinds
        <3>2. \E l \in Nat, k \in AnswerKinds : Utters(l, k) /\ Owed(Reading) = <<l>>
            BY <1>1, <2>7, <3>1
        <3> QED BY <2>1, <2>2, <2>4, <2>7, <3>1, <3>2, TurnSettles
    <2>8. CASE ~stream.dropping /\ Owed(Reading) = <<Reading>> /\ Invoked
        <3>1. Settled' = Settled /\ Settled \in 0..Reading /\ UNCHANGED answers
            BY <1>1, <2>1, <2>2, <2>4, <2>8 DEF Invoked
        <3> QED BY <2>1, <2>8, <3>1, TurnStays
    <2> QED BY <1>6, <2>3, <2>5, <2>6, <2>7, <2>8 DEF Ends
<1> QED BY <1>2, <1>3, <1>4, <1>5, <1>6, ServerEffect

-----------------------------------------------------------------------------
(* The server: theorems *)

ServerInv == ServerTypes /\ StreamGood /\ HandshakeGood /\ TurnGood

LEMMA ServerStarts ==
    ASSUME AllInit
    PROVE  ServerInv
<1>1. /\ lines = <<>> /\ stream = NoStream /\ answers = <<>>
      /\ session.responded = FALSE /\ session.initialized = FALSE /\ session.pc \in {"read", "off"}
      /\ session \in SessionRecords
    <2>1. CASE serving = "server"
        <3>1. ServerInit
            BY <2>1 DEF AllInit
        <3> QED BY <3>1 DEF ServerInit, SessionRecords
    <2>2. CASE serving # "server"
        <3>1. ServerRests
            BY <2>2 DEF AllInit
        <3> QED BY <3>1 DEF ServerRests, SessionRecords
    <2> QED BY <2>1, <2>2
<1>2. /\ Reading = 0 /\ DOMAIN answers = {} /\ stream.at = 0 /\ stream.pending = <<>>
      /\ ~stream.dropping
    BY <1>1 DEF Reading, NoStream
<1>3. ServerTypes
    <2>1. <<>> \in Seq(LineRecords) /\ <<>> \in Seq(AnswerRecords) /\ <<>> \in Seq(Nat)
        OBVIOUS
    <2>2. stream \in StreamRecords
        BY <1>1, <2>1 DEF NoStream, StreamRecords
    <2> QED BY <1>1, <2>1, <2>2 DEF ServerTypes
<1>4. StreamGood
    BY <1>1, <1>2 DEF StreamGood
<1>5. HandshakeGood
    BY <1>1, <1>2 DEF HandshakeGood, HandshakeFirst
<1>6. TurnGood
    <2>1. Settled = 0
        BY <1>1, <1>2 DEF Settled
    <2>2. AnsweredLines = <<>>
        BY <1>2 DEF AnsweredLines
    <2> DEFINE q == [i \in 1..0 |-> Owed(i)]
    <2>3. q = <<>> /\ Len(q) = 0
        OBVIOUS
    <2> HIDE DEF q
    <2>4. FlattenSeq(q) = <<>>
        BY Zenon, <2>3 DEF FlattenSeq
    <2>5. OwedUpTo(0) = <<>>
        BY <2>4 DEF OwedUpTo, q
    <2> QED BY <1>1, <2>1, <2>2, <2>5 DEF TurnGood
<1> QED BY <1>3, <1>4, <1>5, <1>6 DEF ServerInv

LEMMA ServerInvStep ==
    ASSUME ServerInv, [AllNext]_allVars
    PROVE  ServerInv'
BY StepsOfParts, ServerEffect, HandshakeStep, TurnStep DEF ServerInv

LEMMA ServerInvariant == AllSpec => []ServerInv
BY ServerStarts, ServerInvStep, PTL DEF AllSpec

\* No tool is listed or called unless the client confirmed the one handshake after the
\* server had answered it (processLine, mcp-stdio-server.ts:51).
THEOREM HandshakeComesFirst == AllSpec => []HandshakeFirst
<1>1. ServerInv => HandshakeFirst
    BY DEF ServerInv, HandshakeGood
<1> QED BY <1>1, ServerInvariant, PTL

\* The answers are those that the lines are owed, in the order of the lines; at most the
\* line that is read or worked on still lacks its own (serveMcpStdio,
\* mcp-stdio-server.ts:146).
THEOREM LinesAreAnsweredInTurn == AllSpec => []AnsweredInTurn
<1>1. ServerInv => AnsweredInTurn
    <2> SUFFICES ASSUME ServerInv PROVE AnsweredInTurn
        OBVIOUS
    <2>1. ServerTypes /\ StreamGood /\ AnsweredLines = OwedUpTo(Settled)
        BY DEF ServerInv, TurnGood
    <2>2. Reading \in Nat
        BY <2>1, ReadingFacts
    <2>3. CASE Reading = 0
        <3>1. Settled = 0
            BY <2>1, <2>3 DEF Settled, StreamGood
        <3>2. OwedUpTo(0) \in Seq(Nat)
            BY <2>1, <2>2, OwedUpToTypes
        <3> QED BY <2>1, <2>3, <3>1, <3>2, PrefixItself DEF AnsweredInTurn
    <2>4. CASE Reading > 0
        <3> DEFINE before == OwedUpTo(Reading - 1)
                   after == OwedUpTo(Reading)
        <3>1. Settled = Reading \/ Settled = Reading - 1
            BY DEF Settled
        <3>2. Reading - 1 \in 0..Reading /\ Reading \in 0..Reading /\ Reading \in 1..Reading
            BY <2>2, <2>4
        <3>3. before \in Seq(Nat) /\ after \in Seq(Nat) /\ Owed(Reading) \in Seq(Nat)
            BY <2>1, <3>2, OwedTypes, OwedUpToTypes
        <3>4. after = before \o Owed(Reading)
            BY <2>1, <2>4, OwedUpToNext
        <3>5. AnsweredLines \in {before, after}
            BY <2>1, <3>1
        <3> HIDE DEF before, after
        <3>6. IsPrefix(before, before) /\ IsPrefix(after, after) /\ IsPrefix(before, after)
            BY <3>3, <3>4, PrefixItself, PrefixConcat
        <3>7. IsPrefix(AnsweredLines, after) /\ IsPrefix(before, AnsweredLines)
            BY <3>5, <3>6
        <3> QED BY <3>7 DEF AnsweredInTurn, before, after
    <2> QED BY <2>2, <2>3, <2>4
<1> QED BY <1>1, ServerInvariant, PTL

-----------------------------------------------------------------------------
(* The task: claims by caution *)

Caution == [c \in ClaimPool |-> Priority(c.state)]

LEMMA PriorityFacts ==
    ASSUME NEW c \in ClaimPool
    PROVE  /\ Priority(c.state) \in 0..4 /\ Caution[c] = Priority(c.state)
           /\ Priority(c.state) = 4 <=> c.state = "demonstrated"
           /\ Priority(c.state) = 3 <=> c.state = "adjacent"
<1>1. c.state \in {"demonstrated", "adjacent", "self-declared", "insufficient-evidence", "disputed"}
    BY ClaimAssumption
<1> QED BY <1>1 DEF Priority, Caution

LEMMA CautionTypes == Caution \in [ClaimPool -> Nat]
<1>1. \A c \in ClaimPool : Priority(c.state) \in Nat
    BY PriorityFacts
<1> QED BY <1>1 DEF Caution

LEMMA CautiousFacts ==
    ASSUME NEW C, C \subseteq ClaimPool
    PROVE  Cautious(C) \in Seq(ClaimPool) /\ Range(Cautious(C)) = C /\ Ascends(Cautious(C), Caution)
<1> DEFINE P(n) == Among(ClaimOrder, {c \in C : Priority(c.state) = n})
           Good(s, n) == /\ s \in Seq(ClaimPool) /\ Ascends(s, Caution)
                         /\ Range(s) = {c \in C : Priority(c.state) <= n}
<1>1. ClaimOrder \in Seq(ClaimPool) /\ Range(ClaimOrder) = ClaimPool
    BY ClaimAssumption
<1>2. ASSUME NEW n \in Nat
      PROVE  /\ P(n) \in Seq(ClaimPool) /\ Range(P(n)) = {c \in C : Priority(c.state) = n}
             /\ Ascends(P(n), Caution)
    <2>1. P(n) \in Seq(ClaimPool) /\ Range(P(n)) = ClaimPool \cap {c \in C : Priority(c.state) = n}
        BY <1>1, AmongFacts
    <2>2. \A x, y \in Range(P(n)) : Caution[x] = Caution[y]
        BY <2>1, PriorityFacts
    <2> HIDE DEF P
    <2>3. Ascends(P(n), Caution)
        BY <2>1, <2>2, CautionTypes, AscendsInOneRank
    <2> QED BY <2>1, <2>3
<1>3. ASSUME NEW s, NEW n \in Nat, Good(s, n)
      PROVE  Good(s \o P(n + 1), n + 1)
    <2> DEFINE u == P(n + 1)
    <2>1. /\ u \in Seq(ClaimPool) /\ Range(u) = {c \in C : Priority(c.state) = n + 1}
          /\ Ascends(u, Caution)
        BY <1>2
    <2> HIDE DEF u
    <2>2. \A x \in Range(s), y \in Range(u) : Caution[x] <= Caution[y]
        BY <1>3, <2>1, PriorityFacts
    <2>3. Ascends(s \o u, Caution)
        <3>1. PICK R \in [ClaimPool -> Nat] : R = Caution
            BY CautionTypes
        <3>2. Ascends(s \o u, R)
            BY <1>3, <2>1, <2>2, <3>1, ConcatAscends
        <3> QED BY <3>1, <3>2
    <2>4. s \o u \in Seq(ClaimPool) /\ Range(s \o u) = Range(s) \cup Range(u)
        BY <1>3, <2>1, ConcatElements
    <2>5. Range(s \o u) = {c \in C : Priority(c.state) <= n + 1}
        <3>1. \A c \in C : Priority(c.state) \in Nat
            BY PriorityFacts
        <3> QED BY <1>3, <2>1, <2>4, <3>1
    <2> QED BY <2>3, <2>4, <2>5 DEF u
<1>4. Good(P(0), 0)
    <2>1. \A c \in C : Priority(c.state) \in Nat
        BY PriorityFacts
    <2>2. {c \in C : Priority(c.state) = 0} = {c \in C : Priority(c.state) <= 0}
        BY <2>1
    <2> QED BY <1>2, <2>2
<1> HIDE DEF Good
<1>5. Good(P(0) \o P(1) \o P(2) \o P(3) \o P(4), 4)
    <2> HIDE DEF P
    <2>1. /\ 0 + 1 = 1 /\ 1 + 1 = 2 /\ 2 + 1 = 3 /\ 3 + 1 = 4
          /\ 0 \in Nat /\ 1 \in Nat /\ 2 \in Nat /\ 3 \in Nat
        OBVIOUS
    <2>2. Good(P(0) \o P(1), 1)
        BY <1>3, <1>4, <2>1
    <2>3. Good(P(0) \o P(1) \o P(2), 2)
        BY <1>3, <2>1, <2>2
    <2>4. Good(P(0) \o P(1) \o P(2) \o P(3), 3)
        BY <1>3, <2>1, <2>3
    <2> QED BY <1>3, <2>1, <2>4
<1>6. Cautious(C) = P(0) \o P(1) \o P(2) \o P(3) \o P(4)
    BY Zenon DEF Cautious
<1>7. {c \in C : Priority(c.state) <= 4} = C
    BY PriorityFacts
<1> HIDE DEF P
<1> QED BY <1>5, <1>6, <1>7 DEF Good

LEMMA WithinFacts ==
    ASSUME NEW s \in Seq(ClaimPool), NEW X
    PROVE  /\ Within(s, X) \in Seq(ClaimPool)
           /\ Range(Within(s, X)) = {x \in Range(s) : x.capability \in X}
           /\ Ascends(s, Caution) => Ascends(Within(s, X), Caution)
<1>1. PICK S : S = {x \in Range(s) : x.capability \in X}
    OBVIOUS
<1>2. Within(s, X) = Among(s, S)
    BY <1>1 DEF Within
<1>3. Among(s, S) \in Seq(ClaimPool) /\ Range(Among(s, S)) = Range(s) \cap S
    BY AmongFacts
<1>4. Ascends(s, Caution) => Ascends(Among(s, S), Caution)
    BY CautionTypes, AmongAscends
<1> QED BY <1>1, <1>2, <1>3, <1>4

\* The claim that leads a capability is its most cautious one.
LEMMA LeadingFacts ==
    ASSUME NEW s \in Seq(ClaimPool), Ascends(s, Caution), NEW c, Leading(s, c) = "demonstrated"
    PROVE  /\ \E x \in Range(s) : x.capability = c
           /\ \A x \in Range(s) : x.capability = c => x.state = "demonstrated"
<1> DEFINE own == Within(s, {c})
<1>1. own # <<>> /\ own[1].state = "demonstrated"
    BY DEF Leading
<1>2. /\ own \in Seq(ClaimPool) /\ Range(own) = {x \in Range(s) : x.capability \in {c}}
      /\ Ascends(own, Caution)
    BY WithinFacts
<1> HIDE DEF own
<1>3. own[1] \in Range(own) /\ own[1] \in ClaimPool /\ \A x \in Range(own) : Caution[own[1]] <= Caution[x]
    BY <1>1, <1>2, CautionTypes, FirstIsLeast
<1>4. ASSUME NEW x \in Range(s), x.capability = c PROVE x.state = "demonstrated"
    <2>1. x \in Range(own) /\ x \in ClaimPool
        BY <1>2, <1>4, Elements
    <2> QED BY <1>1, <1>3, <2>1, PriorityFacts
<1> QED BY <1>2, <1>3, <1>4

-----------------------------------------------------------------------------
(* The task: what a budget keeps *)

IsDemand(of) == \A c \in DOMAIN of : of[c] \in {"required", "supporting"}

Weight(of) ==
    [c \in ClaimPool |->
        IF c.capability \in Required(of) THEN Priority(c.state) ELSE 5 + Priority(c.state)]

LEMMA RetentionFacts ==
    ASSUME NEW s \in Seq(ClaimPool), Ascends(s, Caution), NEW of
    PROVE  /\ Retention(of, s) \in Seq(ClaimPool)
           /\ Range(Retention(of, s)) = {x \in Range(s) : x.capability \in DOMAIN of}
           /\ Ascends(Retention(of, s), Weight(of))
<1> DEFINE r == Within(s, Required(of))
           u == Within(s, DOMAIN of \ Required(of))
           W == Weight(of)
<1>1. /\ r \in Seq(ClaimPool) /\ Range(r) = {x \in Range(s) : x.capability \in Required(of)}
      /\ Ascends(r, Caution)
    BY WithinFacts
<1>2. /\ u \in Seq(ClaimPool)
      /\ Range(u) = {x \in Range(s) : x.capability \in DOMAIN of \ Required(of)}
      /\ Ascends(u, Caution)
    BY WithinFacts
<1>3. Retention(of, s) = r \o u
    BY DEF Retention
<1> HIDE DEF r, u
<1>4. Range(s) \subseteq ClaimPool
    BY Elements
<1>5. W \in [ClaimPool -> Nat]
    <2>1. \A c \in ClaimPool : Priority(c.state) \in Nat
        BY PriorityFacts
    <2> QED BY <2>1 DEF Weight
<1>6. /\ \A x \in Range(r) : W[x] = Caution[x] /\ Caution[x] \in 0..4
      /\ \A x \in Range(u) : W[x] = 5 + Caution[x] /\ Caution[x] \in 0..4
    BY <1>1, <1>2, <1>4, PriorityFacts DEF Weight
<1> HIDE DEF W
<1>7. Ascends(r, W)
    <2>1. \A x, y \in Range(r) : Caution[x] <= Caution[y] => W[x] <= W[y]
        BY <1>6
    <2> QED BY <1>1, <2>1, AscendsToo
<1>8. Ascends(u, W)
    <2>1. \A x, y \in Range(u) : Caution[x] <= Caution[y] => W[x] <= W[y]
        BY <1>6
    <2> QED BY <1>2, <2>1, AscendsToo
<1>9. Ascends(r \o u, W)
    <2>1. \A x \in Range(r), y \in Range(u) : W[x] <= W[y]
        BY <1>6
    <2>2. PICK R \in [ClaimPool -> Nat] : R = W
        BY <1>5
    <2>3. Ascends(r \o u, R)
        BY <1>1, <1>2, <1>7, <1>8, <2>1, <2>2, ConcatAscends
    <2> QED BY <2>2, <2>3
<1>10. r \o u \in Seq(ClaimPool) /\ Range(r \o u) = Range(r) \cup Range(u)
    BY <1>1, <1>2, ConcatElements
<1>11. Range(r) \cup Range(u) = {x \in Range(s) : x.capability \in DOMAIN of}
    BY <1>1, <1>2 DEF Required
<1> QED BY <1>3, <1>9, <1>10, <1>11 DEF W

\* Every attempt holds all the claims, or some of the first of them and what tells of
\* those it leaves out.
Whole(of, s, a) ==
    a.claims = Range(s) /\ Material(Uncertainties(of, s)) \subseteq a.uncertainties
Shortened(of, s, a) ==
    /\ \E n \in 0..Len(Retention(of, s)) : a.claims = Range(SubSeq(Retention(of, s), 1, n))
    /\ Material(Uncertainties(of, s)) \cup Omitted(of, s, a.claims) \subseteq a.uncertainties

LEMMA AttemptFacts ==
    ASSUME NEW s, NEW of, Retention(of, s) \in Seq(ClaimPool), NEW i \in DOMAIN Attempts(of, s)
    PROVE  /\ i \in Nat
           /\ \/ Whole(of, s, Attempts(of, s)[i])
              \/ Shortened(of, s, Attempts(of, s)[i])
<1> DEFINE full == Range(s)
           doubts == Uncertainties(of, s)
           order == Retention(of, s)
           m == Len(order)
           A(kept, doubted, reduction) ==
               [claims |-> kept, uncertainties |-> doubted, reduction |-> reduction]
           First(n) == Range(SubSeq(order, 1, n))
           Shorter(n) == A(First(n), Material(doubts) \cup Omitted(of, s, First(n)), "claim-summaries")
           first == <<A(full, doubts, "none"), A(full, doubts, "claim-limitations"),
                      A(full, doubts, "non-demonstrated-evidence-references"),
                      A(full, Material(doubts), "non-material-uncertainties")>>
           rest == [k \in 1..m |-> Shorter(m - k)]
<1>1. Attempts(of, s) = first \o rest
    BY Zenon DEF Attempts
<1>2. m \in Nat
    BY LenProperties
<1>3. Material(doubts) \subseteq doubts
    BY DEF Material
<1>4. \A k \in 1..4 : Whole(of, s, first[k])
    <2>1. ASSUME NEW k \in 1..4 PROVE Whole(of, s, first[k])
        <3>1. k = 1 \/ k = 2 \/ k = 3 \/ k = 4
            OBVIOUS
        <3>2. /\ first[k].claims = full
              /\ first[k].uncertainties = doubts \/ first[k].uncertainties = Material(doubts)
            <4> HIDE DEF full, doubts
            <4> QED BY <3>1
        <3> QED BY <1>3, <3>2 DEF Whole
    <2> QED BY <2>1
<1>5. \A k \in 1..m : Shortened(of, s, rest[k])
    <2> SUFFICES ASSUME NEW k \in 1..m PROVE Shortened(of, s, rest[k])
        OBVIOUS
    <2>1. rest[k] = Shorter(m - k) /\ m - k \in 0..m
        BY <1>2
    <2>2. /\ rest[k].claims = First(m - k)
          /\ rest[k].uncertainties = Material(doubts) \cup Omitted(of, s, First(m - k))
        <3> HIDE DEF First, doubts
        <3> QED BY <2>1
    <2> QED BY <2>1, <2>2 DEF Shortened
<1>6. first \in Seq({first[k] : k \in 1..4}) /\ Len(first) = 4
    <2> HIDE DEF full, doubts
    <2> QED OBVIOUS
<1>7. rest \in Seq({rest[k] : k \in 1..m}) /\ Len(rest) = m
    <2> HIDE DEF Shorter
    <2> QED BY <1>2
<1> HIDE DEF first, rest, m
<1>8. /\ DOMAIN (first \o rest) = 1..(4 + m)
      /\ \A k \in 1..(4 + m) : (first \o rest)[k] = IF k <= 4 THEN first[k] ELSE rest[k - 4]
    <2>1. PICK T : first \in Seq(T) /\ rest \in Seq(T)
        <3> DEFINE T == {first[k] : k \in 1..4} \cup {rest[k] : k \in 1..m}
        <3>1. /\ {first[k] : k \in 1..4} \subseteq T
              /\ {rest[k] : k \in 1..m} \subseteq T
            OBVIOUS
        <3> HIDE DEF T
        <3>2. first \in Seq(T)
            BY <1>6, <3>1, SeqMonotonic
        <3>3. rest \in Seq(T)
            BY <1>7, <3>1, SeqMonotonic
        <3> QED BY <3>2, <3>3
    <2>2. PICK a \in Seq(T), b \in Seq(T) : a = first /\ b = rest
        BY <2>1
    <2>3. /\ a \o b \in Seq(T) /\ Len(a \o b) = Len(a) + Len(b)
          /\ \A k \in 1..(Len(a) + Len(b)) :
                (a \o b)[k] = IF k <= Len(a) THEN a[k] ELSE b[k - Len(a)]
        BY ConcatProperties
    <2>4. DOMAIN (a \o b) = 1..Len(a \o b)
        BY <2>3, LenProperties
    <2> QED BY <1>2, <1>6, <1>7, <2>2, <2>3, <2>4
<1>9. i \in 1..(4 + m)
    BY <1>1, <1>8
<1>10. CASE i <= 4
    <2>1. i \in 1..4 /\ Attempts(of, s)[i] = first[i]
        BY <1>1, <1>2, <1>8, <1>9, <1>10
    <2> QED BY <1>4, <2>1
<1>11. CASE i > 4
    <2>1. i - 4 \in 1..m /\ i \in Nat /\ Attempts(of, s)[i] = rest[i - 4]
        BY <1>1, <1>2, <1>8, <1>9, <1>11
    <2> QED BY <1>5, <2>1
<1> QED BY <1>2, <1>9, <1>10, <1>11

\* What a compiled packet holds: an attempt, and the guidance of all the claims.
IsPacket(p, loaded, of) ==
    LET s == Cautious(Relevant(loaded, of))
    IN  /\ Whole(of, s, p) \/ Shortened(of, s, p)
        /\ p.mode = Mode(loaded.guided, s) /\ p.analogies = Analogies(s)

LEMMA CompiledFacts ==
    ASSUME NEW loaded, NEW of, NEW exceeded, loaded.claims \subseteq ClaimPool,
           Compiled(loaded, of, exceeded).status = "success"
    PROVE  IsPacket(Compiled(loaded, of, exceeded), loaded, of)
<1> DEFINE s == Cautious(Relevant(loaded, of))
           attempts == Attempts(of, s)
           fits == {i \in DOMAIN attempts : i > exceeded /\ WellFormed(of, s, attempts[i])}
           least == CHOOSE i \in fits : \A j \in fits : i <= j
           p == Compiled(loaded, of, exceeded)
<1>1. s \in Seq(ClaimPool) /\ Ascends(s, Caution)
    <2>1. Relevant(loaded, of) \subseteq ClaimPool
        BY DEF Relevant
    <2> QED BY <2>1, CautiousFacts
<1> HIDE DEF s
<1>2. Retention(of, s) \in Seq(ClaimPool)
    BY <1>1, RetentionFacts
<1>3. fits \subseteq DOMAIN attempts /\ fits \subseteq Nat
    BY <1>2, AttemptFacts
<1>4. p = IF fits = {} THEN [status |-> "budget-too-small"]
          ELSE LET chosen == attempts[least]
               IN  [status |-> "success", claims |-> chosen.claims,
                    uncertainties |-> chosen.uncertainties, reduction |-> chosen.reduction,
                    mode |-> Mode(loaded.guided, s), analogies |-> Analogies(s)]
    BY Zenon DEF Compiled, s
<1>5. p.status = "success"
    OBVIOUS
<1> HIDE DEF fits, p, attempts
<1>6. fits # {}
    BY <1>4, <1>5
<1>7. least \in fits
    BY <1>3, <1>6, LeastExists
<1> HIDE DEF least
<1>8. /\ p.claims = attempts[least].claims /\ p.uncertainties = attempts[least].uncertainties
      /\ p.mode = Mode(loaded.guided, s) /\ p.analogies = Analogies(s)
    BY <1>4, <1>6
<1>9. Whole(of, s, attempts[least]) \/ Shortened(of, s, attempts[least])
    BY <1>2, <1>3, <1>7, AttemptFacts DEF attempts
<1>10. Whole(of, s, p) \/ Shortened(of, s, p)
    BY <1>8, <1>9 DEF Whole, Shortened
<1> QED BY <1>8, <1>10 DEF IsPacket, s, p

LEMMA KeptFacts ==
    ASSUME NEW T, NEW order \in Seq(T), NEW n \in 0..Len(order)
    PROVE  /\ \A x \in Range(SubSeq(order, 1, n)) : \E i \in 1..n : order[i] = x
           /\ \A i \in 1..n : order[i] \in Range(SubSeq(order, 1, n))
<1> DEFINE k == SubSeq(order, 1, n)
<1>1. Len(order) \in Nat /\ n \in Nat /\ n <= Len(order)
    BY LenProperties
<1>2. k \in Seq(T) /\ Len(k) = n /\ \A i \in 1..n : k[i] = order[i]
    BY <1>1
<1> HIDE DEF k
<1>3. \A x \in Range(k) : \E i \in 1..n : k[i] = x
    BY <1>2, Elements
<1>4. \A i \in 1..n : k[i] \in Range(k)
    BY <1>2, Elements
<1> QED BY <1>2, <1>3, <1>4 DEF k

\* What a packet keeps of the claims considered, and what it leaves out.
LEMMA PacketFacts ==
    ASSUME NEW p, NEW loaded, NEW of, loaded.claims \subseteq ClaimPool, IsPacket(p, loaded, of)
    PROVE  LET C == Relevant(loaded, of)
               s == Cautious(C)
           IN  /\ C \subseteq ClaimPool /\ \A c \in C : c.capability \in DOMAIN of
               /\ s \in Seq(ClaimPool) /\ Range(s) = C /\ Ascends(s, Caution)
               /\ p.claims \subseteq C
               /\ \A left \in C \ p.claims, kept \in p.claims : Weight(of)[kept] <= Weight(of)[left]
               /\ Material(Uncertainties(of, s)) \subseteq p.uncertainties
               /\ p.claims = C \/ Omitted(of, s, p.claims) \subseteq p.uncertainties
<1> DEFINE C == Relevant(loaded, of)
           s == Cautious(C)
           order == Retention(of, s)
           W == Weight(of)
<1>1. C \subseteq ClaimPool /\ \A c \in C : c.capability \in DOMAIN of
    BY DEF Relevant
<1>2. Whole(of, s, p) \/ Shortened(of, s, p)
    BY DEF IsPacket
<1> HIDE DEF C
<1>3. s \in Seq(ClaimPool) /\ Range(s) = C /\ Ascends(s, Caution)
    BY <1>1, CautiousFacts
<1> HIDE DEF s
<1>4. order \in Seq(ClaimPool) /\ Range(order) = C /\ Ascends(order, W)
    <2>1. {x \in Range(s) : x.capability \in DOMAIN of} = C
        BY <1>1, <1>3
    <2> QED BY <1>3, <2>1, RetentionFacts
<1> HIDE DEF W
<1>5. CASE Whole(of, s, p)
    <2>1. p.claims = C /\ Material(Uncertainties(of, s)) \subseteq p.uncertainties
        BY <1>3, <1>5 DEF Whole
    <2>2. \A left \in C \ p.claims, kept \in p.claims : W[kept] <= W[left]
        BY <2>1
    <2> QED BY <1>1, <1>3, <2>1, <2>2 DEF C, s, W
<1>6. CASE Shortened(of, s, p)
    <2>1. PICK n \in 0..Len(order) : p.claims = Range(SubSeq(order, 1, n))
        BY <1>6 DEF Shortened
    <2>2. /\ Material(Uncertainties(of, s)) \subseteq p.uncertainties
          /\ Omitted(of, s, p.claims) \subseteq p.uncertainties
        BY <1>6 DEF Shortened
    <2> HIDE DEF order
    <2>3. /\ \A x \in p.claims : \E i \in 1..n : order[i] = x
          /\ \A i \in 1..n : order[i] \in p.claims
        BY <1>4, <2>1, KeptFacts
    <2>4. Len(order) \in Nat /\ n \in Nat /\ n <= Len(order)
        BY <1>4, LenProperties
    <2>5. ASSUME NEW x \in p.claims PROVE x \in C
        <3>1. PICK i \in 1..n : order[i] = x
            BY <2>3
        <3>2. i \in 1..Len(order)
            BY <2>4
        <3> QED BY <1>4, <3>1, <3>2, Elements
    <2>6. ASSUME NEW left \in C \ p.claims, NEW kept \in p.claims
          PROVE  W[kept] <= W[left]
        <3>1. PICK i \in 1..n : order[i] = kept
            BY <2>3
        <3>2. PICK j \in 1..Len(order) : order[j] = left
            BY <1>4, <2>6, Elements
        <3>3. ~(j <= n)
            BY <2>3, <2>4, <2>6, <3>2
        <3>4. i \in 1..Len(order) /\ i < j
            BY <2>4, <3>3
        <3> QED BY <1>4, <3>1, <3>2, <3>4 DEF Ascends
    <2> QED BY <1>1, <1>3, <2>2, <2>5, <2>6 DEF C, s, W
<1> QED BY <1>2, <1>5, <1>6

LEMMA PacketNeverSilent ==
    ASSUME NEW p, NEW loaded, NEW of, loaded.claims \subseteq ClaimPool, IsPacket(p, loaded, of),
           NEW c \in Required(of)
    PROVE  \/ \E u \in p.uncertainties : u.capability = c /\ u.material
           \/ /\ Of(p.claims, c) # {}
              /\ \A claim \in Of(Relevant(loaded, of), c) : claim.state = "demonstrated"
<1> DEFINE C == Relevant(loaded, of)
           s == Cautious(C)
<1>1. /\ s \in Seq(ClaimPool) /\ Range(s) = C /\ Ascends(s, Caution)
      /\ Material(Uncertainties(of, s)) \subseteq p.uncertainties
      /\ p.claims = C \/ Omitted(of, s, p.claims) \subseteq p.uncertainties
    BY PacketFacts
<1> HIDE DEF s, C
<1>2. c \in DOMAIN of /\ of[c] = "required"
    BY DEF Required
<1>3. CASE Leading(s, c) # "demonstrated"
    <2> DEFINE u == [capability |-> c, reason |-> Leading(s, c), material |-> of[c] = "required"]
    <2>1. u \in Uncertainties(of, s)
        BY <1>2, <1>3 DEF Uncertainties
    <2>2. u.capability = c /\ u.material
        BY <1>2
    <2>3. u \in Material(Uncertainties(of, s))
        BY <2>1, <2>2 DEF Material
    <2> QED BY <1>1, <2>2, <2>3
<1>4. CASE Leading(s, c) = "demonstrated"
    <2>1. /\ \E x \in C : x.capability = c
          /\ \A x \in C : x.capability = c => x.state = "demonstrated"
        BY <1>1, <1>4, LeadingFacts
    <2>2. \A claim \in Of(C, c) : claim.state = "demonstrated"
        BY <2>1 DEF Of
    <2>3. CASE \E x \in p.claims : x.capability = c
        <3>1. Of(p.claims, c) # {}
            BY <2>3 DEF Of
        <3> QED BY <2>2, <3>1 DEF C
    <2>4. CASE ~\E x \in p.claims : x.capability = c
        <3>1. p.claims # C
            BY <2>1, <2>4
        <3> DEFINE u == [capability |-> c, reason |-> "omitted-by-budget", material |-> TRUE]
        <3>2. u \in Omitted(of, s, p.claims)
            BY <1>4, <2>4 DEF Omitted
        <3>3. u.capability = c /\ u.material
            OBVIOUS
        <3> QED BY <1>1, <3>1, <3>2, <3>3
    <2> QED BY <2>3, <2>4
<1> QED BY <1>3, <1>4

LEMMA PacketKeepsCaution ==
    ASSUME NEW p, NEW loaded, NEW of, loaded.claims \subseteq ClaimPool, IsPacket(p, loaded, of),
           IsDemand(of), NEW left \in Relevant(loaded, of) \ p.claims, NEW kept \in p.claims
    PROVE  /\ of[kept.capability] = "supporting" => of[left.capability] = "supporting"
           /\ of[kept.capability] = of[left.capability]
              => Priority(kept.state) <= Priority(left.state)
<1>1. /\ left \in ClaimPool /\ kept \in ClaimPool
      /\ left.capability \in DOMAIN of /\ kept.capability \in DOMAIN of
      /\ Weight(of)[kept] <= Weight(of)[left]
    BY PacketFacts
<1>2. Priority(left.state) \in 0..4 /\ Priority(kept.state) \in 0..4
    BY <1>1, PriorityFacts
<1>3. /\ of[left.capability] \in {"required", "supporting"}
      /\ of[kept.capability] \in {"required", "supporting"}
    BY <1>1 DEF IsDemand
<1>4. /\ Weight(of)[left] = IF of[left.capability] = "required"
                            THEN Priority(left.state) ELSE 5 + Priority(left.state)
      /\ Weight(of)[kept] = IF of[kept.capability] = "required"
                            THEN Priority(kept.state) ELSE 5 + Priority(kept.state)
    BY <1>1 DEF Weight, Required
<1>5. PICK a \in 0..4, b \in 0..4 : a = Priority(left.state) /\ b = Priority(kept.state)
    BY <1>2
<1> QED BY <1>1, <1>3, <1>4, <1>5

LEMMA PacketGuides ==
    ASSUME NEW p, NEW loaded, NEW of, loaded.claims \subseteq ClaimPool, IsPacket(p, loaded, of)
    PROVE  /\ p.mode = "concise" => \A c \in Relevant(loaded, of) : c.state = "demonstrated"
           /\ p.mode = "analogy" =>
                 /\ \A c \in Relevant(loaded, of) : c.state \in {"demonstrated", "adjacent"}
                 /\ p.analogies # {}
<1> DEFINE C == Relevant(loaded, of)
           s == Cautious(C)
<1>1. s \in Seq(ClaimPool) /\ Range(s) = C /\ Ascends(s, Caution) /\ C \subseteq ClaimPool
    BY PacketFacts
<1>2. p.mode = Mode(loaded.guided, s) /\ p.analogies = Analogies(s)
    BY DEF IsPacket
<1> HIDE DEF s, C
<1>3. p.mode \in {"concise", "analogy"} => s # <<>> /\ p.mode = ModeOf(s[1].state)
    BY <1>2 DEF Mode
<1>4. s # <<>> => s[1] \in C /\ s[1] \in ClaimPool /\ \A x \in C : Caution[s[1]] <= Caution[x]
    BY <1>1, CautionTypes, FirstIsLeast
<1>5. CASE p.mode = "concise"
    <2>1. s # <<>> /\ s[1].state = "demonstrated"
        BY <1>3, <1>5 DEF ModeOf
    <2>2. ASSUME NEW x \in C PROVE x.state = "demonstrated"
        <3>1. x \in ClaimPool /\ Caution[s[1]] <= Caution[x]
            BY <1>1, <1>4, <2>1
        <3> QED BY <1>4, <2>1, <3>1, PriorityFacts
    <2> QED BY <1>5, <2>2 DEF C
<1>6. CASE p.mode = "analogy"
    <2>1. s # <<>> /\ s[1].state = "adjacent"
        BY <1>3, <1>6 DEF ModeOf
    <2>2. ASSUME NEW x \in C PROVE x.state \in {"demonstrated", "adjacent"}
        <3>1. x \in ClaimPool /\ Caution[s[1]] <= Caution[x]
            BY <1>1, <1>4, <2>1
        <3> QED BY <1>4, <2>1, <3>1, PriorityFacts
    <2>3. s[1].adjacentFrom # {} /\ s[1].adjacentFrom \subseteq Analogies(s)
        <3>1. s[1] \in {c \in Range(s) : c.state = "adjacent"}
            BY <1>1, <1>4, <2>1
        <3>2. s[1].adjacentFrom # {}
            BY <1>4, <2>1, ClaimAssumption
        <3> QED BY <3>1, <3>2 DEF Analogies
    <2> QED BY <1>2, <1>6, <2>2, <2>3 DEF C
<1> QED BY <1>5, <1>6

-----------------------------------------------------------------------------
(* The task: demands *)

LEMMA SmallSignatures ==
    ASSUME NEW S, IsFiniteSet(S), ~(Cardinality(S) > 1), NEW x \in S, NEW y \in S
    PROVE  x = y
<1>1. SUFFICES ASSUME x # y PROVE FALSE
    OBVIOUS
<1>2. IsFiniteSet({x}) /\ Cardinality({x}) = 1
    BY FS_Singleton
<1>3. Cardinality({x} \cup {y}) = 2
    BY <1>1, <1>2, FS_AddElement
<1>4. {x} \cup {y} \in SUBSET S
    OBVIOUS
<1>5. Cardinality({x} \cup {y}) <= Cardinality(S) /\ Cardinality(S) \in Nat
    BY <1>4, FS_Subset, FS_CardinalityType
<1> QED BY <1>3, <1>5

LEMMA SignaturesAgree ==
    ASSUME NEW operations, NEW demands, IsFiniteSet(DOMAIN demands),
           ~(Cardinality(Signatures(operations, demands)) > 1),
           NEW o \in DOMAIN demands, NEW q \in DOMAIN demands
    PROVE  demands[o] = demands[q]
<1> DEFINE D == DOMAIN demands
           S == Signatures(operations, demands)
           f == [i \in D |-> <<operations[i], demands[i]>>]
<1>1. S = {<<operations[i], demands[i]>> : i \in D}
    BY DEF Signatures
<1>2. f \in Surjection(D, S)
    <2>1. f \in [D -> S] /\ \A t \in S : \E i \in D : f[i] = t
        BY <1>1
    <2> QED BY <2>1 DEF Surjection
<1>3. IsFiniteSet(S)
    <2> HIDE DEF f, S
    <2> QED BY <1>2, FS_Surjection
<1>4. <<operations[o], demands[o]>> \in S /\ <<operations[q], demands[q]>> \in S
    BY <1>1
<1> HIDE DEF S
<1>5. <<operations[o], demands[o]>> = <<operations[q], demands[q]>>
    BY <1>3, <1>4, SmallSignatures DEF S
<1> QED BY <1>5

LEMMA DemandFacts ==
    ASSUME NEW task, NEW languages
    PROVE  /\ DOMAIN DemandOf(task, languages) = DOMAIN task \cup languages
           /\ \A c \in DOMAIN task : DemandOf(task, languages)[c] = task[c]
           /\ \A c \in languages \ DOMAIN task : DemandOf(task, languages)[c] = "supporting"
           /\ IsDemand(task) => IsDemand(DemandOf(task, languages))
BY DEF DemandOf, IsDemand

\* What all interpretations share is what each of them demands, when they agree.
LEMMA CommonIsEach ==
    ASSUME NEW M, NEW languages, languages \subseteq Capabilities, NEW d,
           \A t \in M : IsDemand(t) /\ DOMAIN t \subseteq Capabilities /\ DemandOf(t, languages) = d,
           M # {}
    PROVE  DemandOf(Common(M), languages) = d
<1> DEFINE all == Common(M)
           e == DemandOf(all, languages)
<1>1. /\ DOMAIN all = {c \in Capabilities : \A t \in M : c \in DOMAIN t}
      /\ \A c \in DOMAIN all : all[c] = IF \A t \in M : c \in Required(t) THEN "required" ELSE "supporting"
    BY DEF Common
<1> HIDE DEF all
<1>2. /\ DOMAIN e = DOMAIN all \cup languages
      /\ \A c \in DOMAIN all : e[c] = all[c]
      /\ \A c \in languages \ DOMAIN all : e[c] = "supporting"
    BY DemandFacts
<1>3. ASSUME NEW t \in M
      PROVE  /\ DOMAIN d = DOMAIN t \cup languages
             /\ \A c \in DOMAIN t : d[c] = t[c]
             /\ \A c \in languages \ DOMAIN t : d[c] = "supporting"
    <2>1. DemandOf(t, languages) = d
        OBVIOUS
    <2>2. /\ DOMAIN DemandOf(t, languages) = DOMAIN t \cup languages
          /\ \A c \in DOMAIN t : DemandOf(t, languages)[c] = t[c]
          /\ \A c \in languages \ DOMAIN t : DemandOf(t, languages)[c] = "supporting"
        BY DemandFacts, Zenon
    <2> QED BY <2>1, <2>2, Zenon
<1>4. e = [c \in DOMAIN e |-> e[c]]
    BY DEF DemandOf
<1>5. d = [c \in DOMAIN d |-> d[c]]
    BY DEF DemandOf
<1> HIDE DEF e
<1>6. DOMAIN e = DOMAIN d
    <2>1. PICK t \in M : TRUE
        OBVIOUS
    <2>2. ASSUME NEW c \in DOMAIN e PROVE c \in DOMAIN d
        BY <1>1, <1>2, <1>3, <2>1
    <2>3. ASSUME NEW c \in DOMAIN d PROVE c \in DOMAIN e
        <3>1. CASE c \in languages
            BY <1>2, <3>1
        <3>2. CASE c \notin languages
            <4>1. \A u \in M : c \in DOMAIN u
                BY <1>3, <3>2
            <4>2. c \in Capabilities
                BY <2>1, <4>1
            <4> QED BY <1>1, <1>2, <4>1, <4>2
        <3> QED BY <3>1, <3>2
    <2> QED BY <2>2, <2>3
<1>7. ASSUME NEW c \in DOMAIN e PROVE e[c] = d[c]
    <2>1. CASE c \in DOMAIN all
        <3>1. \A t \in M : c \in DOMAIN t /\ t[c] = d[c] /\ d[c] \in {"required", "supporting"}
            BY <1>1, <1>3, <2>1 DEF IsDemand
        <3>2. (\A t \in M : c \in Required(t)) <=> d[c] = "required"
            BY <3>1 DEF Required
        <3>3. d[c] \in {"required", "supporting"}
            BY <3>1
        <3> QED BY <1>1, <1>2, <2>1, <3>2, <3>3
    <2>2. CASE c \notin DOMAIN all
        <3>1. c \in languages /\ c \in Capabilities
            BY <1>2, <2>2
        <3>2. PICK t \in M : c \notin DOMAIN t
            BY <1>1, <2>2, <3>1
        <3> QED BY <1>2, <1>3, <2>2, <3>1, <3>2
    <2> QED BY <2>1, <2>2
<1>8. [c \in DOMAIN e |-> e[c]] = [c \in DOMAIN d |-> d[c]]
    BY <1>6, <1>7
<1>9. e = d
    BY Zenon, <1>4, <1>5, <1>8
<1> QED BY <1>9 DEF e, all

LEMMA TaskFacts ==
    ASSUME NEW X, NEW t \in Tasks(X)
    PROVE  IsDemand(t) /\ DOMAIN t \subseteq X
BY DEF Tasks, IsDemand

LEMMA MergedFacts ==
    ASSUME NEW base, NEW extra
    PROVE  IsDemand(Merged(base, extra)) /\ DOMAIN Merged(base, extra) = DOMAIN base \cup DOMAIN extra
BY DEF Merged, IsDemand

LEMMA CommonTypes ==
    ASSUME NEW M
    PROVE  IsDemand(Common(M))
BY DEF Common, IsDemand

-----------------------------------------------------------------------------
(* The task: the invariant *)

TaskInv ==
    /\ demand.status = "none" => DOMAIN offered = {}
    /\ demand.status = "ready" =>
          IsDemand(demand.of) /\ \A o \in DOMAIN offered : offered[o] = demand.of
    /\ demand.status = "clarification-required" => \A o \in DOMAIN offered : IsDemand(offered[o])
    /\ packet.status = "success" =>
          /\ demand.status = "ready" /\ profile.claims \subseteq ClaimPool
          /\ IsPacket(packet, profile, demand.of)

LEMMA TaskStarts ==
    ASSUME ContextInit
    PROVE  TaskInv
BY DEF ContextInit, TaskInv, Refused, Unanswered

\* What a task demands, with interpretations or without.
LEMMA ProduceFacts ==
    ASSUME NEW base, NEW readings, NEW operations, NEW languages,
           languages \subseteq Capabilities, IsDemand(base), DOMAIN offered = {},
           \/ DOMAIN readings = {}
           \/ /\ IsFiniteSet(DOMAIN readings) /\ DOMAIN base \subseteq Capabilities
              /\ \A o \in DOMAIN readings : IsDemand(readings[o]) /\ DOMAIN readings[o] \subseteq Capabilities,
           Produce(base, readings, operations, languages)
    PROVE  /\ UNCHANGED <<profile, packet>>
           /\ \/ demand' = Refused("limit-exceeded")
              \/ /\ demand' = Refused("clarification-required")
                 /\ \A o \in DOMAIN offered' : IsDemand(offered'[o])
              \/ /\ demand'.status = "ready" /\ IsDemand(demand'.of)
                 /\ \A o \in DOMAIN offered' : offered'[o] = demand'.of
<1> DEFINE D == DOMAIN readings
           merged == [o \in D |-> Merged(base, readings[o])]
           demands == [o \in D |-> DemandOf(merged[o], languages)]
           M == {merged[o] : o \in D}
           ready == IF D = {} THEN base ELSE Common(M)
           many == \E d \in {DemandOf(base, languages)} \cup {demands[o] : o \in D} : TooMany(d)
<1>1. /\ IF many
         THEN demand' = Refused("limit-exceeded") /\ UNCHANGED offered
         ELSE /\ demand' = IF Cardinality(Signatures(operations, demands)) > 1
                           THEN Refused("clarification-required")
                           ELSE Ready(DemandOf(ready, languages))
              /\ offered' = demands
      /\ UNCHANGED <<profile, packet>>
    BY Zenon DEF Produce
<1>2. /\ DOMAIN merged = D /\ DOMAIN demands = D
      /\ \A o \in D : /\ merged[o] = Merged(base, readings[o])
                      /\ demands[o] = DemandOf(merged[o], languages)
    OBVIOUS
<1> HIDE DEF many, merged, demands, ready
<1>3. ASSUME NEW o \in D PROVE IsDemand(merged[o]) /\ IsDemand(demands[o])
    <2>1. IsDemand(Merged(base, readings[o])) /\ merged[o] = Merged(base, readings[o])
        BY <1>2, MergedFacts
    <2>2. IsDemand(merged[o])
        BY Zenon, <2>1
    <2>3. IsDemand(DemandOf(merged[o], languages))
        BY <2>2, DemandFacts
    <2> QED BY Zenon, <1>2, <2>2, <2>3
<1>4. CASE many
    BY <1>1, <1>4
<1>5. CASE ~many /\ Cardinality(Signatures(operations, demands)) > 1
    BY <1>1, <1>2, <1>3, <1>5
<1>6. CASE ~many /\ ~(Cardinality(Signatures(operations, demands)) > 1)
    <2>1. demand' = Ready(DemandOf(ready, languages)) /\ offered' = demands
        BY <1>1, <1>6
    <2>2. demand'.status = "ready" /\ demand'.of = DemandOf(ready, languages)
        BY <2>1 DEF Ready
    <2>3. IsDemand(demand'.of)
        <3>1. IsDemand(ready)
            BY CommonTypes DEF ready
        <3>2. IsDemand(DemandOf(ready, languages))
            BY <3>1, DemandFacts
        <3> QED BY <2>2, <3>2
    <2>4. ASSUME NEW o \in D PROVE demands[o] = demand'.of
        <3>1. /\ IsFiniteSet(D) /\ DOMAIN base \subseteq Capabilities
              /\ \A q \in D : DOMAIN readings[q] \subseteq Capabilities
            OBVIOUS
        <3>2. \A q \in D : demands[q] = demands[o]
            BY <1>2, <1>6, <3>1, SignaturesAgree
        <3>3. ASSUME NEW q \in D PROVE DOMAIN merged[q] \subseteq Capabilities
            <4>1. DOMAIN merged[q] = DOMAIN base \cup DOMAIN readings[q]
                BY <1>2, MergedFacts
            <4> QED BY <3>1, <4>1
        <3>4. ready = Common(M) /\ M # {}
            BY <2>4 DEF ready
        <3>5. \A t \in M : IsDemand(t) /\ DOMAIN t \subseteq Capabilities
                           /\ DemandOf(t, languages) = demands[o]
            BY <1>2, <1>3, <3>2, <3>3
        <3>6. DemandOf(Common(M), languages) = demands[o]
            <4> HIDE DEF M
            <4> QED BY <3>4, <3>5, CommonIsEach
        <3> QED BY <2>2, <3>4, <3>6
    <2>5. \A o \in DOMAIN offered' : offered'[o] = demand'.of
        BY <1>2, <2>1, <2>4
    <2> QED BY <1>1, <2>2, <2>3, <2>5
<1> QED BY <1>4, <1>5, <1>6

LEMMA TaskAfterProduce ==
    ASSUME TaskInv, demand.status = "none", UNCHANGED <<profile, packet>>,
           \/ demand' = Refused("limit-exceeded")
           \/ /\ demand' = Refused("clarification-required")
              /\ \A o \in DOMAIN offered' : IsDemand(offered'[o])
           \/ /\ demand'.status = "ready" /\ IsDemand(demand'.of)
              /\ \A o \in DOMAIN offered' : offered'[o] = demand'.of
    PROVE  TaskInv'
<1>1. packet'.status # "success"
    BY DEF TaskInv
<1>2. \/ demand'.status = "limit-exceeded"
      \/ /\ demand'.status = "clarification-required"
         /\ \A o \in DOMAIN offered' : IsDemand(offered'[o])
      \/ /\ demand'.status = "ready" /\ IsDemand(demand'.of)
         /\ \A o \in DOMAIN offered' : offered'[o] = demand'.of
    BY DEF Refused
<1> QED BY <1>1, <1>2 DEF TaskInv

LEMMA TaskAfterContext ==
    ASSUME TaskInv, demand.status = "none", NEW requested, NEW languages, NEW loaded \in Profiles,
           NEW exceeded, GetTaskContext(requested, languages, loaded, exceeded)
    PROVE  TaskInv'
<1> DEFINE of == DemandOf([c \in requested |-> "required"], languages)
<1>1. /\ profile' = loaded /\ UNCHANGED offered
      /\ \/ demand' = Refused("limit-exceeded") /\ packet' = [status |-> "profile-unavailable"]
         \/ demand' = Ready(of) /\ packet' = Compiled(loaded, of, exceeded)
    BY DEF GetTaskContext
<1>2. IsDemand(of)
    <2>1. IsDemand([c \in requested |-> "required"])
        BY DEF IsDemand
    <2> QED BY <2>1, DemandFacts
<1> HIDE DEF of
<1>3. loaded.claims \subseteq ClaimPool
    BY DEF Profiles
<1>4. DOMAIN offered' = {}
    BY <1>1 DEF TaskInv
<1>5. CASE demand' = Refused("limit-exceeded") /\ packet' = [status |-> "profile-unavailable"]
    BY <1>5 DEF TaskInv, Refused
<1>6. CASE demand' = Ready(of) /\ packet' = Compiled(loaded, of, exceeded)
    <2>1. demand'.status = "ready" /\ demand'.of = of
        BY <1>6 DEF Ready
    <2>2. packet'.status = "success" => IsPacket(packet', profile', demand'.of)
        BY <1>1, <1>3, <1>6, <2>1, CompiledFacts
    <2> QED BY <1>1, <1>2, <1>3, <1>4, <2>1, <2>2 DEF TaskInv
<1> QED BY <1>1, <1>5, <1>6

LEMMA TaskStep ==
    ASSUME TaskInv, [ContextNext]_contextVars
    PROVE  TaskInv'
<1>1. ASSUME demand.status = "none", NEW languages \in SUBSET Languages, NEW base \in Tasks(Languages),
             NEW readings \in [Options -> Tasks(Languages)],
             NEW operations \in [Options -> TaskOperations], Produce(base, readings, operations, languages)
      PROVE  TaskInv'
    <2>1. /\ IsFiniteSet(DOMAIN readings) /\ DOMAIN base \subseteq Capabilities
          /\ languages \subseteq Capabilities /\ IsDemand(base)
          /\ \A o \in DOMAIN readings : IsDemand(readings[o]) /\ DOMAIN readings[o] \subseteq Capabilities
        BY TaskFacts, ClaimAssumption
    <2>2. DOMAIN offered = {}
        BY <1>1 DEF TaskInv
    <2>3. /\ UNCHANGED <<profile, packet>>
          /\ \/ demand' = Refused("limit-exceeded")
             \/ /\ demand' = Refused("clarification-required")
                /\ \A o \in DOMAIN offered' : IsDemand(offered'[o])
             \/ /\ demand'.status = "ready" /\ IsDemand(demand'.of)
                /\ \A o \in DOMAIN offered' : offered'[o] = demand'.of
        BY <1>1, <2>1, <2>2, ProduceFacts
    <2> QED BY <1>1, <2>3, TaskAfterProduce
<1>2. ASSUME demand.status = "none", NEW languages \in SUBSET Languages,
             NEW base \in Tasks(Capabilities), Produce(base, <<>>, <<>>, languages)
      PROVE  TaskInv'
    <2>1. languages \subseteq Capabilities /\ IsDemand(base) /\ DOMAIN <<>> = {}
        BY TaskFacts, ClaimAssumption
    <2>2. DOMAIN offered = {}
        BY <1>2 DEF TaskInv
    <2>3. /\ UNCHANGED <<profile, packet>>
          /\ \/ demand' = Refused("limit-exceeded")
             \/ /\ demand' = Refused("clarification-required")
                /\ \A o \in DOMAIN offered' : IsDemand(offered'[o])
             \/ /\ demand'.status = "ready" /\ IsDemand(demand'.of)
                /\ \A o \in DOMAIN offered' : offered'[o] = demand'.of
        BY <1>2, <2>1, <2>2, ProduceFacts
    <2> QED BY <1>2, <2>3, TaskAfterProduce
<1>3. ASSUME demand.status = "none", NEW requested \in SUBSET Capabilities, NEW languages,
             NEW loaded \in Profiles, NEW exceeded \in Budgets,
             GetTaskContext(requested, languages, loaded, exceeded)
      PROVE  TaskInv'
    BY <1>3, TaskAfterContext
<1>4. ASSUME NEW o \in DOMAIN offered, Resolve(o)
      PROVE  TaskInv'
    <2>1. /\ demand.status = "clarification-required" /\ demand' = Ready(offered[o])
          /\ offered' = <<>> /\ UNCHANGED <<profile, packet>>
        BY <1>4 DEF Resolve
    <2>2. packet'.status # "success" /\ IsDemand(offered[o])
        BY <2>1 DEF TaskInv
    <2>3. demand'.status = "ready" /\ demand'.of = offered[o] /\ DOMAIN offered' = {}
        BY <2>1 DEF Ready
    <2> QED BY <2>2, <2>3 DEF TaskInv
<1>5. ASSUME demand.status = "ready", NEW loaded \in Profiles, NEW exceeded \in Budgets,
             Compile(loaded, exceeded)
      PROVE  TaskInv'
    <2>1. /\ profile' = loaded /\ packet' = Compiled(loaded, demand.of, exceeded)
          /\ offered' = <<>> /\ UNCHANGED demand
        BY <1>5 DEF Compile
    <2>2. loaded.claims \subseteq ClaimPool
        BY DEF Profiles
    <2>3. packet'.status = "success" => IsPacket(packet', profile', demand'.of)
        BY <2>1, <2>2, CompiledFacts
    <2>4. DOMAIN offered' = {} /\ IsDemand(demand'.of)
        BY <1>5, <2>1 DEF TaskInv
    <2> QED BY <1>5, <2>1, <2>2, <2>3, <2>4 DEF TaskInv
<1>6. CASE UNCHANGED contextVars
    BY <1>6 DEF contextVars, TaskInv, IsPacket
<1> QED BY <1>1, <1>2, <1>3, <1>4, <1>5, <1>6 DEF ContextNext, GetFixtureContext

LEMMA TaskInvariant == AllSpec => []TaskInv
<1>1. AllInit => TaskInv
    BY TaskStarts DEF AllInit
<1>2. TaskInv /\ [AllNext]_allVars => TaskInv'
    BY StepsOfParts, TaskStep
<1> QED BY <1>1, <1>2, PTL DEF AllSpec

\* A packet is never silent about what it is unsure of: a required capability is told
\* of, what the budget leaves out matters least, and a question that could matter is
\* asked, for any claims, tasks, capabilities and bounds (dcp-compiler.ts:158).
THEOREM CautionIsAlwaysKept == AllSpec => []CautionIsKept
<1>1. ASSUME TaskInv PROVE CautionIsKept
    <2>1. QuestionSkippedOnlyIfMoot
        BY <1>1 DEF TaskInv, QuestionSkippedOnlyIfMoot
    <2>2. RequiredNeverSilent
        BY <1>1, PacketNeverSilent DEF TaskInv, RequiredNeverSilent, Answered, Considered
    <2>3. CautionSurvivesBudget
        BY <1>1, PacketKeepsCaution DEF TaskInv, CautionSurvivesBudget, Answered, Considered
    <2> QED BY <2>1, <2>2, <2>3 DEF CautionIsKept
<1> QED BY <1>1, TaskInvariant, PTL

\* The guidance of a packet covers every claim considered, those the budget leaves out
\* included, for any claims and budgets (claim-response-policy.ts:45).
THEOREM GuidanceAlwaysCovers == AllSpec => []GuidanceCoversAllClaims
<1>1. ASSUME TaskInv PROVE GuidanceCoversAllClaims
    BY <1>1, PacketGuides DEF TaskInv, GuidanceCoversAllClaims, Answered, Considered
<1> QED BY <1>1, TaskInvariant, PTL


-----------------------------------------------------------------------------
(* Evidence: worlds *)

\* What the proofs need of a world: also of one without projects.
GoodWorld(w) ==
    /\ w = [files |-> w.files, commits |-> w.commits, squashes |-> w.squashes, pairs |-> w.pairs,
            marked |-> w.marked, forks |-> w.forks, projects |-> w.projects, edits |-> w.edits]
    /\ w.commits \in Seq(CommitRecords)
    /\ w.squashes \cup w.pairs \subseteq DOMAIN w.commits

\* A world after an edit: history only grows, and so do the annotations.
Grown(w, v) ==
    /\ Len(w.commits) <= Len(v.commits)
    /\ \A i \in 1..Len(w.commits) : v.commits[i] = w.commits[i]
    /\ w.squashes \subseteq v.squashes /\ w.pairs \subseteq v.pairs
    /\ w.marked \subseteq v.marked /\ w.forks \subseteq v.forks

LEMMA WorldsAreGood ==
    ASSUME NEW w \in Worlds
    PROVE  GoodWorld(w)
BY DEF Worlds, GoodWorld

LEMMA CommitFacts ==
    ASSUME NEW w, GoodWorld(w)
    PROVE  /\ Len(w.commits) \in Nat /\ DOMAIN w.commits = 1..Len(w.commits)
           /\ \A i \in DOMAIN w.commits : w.commits[i].author \in Participants
<1>1. w.commits \in Seq(CommitRecords)
    BY DEF GoodWorld
<1>2. Len(w.commits) \in Nat /\ DOMAIN w.commits = 1..Len(w.commits)
    BY <1>1, LenProperties
<1>3. \A i \in DOMAIN w.commits : w.commits[i] \in CommitRecords
    BY <1>1, <1>2, ElementOfSeq
<1> QED BY <1>2, <1>3 DEF CommitRecords

LEMMA EditStep ==
    ASSUME GoodWorld(world), DerivationNext, ~\E stale \in BOOLEAN : Derive(stale)
    PROVE  GoodWorld(world') /\ Grown(world, world') /\ changes' = NoChanges
<1> DEFINE n == Len(world.commits)
           After(changed) == world' = [changed EXCEPT !.edits = @ + 1] /\ changes' = NoChanges
           Same(v) == v.commits = world.commits
<1>1. n \in Nat /\ DOMAIN world.commits = 1..n /\ world.commits \in Seq(CommitRecords)
    BY CommitFacts DEF GoodWorld
<1>2. /\ world = [files |-> world.files, commits |-> world.commits, squashes |-> world.squashes,
                  pairs |-> world.pairs, marked |-> world.marked, forks |-> world.forks,
                  projects |-> world.projects, edits |-> world.edits]
      /\ world.squashes \cup world.pairs \subseteq DOMAIN world.commits
    BY DEF GoodWorld
<1>3. ASSUME NEW shape \in Shapes, NEW changed \in SUBSET Places, Commit(shape, changed)
      PROVE  GoodWorld(world') /\ Grown(world, world') /\ changes' = NoChanges
    <2>1. PICK r \in Repositories :
             WorldEdit([world EXCEPT !.commits =
                 Append(@, [author |-> shape.author, coauthors |-> shape.coauthors,
                            changed |-> changed, repository |-> r])])
        BY <1>3 DEF Commit
    <2> DEFINE c == [author |-> shape.author, coauthors |-> shape.coauthors,
                     changed |-> changed, repository |-> r]
               h == Append(world.commits, c)
    <2>2. c \in CommitRecords
        BY DerivationAssumption DEF CommitRecords
    <2> HIDE DEF c
    <2>3. /\ h \in Seq(CommitRecords) /\ Len(h) = n + 1 /\ DOMAIN h = 1..(n + 1)
          /\ \A i \in 1..n : h[i] = world.commits[i]
        BY <1>1, <2>2, AppendProperties, LenProperties
    <2> HIDE DEF h
    <2>4. /\ world' = [[world EXCEPT !.commits = h] EXCEPT !.edits = @ + 1]
          /\ changes' = NoChanges
        BY <2>1 DEF WorldEdit, c, h
    <2>5. world' = [files |-> world.files, commits |-> h, squashes |-> world.squashes,
                    pairs |-> world.pairs, marked |-> world.marked, forks |-> world.forks,
                    projects |-> world.projects, edits |-> world.edits + 1]
        BY <1>2, <2>4
    <2>6. GoodWorld(world')
        BY <1>1, <1>2, <2>3, <2>5 DEF GoodWorld
    <2>7. Grown(world, world')
        BY <1>1, <2>3, <2>5 DEF Grown
    <2> QED BY <2>4, <2>6, <2>7
<1>4. ASSUME NEW v, v = [files |-> v.files, commits |-> v.commits, squashes |-> v.squashes,
                         pairs |-> v.pairs, marked |-> v.marked, forks |-> v.forks,
                         projects |-> v.projects, edits |-> v.edits],
             v.commits = world.commits, world.squashes \subseteq v.squashes,
             world.pairs \subseteq v.pairs, v.squashes \cup v.pairs \subseteq DOMAIN world.commits,
             world.marked \subseteq v.marked, world.forks \subseteq v.forks, WorldEdit(v)
      PROVE  GoodWorld(world') /\ Grown(world, world') /\ changes' = NoChanges
    <2>1. world' = [files |-> v.files, commits |-> v.commits, squashes |-> v.squashes,
                    pairs |-> v.pairs, marked |-> v.marked, forks |-> v.forks,
                    projects |-> v.projects, edits |-> v.edits + 1]
          /\ changes' = NoChanges
        BY <1>4 DEF WorldEdit
    <2>2. GoodWorld(world')
        BY <1>1, <1>4, <2>1 DEF GoodWorld
    <2>3. Grown(world, world')
        BY <1>1, <1>4, <2>1 DEF Grown
    <2> QED BY <2>1, <2>2, <2>3
<1>5. ASSUME NEW p, NEW content, EditFile(p, content)
      PROVE  GoodWorld(world') /\ Grown(world, world') /\ changes' = NoChanges
    <2> DEFINE v == [world EXCEPT !.files[p] = content]
    <2>1. WorldEdit(v)
        BY <1>5 DEF EditFile
    <2>2. v = [files |-> [world.files EXCEPT ![p] = content], commits |-> world.commits,
               squashes |-> world.squashes, pairs |-> world.pairs, marked |-> world.marked,
               forks |-> world.forks, projects |-> world.projects, edits |-> world.edits]
        BY <1>2
    <2> HIDE DEF v
    <2> QED BY <1>2, <1>4, <2>1, <2>2
<1>6. ASSUME NEW i \in DOMAIN world.commits, AnnotateSquash(i)
      PROVE  GoodWorld(world') /\ Grown(world, world') /\ changes' = NoChanges
    <2> DEFINE v == [world EXCEPT !.squashes = @ \cup {i}]
    <2>1. WorldEdit(v)
        BY <1>6 DEF AnnotateSquash
    <2>2. v = [files |-> world.files, commits |-> world.commits,
               squashes |-> world.squashes \cup {i}, pairs |-> world.pairs, marked |-> world.marked,
               forks |-> world.forks, projects |-> world.projects, edits |-> world.edits]
        BY <1>2
    <2> HIDE DEF v
    <2> QED BY <1>2, <1>4, <2>1, <2>2
<1>7. ASSUME NEW i \in DOMAIN world.commits, AnnotatePair(i)
      PROVE  GoodWorld(world') /\ Grown(world, world') /\ changes' = NoChanges
    <2> DEFINE v == [world EXCEPT !.pairs = @ \cup {i}]
    <2>1. WorldEdit(v)
        BY <1>7 DEF AnnotatePair
    <2>2. v = [files |-> world.files, commits |-> world.commits,
               squashes |-> world.squashes, pairs |-> world.pairs \cup {i}, marked |-> world.marked,
               forks |-> world.forks, projects |-> world.projects, edits |-> world.edits]
        BY <1>2
    <2> HIDE DEF v
    <2> QED BY <1>2, <1>4, <2>1, <2>2
<1>8. ASSUME NEW p, MarkPath(p)
      PROVE  GoodWorld(world') /\ Grown(world, world') /\ changes' = NoChanges
    <2> DEFINE v == [world EXCEPT !.marked = @ \cup {p}]
    <2>1. WorldEdit(v)
        BY <1>8 DEF MarkPath
    <2>2. v = [files |-> world.files, commits |-> world.commits,
               squashes |-> world.squashes, pairs |-> world.pairs, marked |-> world.marked \cup {p},
               forks |-> world.forks, projects |-> world.projects, edits |-> world.edits]
        BY <1>2
    <2> HIDE DEF v
    <2> QED BY <1>2, <1>4, <2>1, <2>2
<1>9. ASSUME NEW r, MarkFork(r)
      PROVE  GoodWorld(world') /\ Grown(world, world') /\ changes' = NoChanges
    <2> DEFINE v == [world EXCEPT !.forks = @ \cup {r}]
    <2>1. WorldEdit(v)
        BY <1>9 DEF MarkFork
    <2>2. v = [files |-> world.files, commits |-> world.commits,
               squashes |-> world.squashes, pairs |-> world.pairs, marked |-> world.marked,
               forks |-> world.forks \cup {r}, projects |-> world.projects, edits |-> world.edits]
        BY <1>2
    <2> HIDE DEF v
    <2> QED BY <1>2, <1>4, <2>1, <2>2
<1>10. ASSUME NEW r, NEW k, Assign(r, k)
       PROVE  GoodWorld(world') /\ Grown(world, world') /\ changes' = NoChanges
    <2> DEFINE v == [world EXCEPT !.projects[r] = k]
    <2>1. WorldEdit(v)
        BY <1>10 DEF Assign
    <2>2. v = [files |-> world.files, commits |-> world.commits,
               squashes |-> world.squashes, pairs |-> world.pairs, marked |-> world.marked,
               forks |-> world.forks, projects |-> [world.projects EXCEPT ![r] = k],
               edits |-> world.edits]
        BY <1>2
    <2> HIDE DEF v
    <2> QED BY <1>2, <1>4, <2>1, <2>2
<1> QED BY <1>3, <1>5, <1>6, <1>7, <1>8, <1>9, <1>10 DEF DerivationNext

-----------------------------------------------------------------------------
(* Evidence: what is whose *)

LEMMA AssociatedFacts ==
    ASSUME NEW w, NEW p
    PROVE  /\ Visible(w, RepositoryOf[p]) \subseteq DOMAIN w.commits
           /\ Associated(w, p) \subseteq DOMAIN w.commits
           /\ Associated(w, p) \subseteq Visible(w, RepositoryOf[p])
           /\ TargetCommits(w, p) \subseteq Associated(w, p)
BY DEF Associated, Visible, CommitsOf, TargetCommits

\* A commit counts exactly when the developer took part in it.
LEMMA TargetIsTheirs ==
    ASSUME NEW w, GoodWorld(w), NEW i \in DOMAIN w.commits
    PROVE  /\ AttributionOf(w, i) \in Target <=> TookPart(w.commits[i]) \/ i \in w.pairs
           /\ AttributionOf(w, i) = "attributed" =>
                 /\ i \notin w.pairs /\ w.commits[i].author = "developer"
                 /\ w.commits[i].coauthors = {}
           /\ AttributionOf(w, i) \notin Collaborative =>
                 /\ i \notin w.pairs
                 /\ TookPart(w.commits[i]) => w.commits[i].coauthors = {}
<1> DEFINE c == w.commits[i]
<1>1. c.author \in {"developer", "shared", "bot", "unknown"}
    BY CommitFacts DEF Participants, Alone
<1>2. /\ Alone["developer"] = "attributed" /\ Alone["shared"] = "shared"
      /\ Alone["bot"] = "bot" /\ Alone["unknown"] = "unknown"
    BY DEF Alone
<1> HIDE DEF c
<1>3. Alone[c.author] \in {"attributed", "shared", "bot", "unknown"}
      /\ (Alone[c.author] = "attributed" <=> c.author = "developer")
    BY <1>1, <1>2
<1>4. AttributionOf(w, i) = IF i \in w.pairs THEN "pair-work"
                            ELSE IF Participates(c) THEN "coauthored" ELSE Alone[c.author]
    BY DEF AttributionOf, c
<1>5. TookPart(c) <=> "developer" \in c.coauthors \/ c.author = "developer"
    BY DEF TookPart
<1>6. Participates(c) <=>
          "developer" \in c.coauthors \/ (c.author = "developer" /\ c.coauthors # {})
    BY DEF Participates
<1>7. CASE i \in w.pairs
    BY <1>4, <1>7 DEF Target, Collaborative
<1>8. CASE i \notin w.pairs /\ Participates(c)
    BY <1>4, <1>5, <1>6, <1>8 DEF Target, Collaborative, c
<1>9. CASE i \notin w.pairs /\ ~Participates(c)
    BY <1>3, <1>4, <1>5, <1>6, <1>9 DEF Target, Collaborative, c
<1> QED BY <1>7, <1>8, <1>9

LEMMA AttributableIsTheirs ==
    ASSUME NEW w, NEW p
    PROVE  Attributable(EvidenceAt(w, p)) <=> TargetCommits(w, p) # {}
<1> DEFINE states == {AttributionOf(w, i) : i \in Associated(w, p)}
           author == AuthorState(w, p)
<1>1. EvidenceAt(w, p).author = author
    BY DEF EvidenceAt
<1>2. author = IF states \cap Collaborative # {} THEN "coauthored"
               ELSE IF "attributed" \in states THEN "attributed"
               ELSE IF states = {"bot"} THEN "bot" ELSE "unknown"
    BY DEF AuthorState
<1>3. TargetCommits(w, p) # {} <=> states \cap Collaborative # {} \/ "attributed" \in states
    BY DEF TargetCommits, Target
<1> HIDE DEF states, author
<1> QED BY <1>1, <1>2, <1>3 DEF Attributable

LEMMA EvidenceFacts ==
    ASSUME NEW w, NEW p \in Present(w)
    PROVE  EvidenceOf(w)[p] = EvidenceAt(w, p)
BY DEF EvidenceOf

LEMMA EvidenceFields ==
    ASSUME NEW w, NEW p
    PROVE  /\ EvidenceAt(w, p).strength = Strength(w, p)
           /\ EvidenceAt(w, p).depth = DepthCeiling(w, p)
BY DEF EvidenceAt

LEMMA OwnedFacts ==
    ASSUME NEW w, NEW k
    PROVE  Owned(EvidenceOf(w), GroupOf(w, k)) = {p \in GroupOf(w, k) : TargetCommits(w, p) # {}}
<1>1. \A p \in GroupOf(w, k) : Attributable(EvidenceOf(w)[p]) <=> TargetCommits(w, p) # {}
    BY AttributableIsTheirs, EvidenceFacts DEF GroupOf
<1> QED BY <1>1 DEF Owned

LEMMA PracticalFacts ==
    ASSUME NEW w, NEW k
    PROVE  LET owned == Owned(EvidenceOf(w), GroupOf(w, k))
           IN  Practical(EvidenceOf(w), owned) =
                   {p \in owned : RiskFlags(w, p) = {} /\ Permitted(w, p) /\ ~Together(w, p)}
<1> DEFINE owned == Owned(EvidenceOf(w), GroupOf(w, k))
<1>1. \A p \in owned : p \in Present(w)
    BY DEF Owned, GroupOf
<1> HIDE DEF owned
<1>2. ASSUME NEW p \in owned
      PROVE  /\ EvidenceOf(w)[p].strength = "moderate" <=> RiskFlags(w, p) = {}
             /\ EvidenceOf(w)[p].depth = "practical-use" <=> Permitted(w, p) /\ ~Together(w, p)
    <2>1. /\ EvidenceOf(w)[p].strength = Strength(w, p)
          /\ EvidenceOf(w)[p].depth = DepthCeiling(w, p)
        BY <1>1, EvidenceFacts, EvidenceFields
    <2> QED BY <2>1 DEF Strength, DepthCeiling
<1>3. Practical(EvidenceOf(w), owned) =
          {p \in owned : EvidenceOf(w)[p].strength = "moderate"
                         /\ EvidenceOf(w)[p].depth = "practical-use"}
    BY DEF Practical
<1> QED BY <1>2, <1>3 DEF owned

LEMMA ClaimFields ==
    ASSUME NEW evidence, NEW group, NEW stale
    PROVE  LET claim == ClaimOf(evidence, group, stale)
               owned == Owned(evidence, group)
               practical == Practical(evidence, owned)
           IN  /\ claim.state = IF owned = {} THEN "insufficient-evidence" ELSE "demonstrated"
               /\ claim.depth = IF owned = {} THEN "none"
                                ELSE IF Cardinality(practical) >= 2 THEN "practical-use" ELSE "exposure"
               /\ claim.confidence = IF practical # {} THEN "medium" ELSE "low"
               /\ claim.refs = References(evidence, group)
               /\ claim.limitations =
                     ClaimNotes(evidence, owned, References(evidence, group),
                                Len(Ranked(evidence, group)) > Len(References(evidence, group)), stale)
BY DEF ClaimOf

LEMMA ClaimsFields ==
    ASSUME NEW w, NEW evidence, NEW stale
    PROVE  /\ DOMAIN ClaimsOf(w, evidence, stale) = {k \in Projects : GroupOf(w, k) # {}}
           /\ \A k \in DOMAIN ClaimsOf(w, evidence, stale) :
                 ClaimsOf(w, evidence, stale)[k] = ClaimOf(evidence, GroupOf(w, k), stale)
BY DEF ClaimsOf

\* A claim is demonstrated when the developer took part in a file of the project.
LEMMA DemonstratedFacts ==
    ASSUME NEW w, GoodWorld(w), NEW stale, NEW k \in DOMAIN ClaimsOf(w, EvidenceOf(w), stale)
    PROVE  (ClaimsOf(w, EvidenceOf(w), stale)[k].state = "demonstrated") <=>
               \E p \in GroupOf(w, k) : \E i \in Associated(w, p) :
                   TookPart(w.commits[i]) \/ i \in w.pairs
<1> DEFINE owned == Owned(EvidenceOf(w), GroupOf(w, k))
           claim == ClaimsOf(w, EvidenceOf(w), stale)[k]
<1>0. claim = ClaimOf(EvidenceOf(w), GroupOf(w, k), stale)
    BY ClaimsFields
<1>1. claim.state = IF owned = {} THEN "insufficient-evidence" ELSE "demonstrated"
    <2> HIDE DEF claim
    <2> QED BY <1>0, ClaimFields
<1>2. owned = {p \in GroupOf(w, k) : TargetCommits(w, p) # {}}
    BY OwnedFacts
<1>3. ASSUME NEW p
      PROVE  TargetCommits(w, p) # {} <=>
                 \E i \in Associated(w, p) : TookPart(w.commits[i]) \/ i \in w.pairs
    <2>1. \A i \in Associated(w, p) :
              AttributionOf(w, i) \in Target <=> TookPart(w.commits[i]) \/ i \in w.pairs
        BY AssociatedFacts, TargetIsTheirs
    <2> QED BY <2>1 DEF TargetCommits
<1> HIDE DEF owned, claim
<1>4. claim.state = "demonstrated" <=> owned # {}
    BY <1>1
<1>5. owned # {} <=> \E p \in GroupOf(w, k) : TargetCommits(w, p) # {}
    BY <1>2
<1> QED BY <1>3, <1>4, <1>5 DEF claim

\* What is free of doubt and permits practical use is the developer's own.
LEMMA OwnFacts ==
    ASSUME GoodWorld(world), NEW p \in Present(world), RiskFlags(world, p) = {},
           Permitted(world, p), ~Together(world, p)
    PROVE  OwnWork(p)
<1>1. PICK i \in TargetCommits(world, p) : DepthOf(world, i) = "practical-use"
    BY DEF Permitted
<1>2. /\ i \in Associated(world, p) /\ i \in DOMAIN world.commits
      /\ AttributionOf(world, i) = "attributed" /\ i \notin world.squashes
    BY <1>1, AssociatedFacts DEF DepthOf
<1>3. /\ world.commits[i].author = "developer" /\ world.commits[i].coauthors = {}
      /\ i \notin world.squashes \cup world.pairs
    BY <1>2, TargetIsTheirs
<1>4. ASSUME NEW j \in Associated(world, p)
      PROVE  /\ j \notin world.pairs
             /\ TookPart(world.commits[j]) => world.commits[j].coauthors = {}
    <2>1. j \in DOMAIN world.commits /\ AttributionOf(world, j) \notin Collaborative
        BY AssociatedFacts DEF Together
    <2> QED BY <2>1, TargetIsTheirs
<1>5. /\ p \notin world.marked /\ RepositoryOf[p] \notin world.forks /\ Indicators[p] = {}
      /\ ~Duplicated(world, p)
    BY DEF RiskFlags
<1>6. \A q \in Places \ {p} : world.files[q] # world.files[p]
    BY <1>5 DEF Duplicated, Present
<1> QED BY <1>2, <1>3, <1>4, <1>5, <1>6 DEF OwnWork

LEMMA TwoDiffer ==
    ASSUME NEW S, Cardinality(S) >= 2, IsFiniteSet(S)
    PROVE  \E p, q \in S : p # q
<1>1. S # {}
    BY FS_EmptySet
<1>2. PICK p \in S : TRUE
    BY <1>1
<1>3. Cardinality(S) # 1
    OBVIOUS
<1>4. S # {p}
    BY <1>3, FS_Singleton
<1> QED BY <1>2, <1>4

LEMMA GroupIsFinite ==
    ASSUME NEW w, NEW k, NEW S, S \subseteq GroupOf(w, k)
    PROVE  IsFiniteSet(S) /\ Cardinality(S) \in Nat
<1>1. S \in SUBSET Places
    BY DEF GroupOf, Present
<1> QED BY <1>1, PlaceAssumption, FS_Subset, FS_CardinalityType

LEMMA PracticalUseFacts ==
    ASSUME GoodWorld(world), NEW stale,
           NEW k \in DOMAIN ClaimsOf(world, EvidenceOf(world), stale),
           ClaimsOf(world, EvidenceOf(world), stale)[k].depth = "practical-use"
    PROVE  \E p, q \in GroupOf(world, k) : p # q /\ OwnWork(p) /\ OwnWork(q)
<1> DEFINE owned == Owned(EvidenceOf(world), GroupOf(world, k))
           practical == Practical(EvidenceOf(world), owned)
           claim == ClaimsOf(world, EvidenceOf(world), stale)[k]
<1>0. claim = ClaimOf(EvidenceOf(world), GroupOf(world, k), stale)
    BY ClaimsFields
<1>1. claim.depth = IF owned = {} THEN "none"
                    ELSE IF Cardinality(practical) >= 2 THEN "practical-use" ELSE "exposure"
    <2> HIDE DEF claim
    <2> QED BY <1>0, ClaimFields
<1>2. practical = {p \in owned : RiskFlags(world, p) = {} /\ Permitted(world, p)
                                 /\ ~Together(world, p)}
    BY PracticalFacts
<1>3. owned \subseteq GroupOf(world, k)
    BY DEF Owned
<1>4. claim.depth = "practical-use"
    OBVIOUS
<1> HIDE DEF owned, practical, claim
<1>5. Cardinality(practical) >= 2 /\ practical \subseteq GroupOf(world, k)
    BY <1>1, <1>2, <1>3, <1>4
<1>6. IsFiniteSet(practical)
    BY <1>5, GroupIsFinite
<1>7. PICK p \in practical, q \in practical : p # q
    BY <1>5, <1>6, TwoDiffer
<1>8. \A x \in practical : OwnWork(x)
    BY <1>2, <1>3, OwnFacts DEF GroupOf
<1> QED BY <1>5, <1>7, <1>8

-----------------------------------------------------------------------------
(* Evidence: what is told *)

Omission == "additional-limitations-omitted"

Words == Range(LimitationOrder) \cup {"practical-use", "exposure", "none"}

LEMMA ListedFacts ==
    ASSUME NEW S
    PROVE  Listed(S) \in Seq(Words) /\ Range(Listed(S)) = Range(LimitationOrder) \cap S
<1>1. LimitationOrder \in Seq(Words)
    <2>1. LimitationOrder \in Seq(Range(LimitationOrder))
        BY DerivationAssumption, SeqOfRange
    <2> QED BY <2>1, SeqMonotonic DEF Words
<1> QED BY <1>1, AmongFacts DEF Listed

LEMMA BoundedFacts ==
    ASSUME NEW list \in Seq(Words)
    PROVE  /\ Bounded(list) \in Seq(Words)
           /\ \/ Range(Bounded(list)) = Range(list)
              \/ Omission \in Range(Bounded(list))
<1>1. CASE Len(list) <= NoteLimit
    BY <1>1 DEF Bounded
<1>2. CASE ~(Len(list) <= NoteLimit)
    <2> DEFINE s == SubSeq(list, 1, NoteLimit - 1)
    <2>1. s \in Seq(Words)
        <3>1. NoteLimit \in Nat /\ NoteLimit - 1 \in Nat /\ Len(list) \in Nat
            BY DerivationAssumption, LenProperties
        <3>2. NoteLimit - 1 \in 0..Len(list)
            BY <1>2, <3>1
        <3> QED BY <3>1, <3>2, SubSeqProperties
    <2>2. Bounded(list) = Append(s, Omission)
        BY <1>2 DEF Bounded, Omission
    <2> HIDE DEF s
    <2>3. Omission \in Words
        BY DerivationAssumption DEF Omission, Words
    <2>4. Append(s, Omission) \in Seq(Words) /\ Range(Append(s, Omission)) = Range(s) \cup {Omission}
        BY <2>1, <2>3, AppendElements
    <2> QED BY <2>2, <2>4
<1> QED BY <1>1, <1>2

\* Evidence tells of a truncated history, or of what it omits.
LEMMA EvidenceTells ==
    ASSUME NEW w, NEW p, Truncated(w, RepositoryOf[p])
    PROVE  \E x \in {"history-truncated", Omission} : x \in Range(EvidenceAt(w, p).limitations)
<1> DEFINE A == Listed(RiskFlags(w, p))
           B == <<DepthCeiling(w, p)>>
           C == Listed(SourceLimitations(w, p))
           D == Listed(UNION {LimitationsOf(w, i) : i \in Associated(w, p)} \ SourceLimitations(w, p))
           list == A \o B \o C \o D
<1>1. A \in Seq(Words) /\ C \in Seq(Words) /\ D \in Seq(Words)
    BY ListedFacts
<1>2. B \in Seq(Words)
    <2>1. DepthCeiling(w, p) \in Words
        BY DEF DepthCeiling, Words
    <2> QED BY <2>1
<1>3. "history-truncated" \in Range(C)
    <2>1. "history-truncated" \in SourceLimitations(w, p)
        BY DEF SourceLimitations
    <2>2. "history-truncated" \in Range(LimitationOrder)
        BY DerivationAssumption
    <2> QED BY <2>1, <2>2, ListedFacts
<1>4. EvidenceAt(w, p).limitations = Bounded(list)
    BY DEF EvidenceAt
<1> HIDE DEF A, B, C, D
<1>5. A \o B \in Seq(Words)
    BY <1>1, <1>2, ConcatElements
<1>6. PICK u : u = A \o B
    OBVIOUS
<1>7. u \o C \in Seq(Words) /\ Range(u \o C) = Range(u) \cup Range(C)
    <2>1. u \in Seq(Words)
        BY <1>5, <1>6, Zenon
    <2> QED BY <1>1, <2>1, ConcatElements
<1>8. PICK v : v = u \o C
    OBVIOUS
<1>9. v \o D \in Seq(Words) /\ Range(v \o D) = Range(v) \cup Range(D)
    <2>1. v \in Seq(Words)
        BY <1>7, <1>8
    <2> QED BY <1>1, <2>1, ConcatElements
<1>10. list \in Seq(Words) /\ "history-truncated" \in Range(list)
    BY <1>3, <1>6, <1>7, <1>8, <1>9
<1> HIDE DEF list
<1> QED BY <1>4, <1>10, BoundedFacts

\* What evidence that a claim refers to tells, the claim tells, or that it omits some.
LEMMA ClaimTells ==
    ASSUME NEW evidence, NEW owned, NEW refs, NEW cut, NEW stale, NEW p \in Range(refs),
           NEW x \in {"history-truncated", Omission}, x \in Range(evidence[p].limitations)
    PROVE  \E y \in {"history-truncated", Omission} :
               y \in Range(ClaimNotes(evidence, owned, refs, cut, stale))
<1> DEFINE inherited == UNION {Range(evidence[refs[i]].limitations) : i \in DOMAIN refs}
           weak == \E q \in owned : evidence[q].strength = "weak"
           own == (IF owned = {} THEN {"no-attributable-evidence"} ELSE {})
                  \cup (IF weak THEN {"weak-source-evidence"} ELSE {})
                  \cup (IF cut THEN {"evidence-reference-limit-reached"} ELSE {})
                  \cup (IF stale THEN {"stale-evidence"} ELSE {})
           A == Listed(inherited \cap Risks)
           B == Listed(own)
           C == Listed(inherited \ Risks)
           list == A \o B \o C
<1>1. ClaimNotes(evidence, owned, refs, cut, stale) = Bounded(list)
    BY Zenon DEF ClaimNotes
<1>2. A \in Seq(Words) /\ B \in Seq(Words) /\ C \in Seq(Words)
    BY ListedFacts
<1>3. x \in Range(C)
    <2>1. x \in inherited
        <3>1. PICK i \in DOMAIN refs : p = refs[i]
            BY DEF Range
        <3> QED BY <3>1
    <2>2. x \notin Risks /\ x \in Range(LimitationOrder)
        BY DerivationAssumption DEF Risks, Omission
    <2> HIDE DEF inherited
    <2> QED BY <2>1, <2>2, ListedFacts
<1> HIDE DEF A, B, C
<1>4. A \o B \in Seq(Words)
    BY <1>2, ConcatElements
<1>5. list \in Seq(Words) /\ x \in Range(list)
    <2>1. PICK u : u = A \o B
        OBVIOUS
    <2>2. u \o C \in Seq(Words) /\ Range(u \o C) = Range(u) \cup Range(C)
        <3>1. u \in Seq(Words)
            BY <1>4, <2>1, Zenon
        <3> QED BY <1>2, <3>1, ConcatElements
    <2> QED BY <1>3, <2>1, <2>2
<1> HIDE DEF list
<1> QED BY <1>1, <1>5, BoundedFacts

LEMMA RankedFacts ==
    ASSUME NEW evidence, NEW group
    PROVE  /\ Ranked(evidence, group) \in Seq(Places)
           /\ Range(Ranked(evidence, group)) \subseteq group
           /\ References(evidence, group) \in Seq(Places)
           /\ Range(References(evidence, group)) \subseteq group
<1> DEFINE held == IF Owned(evidence, group) = {} THEN group ELSE Owned(evidence, group)
           R(r) == Among(PlaceOrder, {p \in held : Rank(evidence[p]) = r})
           ranked == Ranked(evidence, group)
<1>1. held \subseteq group
    BY DEF Owned
<1>2. \A r : R(r) \in Seq(Places) /\ Range(R(r)) \subseteq held
    BY DerivationAssumption, AmongFacts
<1>3. ranked = R(0) \o R(1) \o R(2) \o R(3)
    BY Zenon DEF Ranked
<1> HIDE DEF R, held, ranked
<1>4. R(0) \o R(1) \in Seq(Places) /\ Range(R(0) \o R(1)) \subseteq held
    BY <1>2, ConcatElements
<1>5. PICK u, a : u = R(0) \o R(1) /\ a = R(2)
    OBVIOUS
<1>11. u \o a \in Seq(Places) /\ Range(u \o a) = Range(u) \cup Range(a)
    <2>1. u \in Seq(Places) /\ a \in Seq(Places)
        BY <1>2, <1>4, <1>5
    <2> QED BY <2>1, ConcatElements
<1>12. PICK v, b : v = u \o a /\ b = R(3)
    OBVIOUS
<1>13. v \o b \in Seq(Places) /\ Range(v \o b) = Range(v) \cup Range(b)
    <2>1. v \in Seq(Places) /\ b \in Seq(Places)
        BY <1>2, <1>11, <1>12
    <2> QED BY <2>1, ConcatElements
<1>6. ranked \in Seq(Places) /\ Range(ranked) \subseteq held
    BY <1>2, <1>3, <1>4, <1>5, <1>11, <1>12, <1>13
<1> DEFINE m == IF Len(ranked) < RefLimit THEN Len(ranked) ELSE RefLimit
           refs == SubSeq(ranked, 1, m)
<1>7. References(evidence, group) = refs
    BY DEF References, ranked
<1>8. m \in 0..Len(ranked) /\ Len(ranked) \in Nat
    BY <1>6, DerivationAssumption, LenProperties
<1> HIDE DEF m
<1>9. refs \in Seq(Places) /\ Len(refs) = m /\ \A i \in 1..m : refs[i] = ranked[i]
    BY <1>6, <1>8
<1> HIDE DEF refs
<1>10. ASSUME NEW x \in Range(refs) PROVE x \in Range(ranked)
    <2>1. PICK i \in 1..m : refs[i] = x
        BY <1>9, Elements
    <2>2. i \in 1..Len(ranked)
        BY <1>8
    <2> QED BY <1>6, <1>9, <2>1, <2>2, Elements
<1> QED BY <1>1, <1>6, <1>7, <1>9, <1>10 DEF ranked

LEMMA TruncationFacts ==
    ASSUME NEW w, NEW stale, NEW k \in DOMAIN ClaimsOf(w, EvidenceOf(w), stale),
           NEW p \in Range(ClaimsOf(w, EvidenceOf(w), stale)[k].refs), Truncated(w, RepositoryOf[p])
    PROVE  {"history-truncated", Omission}
               \cap Range(ClaimsOf(w, EvidenceOf(w), stale)[k].limitations) # {}
<1> DEFINE e == EvidenceOf(w)
           g == GroupOf(w, k)
           refs == References(e, g)
           claim == ClaimsOf(w, e, stale)[k]
           owned == Owned(e, g)
           cut == Len(Ranked(e, g)) > Len(refs)
<1>0. claim = ClaimOf(e, g, stale)
    BY ClaimsFields
<1>1. claim.refs = refs /\ claim.limitations = ClaimNotes(e, owned, refs, cut, stale)
    <2> HIDE DEF claim, e, g
    <2> QED BY <1>0, ClaimFields
<1>2. p \in Range(refs)
    BY <1>1
<1>3. p \in g /\ p \in Present(w)
    BY <1>2, RankedFacts DEF GroupOf
<1>4. e[p] = EvidenceAt(w, p)
    BY <1>3, EvidenceFacts
<1>5. PICK x \in {"history-truncated", Omission} : x \in Range(e[p].limitations)
    BY <1>4, EvidenceTells
<1> HIDE DEF e, g, refs, claim, owned, cut
<1>6. \E y \in {"history-truncated", Omission} : y \in Range(ClaimNotes(e, owned, refs, cut, stale))
    BY <1>2, <1>5, ClaimTells
<1>7. {"history-truncated", Omission} \cap Range(claim.limitations) # {}
    BY <1>1, <1>6
<1> QED BY <1>7 DEF claim, e

-----------------------------------------------------------------------------
(* Evidence: doubts *)

\* A world after a doubt: an annotation, or a commit by others that hides none.
Doubted(w, v) ==
    /\ GoodWorld(w) /\ GoodWorld(v) /\ Grown(w, v)
    /\ v.files = w.files /\ v.projects = w.projects /\ v.pairs = w.pairs
    /\ \A i \in DOMAIN v.commits \ DOMAIN w.commits : ~TookPart(v.commits[i])
    /\ \A p \in Places : Visible(w, RepositoryOf[p]) \subseteq Visible(v, RepositoryOf[p])

LEMMA GrownFacts ==
    ASSUME NEW w, NEW v, Doubted(w, v)
    PROVE  /\ DOMAIN w.commits \subseteq DOMAIN v.commits
           /\ \A i \in DOMAIN w.commits :
                 /\ v.commits[i] = w.commits[i]
                 /\ AttributionOf(v, i) = AttributionOf(w, i)
           /\ \A i \in DOMAIN v.commits \ DOMAIN w.commits : AttributionOf(v, i) \notin Target
<1> DEFINE m == Len(w.commits)
           n == Len(v.commits)
<1>1. /\ m \in Nat /\ n \in Nat /\ DOMAIN w.commits = 1..m /\ DOMAIN v.commits = 1..n /\ m <= n
      /\ \A i \in 1..m : v.commits[i] = w.commits[i]
    BY CommitFacts DEF Doubted, Grown
<1>2. DOMAIN w.commits \subseteq DOMAIN v.commits
    BY <1>1
<1>3. \A i \in DOMAIN w.commits : AttributionOf(v, i) = AttributionOf(w, i)
    BY <1>1 DEF AttributionOf, Doubted
<1>4. ASSUME NEW i \in DOMAIN v.commits, i \notin DOMAIN w.commits
      PROVE  AttributionOf(v, i) \notin Target
    <2>1. i \notin v.pairs /\ ~TookPart(v.commits[i]) /\ GoodWorld(v)
        BY <1>4 DEF Doubted, GoodWorld
    <2> QED BY <2>1, TargetIsTheirs
<1> QED BY <1>1, <1>2, <1>3, <1>4

\* What was hidden before more commits came is hidden after them.
LEMMA VisibleBefore ==
    ASSUME NEW w, NEW v, Doubted(w, v), NEW r, NEW i \in Visible(v, r), i \in DOMAIN w.commits
    PROVE  i \in Visible(w, r)
<1> DEFINE J == {j \in CommitsOf(w, r) : j > i}
           K == {j \in CommitsOf(v, r) : j > i}
           n == Len(v.commits)
<1>1. /\ n \in Nat /\ DOMAIN v.commits = 1..n
      /\ DOMAIN w.commits \subseteq DOMAIN v.commits
      /\ \A j \in DOMAIN w.commits : v.commits[j] = w.commits[j]
    BY CommitFacts, GrownFacts DEF Doubted
<1>2. CommitsOf(w, r) \subseteq CommitsOf(v, r) /\ CommitsOf(v, r) \subseteq 1..n
    BY <1>1 DEF CommitsOf
<1>3. J \subseteq K /\ K \subseteq 1..n
    BY <1>2
<1>4. Cardinality(K) < HistoryLimit /\ v.commits[i].repository = r
    BY DEF Visible, CommitsOf
<1>5. i \in CommitsOf(w, r)
    BY <1>1, <1>4 DEF CommitsOf
<1> HIDE DEF J, K, n
<1>6. IsFiniteSet(1..n)
    BY <1>1, FS_Interval
<1>7. IsFiniteSet(K)
    <2>1. K \in SUBSET (1..n)
        BY <1>3
    <2> QED BY <1>6, <2>1, FS_Subset
<1>8. Cardinality(J) <= Cardinality(K) /\ IsFiniteSet(J)
    <2>1. J \in SUBSET K
        BY <1>3
    <2> QED BY <1>7, <2>1, FS_Subset
<1>9. Cardinality(J) \in Nat /\ Cardinality(K) \in Nat
    BY <1>7, <1>8, FS_CardinalityType
<1>10. Cardinality(J) < HistoryLimit
    BY <1>4, <1>8, <1>9, PlaceAssumption
<1> QED BY <1>5, <1>10 DEF Visible, J

LEMMA SameTargets ==
    ASSUME NEW w, NEW v, Doubted(w, v), NEW p \in Places
    PROVE  /\ TargetCommits(v, p) = TargetCommits(w, p)
           /\ Together(v, p) <=> Together(w, p)
           /\ Permitted(v, p) => Permitted(w, p)
<1>1. ASSUME NEW i \in Associated(w, p) PROVE i \in Associated(v, p)
    <2>1. i \in DOMAIN w.commits /\ i \in Visible(w, RepositoryOf[p]) /\ p \in w.commits[i].changed
        BY AssociatedFacts DEF Associated
    <2>2. i \in Visible(v, RepositoryOf[p]) /\ v.commits[i] = w.commits[i]
        BY <2>1, GrownFacts DEF Doubted
    <2> QED BY <2>1, <2>2 DEF Associated
<1>2. ASSUME NEW i \in Associated(v, p), i \in DOMAIN w.commits PROVE i \in Associated(w, p)
    <2>1. i \in Visible(v, RepositoryOf[p]) /\ p \in v.commits[i].changed
        BY DEF Associated
    <2>2. i \in Visible(w, RepositoryOf[p]) /\ v.commits[i] = w.commits[i]
        BY <1>2, <2>1, VisibleBefore, GrownFacts
    <2> QED BY <2>1, <2>2 DEF Associated
<1>3. ASSUME NEW i \in TargetCommits(v, p)
      PROVE  i \in TargetCommits(w, p) /\ AttributionOf(v, i) = AttributionOf(w, i)
    <2>1. i \in Associated(v, p) /\ i \in DOMAIN v.commits /\ AttributionOf(v, i) \in Target
        BY AssociatedFacts DEF TargetCommits
    <2>2. i \in DOMAIN w.commits
        BY <2>1, GrownFacts
    <2>3. i \in Associated(w, p) /\ AttributionOf(v, i) = AttributionOf(w, i)
        BY <1>2, <2>1, <2>2, GrownFacts
    <2> QED BY <2>1, <2>3 DEF TargetCommits
<1>4. ASSUME NEW i \in TargetCommits(w, p)
      PROVE  i \in TargetCommits(v, p)
    <2>1. i \in Associated(w, p) /\ i \in DOMAIN w.commits /\ AttributionOf(w, i) \in Target
        BY AssociatedFacts DEF TargetCommits
    <2>2. i \in Associated(v, p) /\ AttributionOf(v, i) = AttributionOf(w, i)
        BY <1>1, <2>1, GrownFacts
    <2> QED BY <2>1, <2>2 DEF TargetCommits
<1>5. TargetCommits(v, p) = TargetCommits(w, p)
    BY <1>3, <1>4
<1>6. ASSUME NEW x
      PROVE  Together(x, p) <=> \E i \in TargetCommits(x, p) : AttributionOf(x, i) \in Collaborative
    BY DEF Together, TargetCommits, Target
<1>7. Together(v, p) <=> Together(w, p)
    BY <1>3, <1>4, <1>6
<1>8. ASSUME Permitted(v, p) PROVE Permitted(w, p)
    <2>1. PICK i \in TargetCommits(v, p) : DepthOf(v, i) = "practical-use"
        BY <1>8 DEF Permitted
    <2>2. AttributionOf(v, i) = "attributed" /\ i \notin v.squashes
        BY <2>1 DEF DepthOf
    <2>3. AttributionOf(w, i) = "attributed" /\ i \notin w.squashes /\ i \in TargetCommits(w, p)
        BY <1>3, <2>1, <2>2 DEF Doubted, Grown
    <2>4. DepthOf(w, i) = "practical-use"
        BY <2>3 DEF DepthOf
    <2> QED BY <2>3, <2>4 DEF Permitted
<1> QED BY <1>5, <1>7, <1>8

LEMMA MoreRisks ==
    ASSUME NEW w, NEW v, Doubted(w, v), NEW p \in Places, RiskFlags(v, p) = {}
    PROVE  RiskFlags(w, p) = {}
<1>1. /\ Indicators[p] = {} /\ RepositoryOf[p] \notin v.forks /\ p \notin v.marked
      /\ ~Duplicated(v, p) /\ TargetCommits(v, p) # {}
    BY DEF RiskFlags
<1>2. /\ RepositoryOf[p] \notin w.forks /\ p \notin w.marked
    BY <1>1 DEF Doubted, Grown
<1>3. ~Duplicated(w, p)
    BY <1>1 DEF Duplicated, Present, Doubted
<1>4. TargetCommits(w, p) # {}
    BY <1>1, SameTargets
<1> QED BY <1>1, <1>2, <1>3, <1>4 DEF RiskFlags

\* What a claim says, by the files that count for it.
SaysOf(owned, practical) ==
    (IF owned = {} THEN {}
     ELSE IF Cardinality(practical) >= 2 THEN {"exposure", "practical-use"} ELSE {"exposure"})
    \cup (IF practical # {} THEN {"medium"} ELSE {})

LEMMA SaysFacts ==
    ASSUME NEW w, NEW k \in Projects
    PROVE  LET e == EvidenceOf(w)
               owned == Owned(e, GroupOf(w, k))
           IN  Says(ClaimsOf(w, e, FALSE), k) =
                   IF GroupOf(w, k) = {} THEN {} ELSE SaysOf(owned, Practical(e, owned))
<1> DEFINE e == EvidenceOf(w)
           g == GroupOf(w, k)
           owned == Owned(e, g)
           practical == Practical(e, owned)
           claims == ClaimsOf(w, e, FALSE)
<1>1. k \in DOMAIN claims <=> g # {}
    BY ClaimsFields
<1>2. CASE g = {}
    BY <1>1, <1>2 DEF Says
<1>3. CASE g # {}
    <2>1. claims[k] = ClaimOf(e, g, FALSE)
        BY <1>1, <1>3, ClaimsFields
    <2>2. /\ claims[k].depth = IF owned = {} THEN "none"
                               ELSE IF Cardinality(practical) >= 2 THEN "practical-use" ELSE "exposure"
          /\ claims[k].confidence = IF practical # {} THEN "medium" ELSE "low"
        <3> DEFINE c == ClaimOf(e, g, FALSE)
        <3> HIDE DEF e, g
        <3>1. /\ c.depth = IF owned = {} THEN "none"
                           ELSE IF Cardinality(practical) >= 2 THEN "practical-use" ELSE "exposure"
              /\ c.confidence = IF practical # {} THEN "medium" ELSE "low"
            BY ClaimFields, Zenon
        <3>2. claims[k] = c
            BY <2>1, Zenon
        <3> HIDE DEF claims, c, owned, practical
        <3> QED BY <3>1, <3>2, Zenon
    <2>3. Says(claims, k) =
             (CASE claims[k].depth = "none" -> {} [] claims[k].depth = "exposure" -> {"exposure"}
                [] claims[k].depth = "practical-use" -> {"exposure", "practical-use"})
             \cup ({claims[k].confidence} \ {"low"})
        BY <1>1, <1>3 DEF Says
    <2> HIDE DEF claims, owned, practical, g
    <2>4. {claims[k].confidence} \ {"low"} = IF practical # {} THEN {"medium"} ELSE {}
        BY <2>2
    <2>5. Says(claims, k) = SaysOf(owned, practical)
        <3>1. CASE owned = {}
            BY <2>2, <2>3, <2>4, <3>1 DEF SaysOf
        <3>2. CASE owned # {} /\ Cardinality(practical) >= 2
            BY <2>2, <2>3, <2>4, <3>2 DEF SaysOf
        <3>3. CASE owned # {} /\ ~(Cardinality(practical) >= 2)
            BY <2>2, <2>3, <2>4, <3>3 DEF SaysOf
        <3> QED BY <3>1, <3>2, <3>3
    <2> QED BY <1>3, <2>5 DEF claims, owned, practical, g
<1> QED BY <1>2, <1>3

LEMMA DoubtFacts ==
    ASSUME NEW w, NEW v, Doubted(w, v), NEW k \in Projects
    PROVE  Says(ClaimsOf(v, EvidenceOf(v), FALSE), k) \subseteq
               Says(ClaimsOf(w, EvidenceOf(w), FALSE), k)
<1> DEFINE g == GroupOf(w, k)
           O == Owned(EvidenceOf(w), g)
           P == Practical(EvidenceOf(w), O)
           h == GroupOf(v, k)
           N == Owned(EvidenceOf(v), h)
           Q == Practical(EvidenceOf(v), N)
<1>1. h = g /\ g \subseteq Places
    BY DEF GroupOf, Present, ProjectOf, Doubted
<1>2. O = {p \in g : TargetCommits(w, p) # {}} /\ N = {p \in h : TargetCommits(v, p) # {}}
    BY OwnedFacts
<1>3. /\ P = {p \in O : RiskFlags(w, p) = {} /\ Permitted(w, p) /\ ~Together(w, p)}
      /\ Q = {p \in N : RiskFlags(v, p) = {} /\ Permitted(v, p) /\ ~Together(v, p)}
    BY PracticalFacts
<1>4. /\ Says(ClaimsOf(w, EvidenceOf(w), FALSE), k) = IF g = {} THEN {} ELSE SaysOf(O, P)
      /\ Says(ClaimsOf(v, EvidenceOf(v), FALSE), k) = IF h = {} THEN {} ELSE SaysOf(N, Q)
    BY SaysFacts
<1> HIDE DEF O, P, N, Q
<1>5. N = O
    BY <1>1, <1>2, SameTargets
<1>6. Q \subseteq P
    <2> SUFFICES ASSUME NEW p \in Q PROVE p \in P
        OBVIOUS
    <2>1. p \in N /\ p \in Places /\ RiskFlags(v, p) = {} /\ Permitted(v, p) /\ ~Together(v, p)
        BY <1>1, <1>2, <1>3
    <2>2. RiskFlags(w, p) = {} /\ Permitted(w, p) /\ ~Together(w, p)
        BY <2>1, MoreRisks, SameTargets
    <2> QED BY <1>3, <1>5, <2>1, <2>2
<1>7. P \subseteq g
    BY <1>2, <1>3
<1>8. IsFiniteSet(P) /\ Cardinality(P) \in Nat
    BY <1>7, GroupIsFinite
<1>9. Cardinality(Q) <= Cardinality(P) /\ Cardinality(Q) \in Nat
    <2>1. Q \in SUBSET P
        BY <1>6
    <2> QED BY <1>8, <2>1, FS_Subset, FS_CardinalityType
<1>10. SaysOf(N, Q) \subseteq SaysOf(O, P)
    <2>1. Cardinality(Q) >= 2 => Cardinality(P) >= 2
        BY <1>8, <1>9
    <2>2. Q # {} => P # {}
        BY <1>6
    <2> QED BY <1>5, <2>1, <2>2 DEF SaysOf
<1> QED BY <1>1, <1>4, <1>10

-----------------------------------------------------------------------------
(* Evidence: theorems *)

EvidenceInv ==
    /\ GoodWorld(world)
    /\ changes.current =>
          /\ support = EvidenceOf(world)
          /\ \E stale \in BOOLEAN : stated = ClaimsOf(world, support, stale)

LEMMA EvidenceStarts ==
    ASSUME AllInit
    PROVE  EvidenceInv
<1>1. changes.current = FALSE
    BY DEF AllInit, DerivationInit, DerivationRests, NothingDerived, NoChanges
<1>2. GoodWorld(world)
    <2>1. CASE serving = "evidence"
        BY <2>1, WorldsAreGood, DerivationAssumption DEF AllInit, DerivationInit
    <2>2. CASE serving # "evidence"
        <3>1. DerivationRests
            BY <2>2 DEF AllInit
        <3>2. world = [files |-> [p \in Places |-> Absent], commits |-> <<>>, squashes |-> {},
                       pairs |-> {}, marked |-> {}, forks |-> {}, projects |-> <<>>,
                       edits |-> MaxWorldEdits]
            BY <3>1 DEF DerivationRests
        <3> QED BY <3>2 DEF GoodWorld
    <2> QED BY <2>1, <2>2
<1> QED BY <1>1, <1>2 DEF EvidenceInv

LEMMA EvidenceStep ==
    ASSUME EvidenceInv, [DerivationNext]_derivationVars
    PROVE  EvidenceInv'
<1>1. CASE \E stale \in BOOLEAN : Derive(stale)
    <2>1. PICK stale \in BOOLEAN : Derive(stale)
        BY <1>1
    <2>2. /\ support' = EvidenceOf(world) /\ stated' = ClaimsOf(world, support', stale)
          /\ world' = world
        BY <2>1 DEF Derive
    <2>3. EvidenceOf(world') = EvidenceOf(world)
          /\ ClaimsOf(world', support', stale) = ClaimsOf(world, support', stale)
        BY <2>2
    <2> QED BY <2>2, <2>3 DEF EvidenceInv
<1>2. CASE DerivationNext /\ ~\E stale \in BOOLEAN : Derive(stale)
    <2>1. GoodWorld(world') /\ changes' = NoChanges
        BY <1>2, EditStep DEF EvidenceInv
    <2>2. changes'.current = FALSE
        BY <2>1 DEF NoChanges
    <2> QED BY <2>1, <2>2 DEF EvidenceInv
<1>3. CASE UNCHANGED derivationVars
    BY <1>3 DEF derivationVars, EvidenceInv
<1> QED BY <1>1, <1>2, <1>3

LEMMA EvidenceInvariant == AllSpec => []EvidenceInv
<1>1. EvidenceInv /\ [AllNext]_allVars => EvidenceInv'
    BY StepsOfParts, EvidenceStep
<1> QED BY <1>1, EvidenceStarts, PTL DEF AllSpec

\* Claims are honest about any repositories, histories and owners: demonstrated exactly
\* when the developer took part, practical use only of their own work, and told when the
\* history was cut (git-authorship-assessment.ts:172, evidence-source-risk-classifier.ts:255).
THEOREM EvidenceStaysHonest == AllSpec => []EvidenceIsHonest
<1>1. ASSUME EvidenceInv PROVE EvidenceIsHonest
    <2>1. CASE ~changes.current
        BY <2>1 DEF EvidenceIsHonest, DemonstratedIsTheirs, PracticalUseIsOwn, TruncationIsTold
    <2>2. CASE changes.current
        <3>1. PICK stale \in BOOLEAN : stated = ClaimsOf(world, EvidenceOf(world), stale)
            BY <1>1, <2>2 DEF EvidenceInv
        <3>2. GoodWorld(world)
            BY <1>1 DEF EvidenceInv
        <3>3. DemonstratedIsTheirs
            BY <3>1, <3>2, DemonstratedFacts DEF DemonstratedIsTheirs
        <3>4. PracticalUseIsOwn
            BY <3>1, <3>2, PracticalUseFacts DEF PracticalUseIsOwn
        <3>5. TruncationIsTold
            BY <3>1, TruncationFacts DEF TruncationIsTold, Omission
        <3> QED BY <3>3, <3>4, <3>5 DEF EvidenceIsHonest
    <2> QED BY <2>1, <2>2
<1> QED BY <1>1, EvidenceInvariant, PTL

\* No doubt ever makes a claim say more, whatever the history, the files and the
\* annotations (docs/adr/0022:52).
THEOREM DoubtWeakensOrKeeps == AllSpec => DoubtNeverStrengthens
<1> DEFINE StepTells ==
        Kept' = Kept /\ OthersOnly /\ NothingHidden
        => \A before \in {EvidenceOf(world)}, after \in {EvidenceOf(world')} : \A k \in Projects :
             Says(ClaimsOf(world', after, FALSE), k)
                 \subseteq Says(ClaimsOf(world, before, FALSE), k)
<1>1. ASSUME EvidenceInv, [AllNext]_allVars PROVE [StepTells]_world
    <2> SUFFICES ASSUME Kept' = Kept, OthersOnly, NothingHidden, world' # world, NEW k \in Projects
                 PROVE  Says(ClaimsOf(world', EvidenceOf(world'), FALSE), k)
                            \subseteq Says(ClaimsOf(world, EvidenceOf(world), FALSE), k)
        OBVIOUS
    <2>1. DerivationNext /\ ~\E stale \in BOOLEAN : Derive(stale)
        BY <1>1, StepsOfParts DEF derivationVars, Derive
    <2>2. GoodWorld(world) /\ GoodWorld(world') /\ Grown(world, world')
        BY <1>1, <2>1, EditStep DEF EvidenceInv
    <2>3. /\ world'.files = world.files /\ world'.projects = world.projects
          /\ world'.pairs = world.pairs
        BY DEF Kept
    <2>4. Doubted(world, world')
        BY <2>2, <2>3 DEF Doubted, OthersOnly, NothingHidden, Repositories
    <2> QED BY <2>4, DoubtFacts
<1>2. AllSpec => [][StepTells]_world
    BY <1>1, EvidenceInvariant, PTL DEF AllSpec
<1> QED BY <1>2 DEF DoubtNeverStrengthens

\* What a refresh does not tell of a claim is so still, and what it tells is so, whatever
\* the claims, the evidence and the time between (evidence-claim-derivation.ts:398).
THEOREM SilenceAlwaysMeansUnchanged == AllSpec => SilenceMeansUnchanged
<1> DEFINE StepTells ==
        changes'.current =>
            /\ \A k \in DOMAIN stated \ {t[1] : t \in changes'.claims} :
                /\ k \in DOMAIN stated' /\ stated'[k] = stated[k]
                /\ \A p \in Range(stated[k].refs) : support'[p] = support[p]
            /\ \A t \in changes'.claims :
                t[2] = "freshness-changed" => stated'[t[1]].depth = stated[t[1]].depth
<1>1. ASSUME EvidenceInv, [AllNext]_allVars PROVE [StepTells]_derivationVars
    <2> SUFFICES ASSUME changes'.current, derivationVars' # derivationVars PROVE StepTells
        OBVIOUS
    <2>1. DerivationNext
        BY <1>1, StepsOfParts
    <2>2. PICK stale \in BOOLEAN : Derive(stale)
        <3>1. ~(changes' = NoChanges)
            BY DEF NoChanges
        <3> QED BY <1>1, <2>1, <3>1, EditStep DEF EvidenceInv
    <2> DEFINE gone == Invalidated(support, support')
    <2>3. changes'.claims = ToldClaims(support', stated', gone)
        BY <2>2 DEF Derive
    <2> HIDE DEF gone
    <2>4. ToldClaims(support', stated', gone) =
             {<<k, "no-longer-supported">> : k \in DOMAIN stated \ DOMAIN stated'}
             \cup {<<k, Reason(stated[k], stated'[k], gone)>> :
                     k \in {k \in DOMAIN stated \cap DOMAIN stated' :
                              Fingerprint(stated[k], support) # Fingerprint(stated'[k], support')}}
        BY DEF ToldClaims
    <2>5. ASSUME NEW k \in DOMAIN stated, k \notin {t[1] : t \in changes'.claims}
          PROVE  /\ k \in DOMAIN stated' /\ stated'[k] = stated[k]
                 /\ \A p \in Range(stated[k].refs) : support'[p] = support[p]
        <3>0. \A reason : <<k, reason>> \notin changes'.claims
            <4> SUFFICES ASSUME NEW reason, <<k, reason>> \in changes'.claims PROVE FALSE
                OBVIOUS
            <4>1. PICK t \in changes'.claims : t = <<k, reason>>
                OBVIOUS
            <4>2. t[1] = k
                BY <4>1
            <4> QED BY <2>5, <4>2
        <3>1. k \in DOMAIN stated'
            <4> SUFFICES ASSUME k \notin DOMAIN stated' PROVE FALSE
                OBVIOUS
            <4>1. <<k, "no-longer-supported">> \in changes'.claims
                BY <2>3, <2>4
            <4> QED BY <3>0, <4>1
        <3>2. Fingerprint(stated[k], support) = Fingerprint(stated'[k], support')
            <4> SUFFICES ASSUME Fingerprint(stated[k], support) # Fingerprint(stated'[k], support')
                         PROVE  FALSE
                OBVIOUS
            <4>1. <<k, Reason(stated[k], stated'[k], gone)>> \in changes'.claims
                BY <2>3, <2>4, <3>1
            <4> QED BY <3>0, <4>1
        <3>3. /\ stated[k] = stated'[k]
              /\ [i \in DOMAIN stated[k].refs |-> support[stated[k].refs[i]]]
                 = [i \in DOMAIN stated'[k].refs |-> support'[stated'[k].refs[i]]]
            BY <3>2 DEF Fingerprint
        <3>4. \A i \in DOMAIN stated[k].refs : support[stated[k].refs[i]] = support'[stated[k].refs[i]]
            BY <3>3
        <3> QED BY <3>1, <3>3, <3>4 DEF Range
    <2>6. ASSUME NEW t \in changes'.claims, t[2] = "freshness-changed"
          PROVE  stated'[t[1]].depth = stated[t[1]].depth
        <3>1. PICK k : t = <<k, Reason(stated[k], stated'[k], gone)>>
            BY <2>3, <2>4, <2>6
        <3>2. Reason(stated[k], stated'[k], gone) = "freshness-changed" /\ t[1] = k
            BY <2>6, <3>1
        <3>3. SameSupport(stated[k], stated'[k])
            BY <3>2 DEF Reason
        <3> QED BY <3>2, <3>3 DEF SameSupport
    <2> QED BY <2>5, <2>6
<1>2. AllSpec => [][StepTells]_derivationVars
    BY <1>1, EvidenceInvariant, PTL DEF AllSpec
<1> QED BY <1>2, PTL DEF SilenceMeansUnchanged
=============================================================================
