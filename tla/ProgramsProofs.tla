--------------------------- MODULE ProgramsProofs ---------------------------
(***************************************************************************)
(* The programs made of processes, and wzip, for every value of their      *)
(* constants: the two sides of the chat never both wait in read(), one     *)
(* file unzips to what it was, no line in a file is written over, what a   *)
(* parent that waits and its child print is always the same, and what      *)
(* callexec2 reports of its lucky number is true.                          *)
(***************************************************************************)
EXTENDS MCPrograms, SequenceTheorems, RecursionTheorems, TLAPS

-----------------------------------------------------------------------------
(* simpleTCP.                                                              *)

Half == {"exit", "talk", "rest"}

ChatTypeOK ==
  /\ to_server \in Seq(Half)
  /\ to_client \in Seq(Half)

\* While the client reads and the server reads or has yet to accept, a part of
\* a message is on its way.
OneSpeaks ==
  (client = "read" /\ (server = "accept" \/ (server = "read" /\ connected))) =>
    to_server # <<>> \/ to_client # <<>>

ChatInv == ChatTypeOK /\ OneSpeaks

LEMMA EmptyStream == <<>> \in Seq(Half)
OBVIOUS

\* A message is two halves, and with it a stream is not empty.
LEMMA StreamGrows ==
  ASSUME NEW line \in Lines, NEW s \in Seq(Half)
  PROVE  /\ s \o message(line) \in Seq(Half)
         /\ s \o message(line) # <<>>
<1>1. message(line) \in Seq(Half) /\ Len(message(line)) = 2
  BY DEF message, Lines, Half
<1>2. \A m \in Seq(Half) : Len(m) = 2 => s \o m \in Seq(Half) /\ s \o m # <<>>
  OBVIOUS
<1> QED BY <1>1, <1>2

\* What a read() leaves is a stream.
LEMMA StreamShrinks ==
  ASSUME NEW s \in Seq(Half), NEW n \in 1 .. MAX, Takes(s, n)
  PROVE  Rest(s, n) \in Seq(Half)
BY DEF Takes, Rest, MAX

\* The inductive invariant holds at first and is kept by every call of either
\* side; it says nothing of a side that has ended.
LEMMA ChatInductive == ChatSpec => []ChatInv
<1>1. ChatInit => ChatInv
  BY DEF ChatInit, ChatInv, ChatTypeOK, OneSpeaks
<1>2. ChatInv /\ [ChatNext]_chat => ChatInv'
  <2> SUFFICES ASSUME ChatInv, [ChatNext]_chat PROVE ChatInv'
    OBVIOUS
  <2> USE DEF ChatInv, ChatTypeOK, OneSpeaks
  <2>1. CASE Accept
    BY <2>1 DEF Accept
  <2>2. CASE ServerRead
    <3>1. to_server' \in Seq(Half)
      BY <2>2, StreamShrinks DEF ServerRead
    <3> QED BY <2>2, <3>1 DEF ServerRead
  <2>3. CASE ServerWrite
    <3>1. PICK line \in Lines :
            /\ server' = IF line = "exit" THEN "exit" ELSE "read"
            /\ to_client' = IF connected /\ Up(client) THEN to_client \o message(line) ELSE to_client
      BY <2>3 DEF ServerWrite
    <3>2. to_client' \in Seq(Half)
      BY <3>1, StreamGrows
    <3>3. connected /\ client = "read" => to_client' # <<>>
      BY <3>1, StreamGrows DEF Up
    <3> QED BY <2>3, <3>1, <3>2, <3>3 DEF ServerWrite
  <2>4. CASE ServerBroken
    BY <2>4 DEF ServerBroken
  <2>5. CASE ServerEnd
    <3>1. to_client' = to_client \/ to_client' = <<>>
      BY <2>5 DEF ServerEnd
    <3>2. to_client' \in Seq(Half)
      BY <3>1, EmptyStream, Zenon
    <3> QED BY <2>5, <3>2 DEF ServerEnd
  <2>6. CASE ClientWrite
    <3>1. PICK line \in Lines :
            to_server' = IF Up(server) THEN to_server \o message(line) ELSE to_server
      BY <2>6 DEF ClientWrite
    <3>2. /\ to_server' \in Seq(Half)
          /\ Up(server) => to_server' # <<>>
      BY <3>1, StreamGrows
    <3> QED BY <2>6, <3>2 DEF ClientWrite, Up
  <2>7. CASE ClientBroken
    BY <2>7 DEF ClientBroken
  <2>8. CASE ClientRead
    <3>1. to_client' \in Seq(Half)
      BY <2>8, StreamShrinks DEF ClientRead
    <3> QED BY <2>8, <3>1 DEF ClientRead
  <2>9. CASE ClientEnd
    <3>1. to_server' = to_server \/ to_server' = <<>>
      BY <2>9 DEF ClientEnd
    <3>2. to_server' \in Seq(Half)
      BY <3>1, EmptyStream, Zenon
    <3> QED BY <2>9, <3>2 DEF ClientEnd
  <2>10. CASE UNCHANGED chat
    BY <2>10 DEF chat
  <2> QED
    BY <2>1, <2>2, <2>3, <2>4, <2>5, <2>6, <2>7, <2>8, <2>9, <2>10 DEF ChatNext
<1> QED BY <1>1, <1>2, PTL DEF ChatSpec

\* The two sides never both wait in read(), however the messages are cut and
\* whoever ends when.
THEOREM NeverBothRead == ChatSpec => []NeverBothReading
<1>1. ChatInv => NeverBothReading
  BY DEF ChatInv, OneSpeaks, NeverBothReading
<1> QED BY <1>1, ChatInductive, PTL

-----------------------------------------------------------------------------
(* wzip.c: what is printed and the token in hand are the text that was     *)
(* read, run by run.                                                       *)

\* h joins the first sequences of s, one more at a time.
Joins(s, h) == h = [k \in 1 .. Len(s) |-> IF k = 1 THEN s[k] ELSE h[k - 1] \o s[k]]

\* The recursive definition of FlattenSeq holds for the function it defines.
LEMMA FlattenUnfolds ==
  ASSUME NEW S, NEW s \in Seq(Seq(S)), s # <<>>
  PROVE  \E h \in [1 .. Len(s) -> Seq(S)] : Joins(s, h) /\ Zip!FlattenSeq(s) = h[Len(s)]
<1> DEFINE D == 1 .. Len(s)
           V == Seq(S)
           r == [k \in D |-> k]
           G == [x \in D \X [D -> V] |->
                   IF x[1] = 1 THEN s[x[1]] ELSE x[2][x[1] - 1] \o s[x[1]]]
<1>1. Len(s) \in Nat /\ Len(s) # 0 /\ \A k \in D : s[k] \in V
  BY EmptySeq, LenProperties
<1>2. r \in [D -> Nat]
  <2>1. \A k \in D : k \in Nat
    BY <1>1
  <2> HIDE DEF D
  <2> QED BY <2>1
<1>3. \A x \in D : \A h \in [D -> V] : G[<<x, h>>] \in V
  <2>1. ASSUME NEW k \in D, NEW h \in [D -> V], k # 1 PROVE h[k - 1] \o s[k] \in V
    <3>1. k - 1 \in D /\ s[k] \in V
      BY <1>1, <2>1
    <3>2. h[k - 1] \in V
      <4> HIDE DEF D, V
      <4> QED BY <3>1
    <3> QED BY <3>1, <3>2, ConcatProperties
  <2>2. ASSUME NEW x \in D \X [D -> V]
        PROVE  (IF x[1] = 1 THEN s[x[1]] ELSE x[2][x[1] - 1] \o s[x[1]]) \in V
    <3>1. PICK k \in D, h \in [D -> V] : x = <<k, h>>
      OBVIOUS
    <3>2. s[k] \in V /\ (k # 1 => h[k - 1] \o s[k] \in V)
      BY <1>1, <2>1
    <3> HIDE DEF D, V
    <3> QED BY <3>1, <3>2
  <2> HIDE DEF D, V
  <2> QED BY <2>2
<1>4. LooksBelow(D, V, r, G)
  <2> SUFFICES ASSUME NEW x \in D, NEW g \in [D -> V], NEW h \in [D -> V],
                      \A y \in D : r[y] < r[x] => g[y] = h[y]
               PROVE  G[<<x, g>>] = G[<<x, h>>]
    BY DEF LooksBelow
  <2>1. x # 1 => x - 1 \in D /\ r[x - 1] < r[x]
    BY <1>1
  <2> QED BY <2>1
<1>5. <<>> \in V
  BY EmptySeq
<1>6. PICK h \in [D -> V] : \A x \in D : h[x] = G[<<x, h>>]
  <2>1. Recursion(D, V, r, G)
    <3> HIDE DEF D, V, r, G
    <3> QED BY <1>2, <1>3, <1>4, <1>5 DEF Recursion
  <2> HIDE DEF D, V, r, G
  <2>2. Solvable(D, V, G)
    BY <2>1, RecursionExists, Zenon
  <2> QED BY <2>2 DEF Solvable
<1>7. Joins(s, h)
  <2>1. \A k \in D : h[k] = IF k = 1 THEN s[k] ELSE h[k - 1] \o s[k]
    BY <1>6
  <2> QED BY <2>1 DEF Joins
<1> DEFINE it == CHOOSE f : Joins(s, f)
<1>8. Zip!FlattenSeq(s) = it[Len(s)]
  BY <1>1 DEF Zip!FlattenSeq, Joins
<1>9. Joins(s, it)
  BY <1>7
<1>10. it \in [D -> V]
  <2> HIDE DEF it
  <2> DEFINE Q == {k \in Nat : k \in D => it[k] \in V}
  <2>1. 0 \in Q
    OBVIOUS
  <2>2. ASSUME NEW k \in Nat, k \in Q PROVE k + 1 \in Q
    <3> SUFFICES ASSUME k + 1 \in D PROVE it[k + 1] \in V
      OBVIOUS
    <3>1. it[k + 1] = IF k + 1 = 1 THEN s[k + 1] ELSE it[k] \o s[k + 1]
      <4>1. \A n \in D : it[n] = IF n = 1 THEN s[n] ELSE it[n - 1] \o s[n]
        <5> DEFINE F == [n \in D |-> IF n = 1 THEN s[n] ELSE it[n - 1] \o s[n]]
        <5>1. it = F
          BY <1>9 DEF Joins
        <5>2. \A n \in D : F[n] = IF n = 1 THEN s[n] ELSE it[n - 1] \o s[n]
          OBVIOUS
        <5> HIDE DEF F
        <5> QED BY <5>1, <5>2
      <4>2. (k + 1) - 1 = k
        OBVIOUS
      <4> QED BY <4>1, <4>2
    <3>2. k # 0 => it[k] \in V
      BY <2>2
    <3>3. s[k + 1] \in V
      BY <1>1
    <3>4. k # 0 => it[k] \o s[k + 1] \in V
      BY <3>2, <3>3, ConcatProperties
    <3> QED BY <3>1, <3>3, <3>4
  <2>3. Nat \subseteq Q
    <3> HIDE DEF Q
    <3> QED BY <2>1, <2>2, NatSetInduction
  <2>4. \A k \in D : it[k] \in V
    BY <2>3
  <2>5. it = [k \in D |-> it[k]]
    BY <1>9 DEF Joins
  <2> QED BY <2>4, <2>5
<1> HIDE DEF it
<1> QED BY <1>8, <1>9, <1>10

LEMMA JoinsEquation ==
  ASSUME NEW s, NEW h, NEW k \in 1 .. Len(s), Joins(s, h)
  PROVE  h[k] = IF k = 1 THEN s[k] ELSE h[k - 1] \o s[k]
BY DEF Joins

Alike(s, t, n) == \A k \in 1 .. n : s[k] = t[k]

\* Two lists that begin alike are joined alike, as far as that goes.
LEMMA JoinsAgree ==
  ASSUME NEW V, NEW s \in Seq(V), NEW t \in Seq(V), NEW g, NEW h,
         Joins(s, g), Joins(t, h), Len(s) <= Len(t), Alike(s, t, Len(s))
  PROVE  Alike(g, h, Len(s))
<1> DEFINE Q == {k \in Nat : k \in 1 .. Len(s) => g[k] = h[k]}
<1>0. Len(s) \in Nat /\ Len(t) \in Nat
  OBVIOUS
<1>1. 0 \in Q
  OBVIOUS
<1>2. ASSUME NEW k \in Nat, k \in Q PROVE k + 1 \in Q
  <2> SUFFICES ASSUME k + 1 \in 1 .. Len(s) PROVE g[k + 1] = h[k + 1]
    OBVIOUS
  <2> DEFINE j == k + 1
  <2>1. j \in 1 .. Len(s) /\ j \in 1 .. Len(t) /\ s[j] = t[j] /\ j - 1 = k
    BY <1>0 DEF Alike
  <2> HIDE DEF j
  <2>2. g[j] = IF j = 1 THEN s[j] ELSE g[j - 1] \o s[j]
    BY <2>1, JoinsEquation
  <2>3. h[j] = IF j = 1 THEN t[j] ELSE h[j - 1] \o t[j]
    BY <2>1, JoinsEquation
  <2>4. j # 1 => g[j - 1] = h[j - 1]
    BY <1>0, <1>2, <2>1
  <2>5. g[j] = h[j]
    BY <2>1, <2>2, <2>3, <2>4
  <2> QED BY <2>5 DEF j
<1>3. Nat \subseteq Q
  <2> HIDE DEF Q
  <2> QED BY <1>1, <1>2, NatSetInduction
<1> QED BY <1>3 DEF Alike

\* FlattenSeq, sequence by sequence.
LEMMA FlattenEmpty == Zip!FlattenSeq(<<>>) = <<>>
BY DEF Zip!FlattenSeq

LEMMA FlattenType ==
  ASSUME NEW S, NEW s \in Seq(Seq(S))
  PROVE  Zip!FlattenSeq(s) \in Seq(S)
<1>1. CASE s = <<>>
  BY <1>1, FlattenEmpty, EmptySeq
<1>2. CASE s # <<>>
  <2>1. PICK h \in [1 .. Len(s) -> Seq(S)] : Zip!FlattenSeq(s) = h[Len(s)]
    BY <1>2, FlattenUnfolds
  <2>2. Len(s) \in 1 .. Len(s)
    BY <1>2, EmptySeq
  <2> HIDE DEF Zip!FlattenSeq
  <2> QED BY <2>1, <2>2
<1> QED BY <1>1, <1>2

LEMMA FlattenAppend ==
  ASSUME NEW S, NEW s \in Seq(Seq(S)), NEW x \in Seq(S)
  PROVE  Zip!FlattenSeq(Append(s, x)) = Zip!FlattenSeq(s) \o x
<1> DEFINE t == Append(s, x)
<1>1. /\ t \in Seq(Seq(S)) /\ t # <<>> /\ Len(t) = Len(s) + 1 /\ Len(s) \in Nat
      /\ t[Len(t)] = x /\ \A k \in 1 .. Len(s) : s[k] = t[k]
  BY AppendProperties, LenProperties
<1> HIDE DEF t
<1>2. PICK h \in [1 .. Len(t) -> Seq(S)] : Joins(t, h) /\ Zip!FlattenSeq(t) = h[Len(t)]
  BY <1>1, FlattenUnfolds
<1>3. h[Len(t)] = IF Len(t) = 1 THEN x ELSE h[Len(t) - 1] \o x
  <2>1. Len(t) \in 1 .. Len(t)
    BY <1>1
  <2> QED BY <1>1, <1>2, <2>1, JoinsEquation
<1>4. CASE s = <<>>
  <2>1. Len(t) = 1
    BY <1>1, <1>4, EmptySeq
  <2>2. Zip!FlattenSeq(t) = x
    BY <1>2, <1>3, <2>1
  <2>3. <<>> \o x = x
    BY ConcatEmptySeq
  <2> QED BY <1>4, <2>2, <2>3, FlattenEmpty DEF t
<1>5. CASE s # <<>>
  <2>1. PICK g \in [1 .. Len(s) -> Seq(S)] : Joins(s, g) /\ Zip!FlattenSeq(s) = g[Len(s)]
    BY <1>5, FlattenUnfolds
  <2>2. Len(s) # 0
    BY <1>5, EmptySeq
  <2>3. \A k \in 1 .. Len(s) : g[k] = h[k]
    <3>1. Len(s) <= Len(t)
      BY <1>1
    <3>2. Alike(s, t, Len(s))
      BY <1>1 DEF Alike
    <3>3. Alike(g, h, Len(s))
      BY <1>1, <1>2, <2>1, <3>1, <3>2, JoinsAgree
    <3> QED BY <3>3 DEF Alike
  <2>4. Len(t) - 1 = Len(s) /\ Len(t) # 1 /\ Len(s) \in 1 .. Len(s)
    BY <1>1, <2>2
  <2>5. Zip!FlattenSeq(t) = g[Len(s)] \o x
    BY <1>2, <1>3, <2>3, <2>4
  <2> QED BY <2>1, <2>5 DEF t
<1> QED BY <1>4, <1>5

-----------------------------------------------------------------------------

NUL == Zip!NUL
Char == Zip!Char
Symbol == Char \cup {NUL}
Tokens == [count : Nat, ch : Symbol]
Run(tok) == Zip!Run(tok)
Decode(tokens) == Zip!Decode(tokens)

LEMMA RunType ==
  ASSUME NEW tok \in Tokens
  PROVE  Run(tok) \in Seq(Symbol) /\ Len(Run(tok)) = tok.count
<1>1. tok.count \in Nat /\ tok.ch \in Symbol
  BY DEF Tokens
<1>2. \A m \in Nat, c \in Symbol : [n \in 1 .. m |-> c] \in Seq(Symbol) /\ Len([n \in 1 .. m |-> c]) = m
  OBVIOUS
<1> QED BY <1>1, <1>2 DEF Run, Zip!Run

\* No character, one character, and one more.
LEMMA RunGrows ==
  ASSUME NEW m \in Nat, NEW c \in Symbol
  PROVE  /\ Run([count |-> 0, ch |-> c]) = <<>>
         /\ Run([count |-> 1, ch |-> c]) = <<c>>
         /\ Run([count |-> m + 1, ch |-> c]) = Append(Run([count |-> m, ch |-> c]), c)
<1>1. \A k \in Nat : Run([count |-> k, ch |-> c]) = [n \in 1 .. k |-> c]
  BY DEF Run, Zip!Run
<1>2. [n \in 1 .. 0 |-> c] = <<>> /\ [n \in 1 .. 1 |-> c] = <<c>>
  OBVIOUS
<1>3. [n \in 1 .. m + 1 |-> c] = Append([n \in 1 .. m |-> c], c)
  OBVIOUS
<1>4. Run([count |-> 0, ch |-> c]) = <<>> /\ Run([count |-> 1, ch |-> c]) = <<c>>
  <2>1. 0 \in Nat /\ 1 \in Nat
    OBVIOUS
  <2> HIDE DEF Run
  <2> QED BY <1>1, <1>2, <2>1
<1>5. Run([count |-> m + 1, ch |-> c]) = Append(Run([count |-> m, ch |-> c]), c)
  <2>1. m + 1 \in Nat
    OBVIOUS
  <2> HIDE DEF Run
  <2> QED BY <1>1, <1>3, <2>1
<1> QED BY <1>4, <1>5

\* Printing a token adds its run to what unzips.
LEMMA DecodeAppend ==
  ASSUME NEW ts \in Seq(Tokens), NEW tok \in Tokens
  PROVE  /\ Decode(ts) \in Seq(Symbol)
         /\ Decode(Append(ts, tok)) = Decode(ts) \o Run(tok)
<1> DEFINE runs(l) == [n \in 1 .. Len(l) |-> Run(l[n])]
<1>1. ASSUME NEW l \in Seq(Tokens) PROVE runs(l) \in Seq(Seq(Symbol)) /\ Len(runs(l)) = Len(l)
  <2>1. Len(l) \in Nat /\ \A n \in 1 .. Len(l) : Run(l[n]) \in Seq(Symbol)
    BY LenProperties, ElementOfSeq, RunType
  <2> HIDE DEF Run
  <2> QED BY <2>1
<1>2. Append(ts, tok) \in Seq(Tokens) /\ Run(tok) \in Seq(Symbol)
  BY AppendProperties, RunType
<1>3. runs(Append(ts, tok)) = Append(runs(ts), Run(tok))
  <2>1. /\ Len(Append(ts, tok)) = Len(ts) + 1 /\ Len(ts) \in Nat
        /\ \A n \in 1 .. Len(ts) : Append(ts, tok)[n] = ts[n]
        /\ Append(ts, tok)[Len(ts) + 1] = tok
    BY AppendProperties, LenProperties
  <2> DEFINE a == runs(Append(ts, tok))  b == Append(runs(ts), Run(tok))
  <2>2. a \in Seq(Seq(Symbol)) /\ Len(a) = Len(ts) + 1
    BY <1>1, <1>2, <2>1
  <2>3. runs(ts) \in Seq(Seq(Symbol)) /\ Len(runs(ts)) = Len(ts)
    BY <1>1
  <2>4. /\ b \in Seq(Seq(Symbol)) /\ Len(b) = Len(ts) + 1
        /\ \A n \in 1 .. Len(ts) : b[n] = runs(ts)[n]
        /\ b[Len(ts) + 1] = Run(tok)
    <3> HIDE DEF runs
    <3> QED BY <1>2, <2>3, AppendProperties
  <2>5. \A n \in 1 .. Len(ts) + 1 : a[n] = b[n]
    <3> TAKE n \in 1 .. Len(ts) + 1
    <3>1. a[n] = Run(Append(ts, tok)[n])
      BY <2>1
    <3>2. CASE n <= Len(ts)
      <4>1. n \in 1 .. Len(ts)
        BY <2>1, <3>2
      <4>2. runs(ts)[n] = Run(ts[n])
        BY <4>1
      <4>3. Append(ts, tok)[n] = ts[n] /\ b[n] = runs(ts)[n]
        BY <2>1, <2>4, <4>1
      <4> HIDE DEF a, b, runs
      <4> QED BY <3>1, <4>2, <4>3
    <3>3. CASE n = Len(ts) + 1
      <4> HIDE DEF a, b
      <4> QED BY <2>1, <2>4, <3>1, <3>3
    <3> QED BY <2>1, <3>2, <3>3
  <2> HIDE DEF a, b
  <2>6. a = b
    BY <2>2, <2>4, <2>5, SeqEqual
  <2> QED BY <2>6 DEF a, b
<1>4. \A l : Decode(l) = Zip!FlattenSeq(runs(l))
  BY DEF Decode, Zip!Decode, Run
<1>5. runs(ts) \in Seq(Seq(Symbol))
  BY <1>1
<1> HIDE DEF runs
<1> QED BY <1>2, <1>3, <1>4, <1>5, FlattenType, FlattenAppend

-----------------------------------------------------------------------------
(* The scanner.                                                            *)

\* Texts hold no NUL.
ZipArgs == NUL \notin Letters /\ MaxLength \in Nat /\ MaxFiles \in Nat

LEMMA SymbolFacts ==
  ASSUME ZipArgs
  PROVE  /\ NUL \notin Char /\ NUL \in Symbol /\ Char \subseteq Symbol
         /\ Zip!nulltoken \in Tokens /\ Zip!nulltoken = [count |-> 0, ch |-> NUL]
         /\ Zip!File \subseteq Seq(Char)
<1>1. NUL \notin Char
  BY DEF ZipArgs, NUL, Char, Zip!NUL, Zip!Char, Zip!NL
<1>2. Zip!nulltoken \in Tokens /\ Zip!nulltoken = [count |-> 0, ch |-> NUL]
  BY DEF Zip!nulltoken, Tokens, Symbol, NUL
<1>3. Zip!File \subseteq Seq(Char)
  <2>1. ASSUME NEW n \in 0 .. MaxLength, NEW f \in [1 .. n -> Char] PROVE f \in Seq(Char)
    <3>1. n \in Nat
      BY DEF ZipArgs
    <3> QED BY <3>1
  <2> QED BY <2>1 DEF Zip!File, Char
<1> QED BY <1>1, <1>2, <1>3 DEF Symbol

\* One character of the first file: either it goes on with the run in hand,
\* or the run is printed and a new one begun.
LEMMA ScanFirst ==
  ASSUME ZipArgs, NEW tok \in Tokens, NEW last \in Symbol, NEW o \in Seq(Tokens),
         NEW c \in Char, NEW begins \in BOOLEAN,
         \/ tok = Zip!nulltoken /\ last = NUL /\ begins
         \/ tok.count > 0 /\ tok.ch = last /\ last \in Char
  PROVE  LET s == Zip!Scan([token |-> tok, lstch |-> last, out |-> o], c, begins)
         IN  /\ s.lstch = c
             /\ \/ /\ tok.count = 0 \/ tok.ch = c
                   /\ s.token = [count |-> tok.count + 1, ch |-> c] /\ s.out = o
                \/ /\ tok.count > 0 /\ tok.ch # c
                   /\ s.token = [count |-> 1, ch |-> c] /\ s.out = Append(o, tok)
<1>1. NUL \notin Char /\ Zip!NUL = NUL /\ Zip!nulltoken = [count |-> 0, ch |-> NUL]
  BY SymbolFacts DEF NUL
<1>2. tok = [count |-> tok.count, ch |-> tok.ch] /\ tok.count \in Nat
  BY DEF Tokens
<1> HIDE DEF NUL
<1> USE DEF Zip!Scan, Zip!FirstChar, Zip!LineBreak, Zip!NextChar, Zip!EndRun, Zip!isNewChar,
            Zip!isRepeatChar, Zip!newToken, Zip!updateTokenCount, Zip!printToken
<1>3. CASE tok = Zip!nulltoken /\ last = NUL /\ begins
  BY <1>1, <1>3
<1>4. CASE tok.count > 0 /\ tok.ch = last /\ last \in Char /\ c = last
  BY <1>1, <1>2, <1>4
<1>5. CASE tok.count > 0 /\ tok.ch = last /\ last \in Char /\ c # last
  BY <1>1, <1>2, <1>5
<1> QED BY <1>3, <1>4, <1>5

\* One character of any file.
LEMMA ScanType ==
  ASSUME ZipArgs, NEW tok \in Tokens, NEW last \in Symbol, NEW o \in Seq(Tokens),
         NEW c \in Char, NEW begins \in BOOLEAN
  PROVE  LET s == Zip!Scan([token |-> tok, lstch |-> last, out |-> o], c, begins)
         IN  /\ s.token \in Tokens /\ s.lstch = c /\ s.out \in Seq(Tokens)
             /\ tok.count > 0 => s.token.count > 0
<1>1. Zip!nulltoken \in Tokens /\ c \in Symbol /\ Zip!nulltoken.count = 0
  BY SymbolFacts
<1>2. tok = [count |-> tok.count, ch |-> tok.ch] /\ tok.count \in Nat /\ tok.ch \in Symbol
  BY DEF Tokens
<1>3. [count |-> 1, ch |-> c] \in Tokens /\ [count |-> 2, ch |-> c] \in Tokens
  BY <1>1 DEF Tokens
<1>4. [count |-> tok.count + 1, ch |-> tok.ch] \in Tokens
  BY <1>2 DEF Tokens
<1>5. Append(o, tok) \in Seq(Tokens)
  BY AppendProperties
<1> HIDE DEF NUL, Symbol, Char, Tokens
<1> USE DEF Zip!Scan, Zip!FirstChar, Zip!LineBreak, Zip!NextChar, Zip!EndRun, Zip!isNewChar,
            Zip!isRepeatChar, Zip!newToken, Zip!updateTokenCount, Zip!printToken
<1>6. CASE begins
  BY <1>1, <1>2, <1>3, <1>4, <1>5, <1>6
<1>7. CASE ~begins
  BY <1>1, <1>2, <1>3, <1>4, <1>5, <1>7
<1> QED BY <1>6, <1>7

-----------------------------------------------------------------------------
(* The invariant.                                                          *)

ZipTypeOK ==
  /\ files \in Seq(Zip!File \cup {Zip!missing})
  /\ fileno \in Nat /\ fileno # 0 /\ pos \in Int
  /\ token \in Tokens /\ lstch \in Symbol /\ out \in Seq(Tokens)
  /\ (rc = Zip!running => fileno <= Len(files))
  /\ (pos >= 0 => rc = Zip!running /\ files[fileno] \in Seq(Char) /\ pos <= Len(files[fileno]))
  /\ (fileno >= 2 => files[1] \in Seq(Char))

\* The run in hand.  In the first file it is of the character before.
RunInHand ==
  /\ (fileno = 1 /\ pos <= 0 => token = Zip!nulltoken /\ out = <<>>)
  /\ (fileno = 1 /\ pos = 0 => lstch = NUL)
  /\ (fileno = 1 /\ pos > 0 => token.count > 0 /\ token.ch = lstch /\ lstch \in Char)
  /\ (fileno >= 2 /\ rc = Zip!running => token.count > 0)

\* No character of a second file has been read.
OneFile == fileno = 1 \/ (fileno = 2 /\ pos <= 0)

\* What unzips from what is printed and in hand, and what was read.
Coded == Decode(out) \o Run(token)
FirstText ==
  IF fileno = 1 THEN IF pos > 0 THEN SubSeq(files[1], 1, pos) ELSE <<>> ELSE files[1]

RunsDiffer ==
  /\ \A n \in 1 .. Len(out) - 1 : out[n].ch # out[n + 1].ch
  /\ (token.count > 0 /\ out # <<>> => out[Len(out)].ch # token.ch)

ZipInv == ZipTypeOK /\ RunInHand /\ (OneFile => Coded = FirstText /\ RunsDiffer)

\* What a step prints.
LEMMA CodedType ==
  ASSUME token \in Tokens, out \in Seq(Tokens)
  PROVE  Decode(out) \in Seq(Symbol) /\ Run(token) \in Seq(Symbol) /\ Coded \in Seq(Symbol)
<1>1. Decode(out) \in Seq(Symbol) /\ Run(token) \in Seq(Symbol)
  BY DecodeAppend, RunType
<1> QED BY <1>1, ConcatProperties DEF Coded

LEMMA ConcatAppend ==
  ASSUME NEW S, NEW a \in Seq(S), NEW b \in Seq(S), NEW c \in S
  PROVE  a \o Append(b, c) = Append(a \o b, c) /\ a \o <<c>> = Append(a, c)
<1>1. Append(b, c) = b \o <<c>> /\ <<c>> \in Seq(S) /\ a \o b \in Seq(S)
  BY AppendIsConcat, ConcatProperties
<1>2. Append(a \o b, c) = (a \o b) \o <<c>> /\ Append(a, c) = a \o <<c>>
  BY <1>1, AppendIsConcat
<1>3. (a \o b) \o <<c>> = a \o (b \o <<c>>)
  BY <1>1, ConcatAssociative
<1> QED BY <1>1, <1>2, <1>3

\* The next character of the first file adds itself to what unzips.
LEMMA CodedGrows ==
  ASSUME token \in Tokens, out \in Seq(Tokens), NEW c \in Symbol,
         \/ /\ token.count = 0 \/ token.ch = c
            /\ token' = [count |-> token.count + 1, ch |-> c] /\ out' = out
         \/ /\ token.count > 0 /\ token.ch # c
            /\ token' = [count |-> 1, ch |-> c] /\ out' = Append(out, token)
  PROVE  Coded' = Append(Coded, c)
<1>1. /\ Decode(out) \in Seq(Symbol) /\ Run(token) \in Seq(Symbol) /\ Coded \in Seq(Symbol)
      /\ Coded' = Decode(out') \o Run(token')
  BY CodedType DEF Coded, Decode, Run, Zip!Decode, Zip!Run
<1>2. token = [count |-> token.count, ch |-> token.ch] /\ token.count \in Nat
  BY DEF Tokens
<1>3. CASE token.count = 0 /\ token' = [count |-> 1, ch |-> c] /\ out' = out
  <2>1. Run(token) = <<>> /\ Run(token') = <<c>>
    <3>1. token.ch \in Symbol /\ token = [count |-> 0, ch |-> token.ch]
      BY <1>2, <1>3 DEF Tokens
    <3> QED BY <1>3, <3>1, RunGrows
  <2>2. Coded = Decode(out)
    BY <1>1, <2>1, ConcatEmptySeq DEF Coded
  <2> QED BY <1>1, <1>3, <2>1, <2>2, ConcatAppend
<1>4. CASE token.ch = c /\ token' = [count |-> token.count + 1, ch |-> c] /\ out' = out
  <2>1. Run(token') = Append(Run(token), c)
    BY <1>2, <1>4, RunGrows
  <2> QED BY <1>1, <1>4, <2>1, ConcatAppend DEF Coded
<1>5. CASE token' = [count |-> 1, ch |-> c] /\ out' = Append(out, token)
  <2>1. Run(token') = <<c>>
    BY <1>5, RunGrows
  <2>2. Decode(out') = Coded
    BY <1>5, DecodeAppend DEF Coded
  <2> QED BY <1>1, <2>1, <2>2, ConcatAppend
<1> QED BY <1>2, <1>3, <1>4, <1>5

LEMMA ZipInit == ZipArgs /\ Zip!Init => ZipInv
<1> SUFFICES ASSUME ZipArgs, Zip!Init PROVE ZipInv
  OBVIOUS
<1>1. /\ fileno = 1 /\ pos = -1 /\ token = Zip!nulltoken /\ lstch = NUL /\ out = <<>>
      /\ rc = IF files = <<>> THEN 1 ELSE Zip!running
  BY DEF Zip!Init, NUL
<1>2. files \in Seq(Zip!File \cup {Zip!missing})
  <2>1. PICK n \in 0 .. MaxFiles : files \in [1 .. n -> Zip!File \cup {Zip!missing}]
    BY DEF Zip!Init
  <2>2. n \in Nat
    BY DEF ZipArgs
  <2> QED BY <2>1, <2>2
<1>3. rc = Zip!running => Len(files) >= 1
  BY <1>1, <1>2, EmptySeq DEF Zip!running
<1>4. ZipTypeOK
  BY <1>1, <1>2, <1>3, SymbolFacts DEF ZipTypeOK
<1>5. RunInHand
  BY <1>1 DEF RunInHand
<1>6. Coded = FirstText
  <2>1. Decode(<<>>) = <<>>
    BY FlattenEmpty DEF Decode, Zip!Decode
  <2>2. Run(token) = <<>>
    BY <1>1, SymbolFacts, RunGrows
  <2> QED BY <1>1, <2>1, <2>2 DEF Coded, FirstText
<1>7. RunsDiffer
  BY <1>1 DEF RunsDiffer
<1> QED BY <1>4, <1>5, <1>6, <1>7 DEF ZipInv

\* A file is opened, or cannot be.
LEMMA ZipOpen ==
  ASSUME ZipArgs, ZipInv, Zip!Open
  PROVE  ZipInv'
<1>1. /\ rc = Zip!running /\ pos = -1 /\ fileno \in Nat /\ fileno # 0
      /\ files' = files /\ fileno' = fileno /\ token' = token /\ out' = out
      /\ files \in Seq(Zip!File \cup {Zip!missing}) /\ fileno <= Len(files)
      /\ token \in Tokens /\ lstch \in Symbol /\ out \in Seq(Tokens)
  BY DEF Zip!Open, ZipInv, ZipTypeOK
<1>2. Coded' = Coded
  BY <1>1 DEF Coded, Decode, Run, Zip!Decode, Zip!Run
<1>3. \/ files[fileno] = Zip!missing /\ rc' = 1 /\ pos' = pos /\ lstch' = lstch
      \/ files[fileno] # Zip!missing /\ pos' = 0 /\ lstch' = NUL /\ rc' = rc
  BY DEF Zip!Open, NUL
<1>4. files[fileno] # Zip!missing => files[fileno] \in Seq(Char)
  <2>1. fileno \in 1 .. Len(files)
    BY <1>1
  <2>2. files[fileno] \in Zip!File \cup {Zip!missing}
    BY <1>1, <2>1, ElementOfSeq
  <2> QED BY <2>2, SymbolFacts
<1>5. ZipTypeOK'
  <2>1. files[fileno] # Zip!missing => 0 <= Len(files[fileno])
    BY <1>4, LenProperties
  <2> QED BY <1>1, <1>3, <1>4, <2>1, SymbolFacts DEF ZipInv, ZipTypeOK, Zip!running
<1>6. RunInHand'
  BY <1>1, <1>3 DEF ZipInv, RunInHand, Zip!running, NUL, Zip!NUL
<1>7. OneFile' => Coded' = FirstText' /\ RunsDiffer'
  <2>1. (OneFile' => OneFile) /\ FirstText' = FirstText
    BY <1>1, <1>3 DEF OneFile, FirstText
  <2>2. RunsDiffer => RunsDiffer'
    BY <1>1 DEF RunsDiffer
  <2> QED BY <1>2, <2>1, <2>2 DEF ZipInv
<1> QED BY <1>5, <1>6, <1>7 DEF ZipInv

\* A character is read.
LEMMA ZipReadChar ==
  ASSUME ZipArgs, ZipInv, Zip!ReadChar
  PROVE  ZipInv'
<1> DEFINE text == files[fileno]
           c == text[pos + 1]
           begins == Zip!LineStart(text, pos + 1)
<1>1. /\ rc = Zip!running /\ pos >= 0 /\ pos < Len(text) /\ pos \in Int
      /\ fileno \in Nat /\ fileno # 0
      /\ files' = files /\ fileno' = fileno /\ rc' = rc /\ pos' = pos + 1
      /\ files \in Seq(Zip!File \cup {Zip!missing}) /\ fileno <= Len(files)
      /\ token \in Tokens /\ lstch \in Symbol /\ out \in Seq(Tokens)
      /\ text \in Seq(Char)
  BY DEF Zip!ReadChar, ZipInv, ZipTypeOK
<1>2. PICK s : /\ s = Zip!Scan([token |-> token, lstch |-> lstch, out |-> out], c, begins)
               /\ token' = s.token /\ lstch' = s.lstch /\ out' = s.out
  BY DEF Zip!ReadChar
<1>3. begins \in BOOLEAN /\ (pos = 0 => begins)
  BY <1>1 DEF Zip!LineStart
<1>4. c \in Char
  BY <1>1
<1> HIDE DEF c, begins
<1>5. token' \in Tokens /\ lstch' = c /\ out' \in Seq(Tokens) /\ (token.count > 0 => token'.count > 0)
  BY <1>1, <1>2, <1>3, <1>4, ScanType
<1>6. ZipTypeOK'
  <2>1. c \in Symbol
    BY <1>4 DEF Symbol
  <2> QED BY <1>1, <1>5, <2>1 DEF ZipInv, ZipTypeOK
<1>7. CASE fileno # 1
  <2>1. fileno >= 2
    BY <1>1, <1>7
  <2>2. RunInHand'
    BY <1>1, <1>5, <2>1 DEF ZipInv, RunInHand
  <2>3. ~OneFile'
    BY <1>1, <2>1 DEF OneFile
  <2> QED BY <1>6, <2>2, <2>3 DEF ZipInv
<1>8. CASE fileno = 1
  <2>1. \/ token = Zip!nulltoken /\ lstch = NUL /\ begins
        \/ token.count > 0 /\ token.ch = lstch /\ lstch \in Char
    BY <1>1, <1>3, <1>8 DEF ZipInv, RunInHand
  <2>2. \/ /\ token.count = 0 \/ token.ch = c
           /\ token' = [count |-> token.count + 1, ch |-> c] /\ out' = out
        \/ /\ token.count > 0 /\ token.ch # c
           /\ token' = [count |-> 1, ch |-> c] /\ out' = Append(out, token)
    BY <1>1, <1>2, <1>3, <1>4, <2>1, ScanFirst
  <2>3. token.count \in Nat
    BY <1>1 DEF Tokens
  <2>4. token'.count > 0 /\ token'.ch = c
    BY <2>2, <2>3
  <2>5. RunInHand'
    BY <1>1, <1>4, <1>5, <1>8, <2>4 DEF RunInHand
  <2>6. Coded = FirstText /\ RunsDiffer
    BY <1>8 DEF ZipInv, OneFile
  <2>7. Coded' = Append(Coded, c)
    <3>1. c \in Symbol
      BY <1>4 DEF Symbol
    <3> QED BY <1>1, <2>2, <3>1, CodedGrows
  <2>8. FirstText' = Append(FirstText, c)
    <3>1. FirstText' = SubSeq(text, 1, pos + 1)
      BY <1>1, <1>8 DEF FirstText
    <3>2. FirstText = IF pos > 0 THEN SubSeq(text, 1, pos) ELSE <<>>
      BY <1>8 DEF FirstText
    <3>3. SubSeq(text, 1, pos + 1) = SubSeq(text, 1, pos) \o <<c>>
      <4>1. /\ 1 \in 1 .. Len(text) /\ pos + 1 \in 1 .. Len(text) /\ (pos + 1) - 1 = pos
        BY <1>1
      <4> QED BY <1>1, <4>1, SubSeqRecursiveSecond DEF c
    <3>4. SubSeq(text, 1, pos) \in Seq(Char)
      BY <1>1, SubSeqProperties
    <3>5. SubSeq(text, 1, pos) \o <<c>> = Append(SubSeq(text, 1, pos), c)
      BY <1>4, <3>4, AppendIsConcat
    <3>6. pos = 0 => SubSeq(text, 1, pos) = <<>>
      BY SubSeqEmpty
    <3> QED BY <1>1, <3>1, <3>2, <3>3, <3>5, <3>6
  <2>9. RunsDiffer'
    <3>1. CASE out' = out /\ (token.count = 0 \/ token.ch = c)
      <4>1. token.count = 0 => out = <<>>
        BY <1>1, <1>8 DEF ZipInv, RunInHand
      <4> QED BY <2>3, <2>4, <2>6, <3>1, <4>1 DEF RunsDiffer
    <3>2. CASE out' = Append(out, token) /\ token.count > 0 /\ token.ch # c
      <4>1. /\ Len(out') = Len(out) + 1 /\ Len(out) \in Nat /\ out'[Len(out) + 1] = token
            /\ \A n \in 1 .. Len(out) : out'[n] = out[n]
        BY <1>1, <3>2, AppendProperties, LenProperties
      <4>2. ASSUME NEW n \in 1 .. Len(out') - 1 PROVE out'[n].ch # out'[n + 1].ch
        <5>1. CASE n = Len(out)
          <6>1. out # <<>>
            BY <4>1, <4>2, <5>1, EmptySeq
          <6> QED BY <2>6, <3>2, <4>1, <4>2, <5>1, <6>1 DEF RunsDiffer
        <5>2. CASE n # Len(out)
          <6>1. n \in 1 .. Len(out) - 1 /\ n \in 1 .. Len(out) /\ n + 1 \in 1 .. Len(out)
            BY <4>1, <4>2, <5>2
          <6> QED BY <2>6, <4>1, <6>1 DEF RunsDiffer
        <5> QED BY <5>1, <5>2
      <4> QED BY <2>4, <3>2, <4>1, <4>2 DEF RunsDiffer
    <3> QED BY <2>2, <3>1, <3>2
  <2> QED BY <1>6, <2>5, <2>6, <2>7, <2>8, <2>9 DEF ZipInv
<1> QED BY <1>7, <1>8

\* The end of a file.
LEMMA ZipClose ==
  ASSUME ZipArgs, ZipInv, Zip!Close
  PROVE  ZipInv'
<1>1. /\ rc = Zip!running /\ pos >= 0 /\ pos = Len(files[fileno]) /\ pos \in Int
      /\ fileno \in Nat /\ fileno # 0 /\ fileno <= Len(files) /\ Len(files) \in Nat
      /\ files' = files /\ pos' = -1 /\ lstch' = lstch
      /\ files \in Seq(Zip!File \cup {Zip!missing})
      /\ token \in Tokens /\ lstch \in Symbol /\ out \in Seq(Tokens)
      /\ files[fileno] \in Seq(Char)
      /\ fileno' = IF token.count # 0 THEN fileno + 1 ELSE fileno
  BY DEF Zip!Close, ZipInv, ZipTypeOK
<1>2. \/ fileno' > Len(files) /\ out' = Append(out, token) /\ token' = Zip!nulltoken /\ rc' = 0
      \/ fileno' <= Len(files) /\ out' = out /\ token' = token /\ rc' = rc
  BY <1>1 DEF Zip!Close
<1>3. ZipTypeOK'
  <2>1. token' \in Tokens /\ out' \in Seq(Tokens)
    <3>1. Append(out, token) \in Seq(Tokens) /\ Zip!nulltoken \in Tokens
      BY <1>1, SymbolFacts, AppendProperties
    <3> QED BY <1>1, <1>2, <3>1
  <2>2. rc' = Zip!running => fileno' <= Len(files)
    BY <1>2 DEF Zip!running
  <2>3. fileno' >= 2 => files[1] \in Seq(Char)
    BY <1>1 DEF ZipInv, ZipTypeOK
  <2> QED BY <1>1, <2>1, <2>2, <2>3 DEF ZipTypeOK
<1>4. CASE token.count = 0
  <2>1. fileno = 1 /\ pos = 0
    BY <1>1, <1>4 DEF ZipInv, RunInHand
  <2>2. fileno' = 1 /\ out' = out /\ token' = token /\ rc' = rc
    BY <1>1, <1>2, <1>4, <2>1
  <2>3. Coded' = Coded
    BY <2>2 DEF Coded, Decode, Run, Zip!Decode, Zip!Run
  <2>4. OneFile /\ FirstText' = FirstText /\ RunInHand'
    BY <1>1, <2>1, <2>2 DEF ZipInv, OneFile, FirstText, RunInHand
  <2>5. RunsDiffer => RunsDiffer'
    BY <2>2 DEF RunsDiffer
  <2> QED BY <1>3, <2>3, <2>4, <2>5 DEF ZipInv
<1>5. CASE token.count # 0
  <2>1. token.count > 0 /\ fileno' = fileno + 1 /\ fileno' >= 2
    BY <1>1, <1>5 DEF Tokens
  <2>2. RunInHand'
    BY <1>2, <2>1 DEF RunInHand, Zip!running
  <2>3. CASE fileno # 1
    <3>1. ~OneFile'
      BY <1>1, <2>1, <2>3 DEF OneFile
    <3> QED BY <1>3, <2>2, <3>1 DEF ZipInv
  <2>4. CASE fileno = 1
    <3>1. Coded = FirstText /\ RunsDiffer
      BY <2>4 DEF ZipInv, OneFile
    <3>2. FirstText = files[1] /\ FirstText' = files[1]
      <4>1. pos > 0
        BY <1>1, <2>1, <2>4, SymbolFacts DEF ZipInv, RunInHand
      <4>2. SubSeq(files[1], 1, Len(files[1])) = files[1]
        BY <1>1, <2>4, SubSeqFull
      <4>3. FirstText = SubSeq(files[1], 1, Len(files[1]))
        BY <1>1, <2>4, <4>1 DEF FirstText
      <4>4. FirstText' = files'[1]
        <5>1. fileno' # 1
          BY <2>1
        <5> QED BY <5>1 DEF FirstText
      <4> QED BY <1>1, <4>2, <4>3, <4>4
    <3>3. Coded' = Coded
      <4>1. Coded' = Decode(out') \o Run(token')
        BY DEF Coded, Decode, Run, Zip!Decode, Zip!Run
      <4>2. CASE out' = out /\ token' = token
        BY <4>1, <4>2 DEF Coded
      <4>3. CASE out' = Append(out, token) /\ token' = Zip!nulltoken
        <5>1. Decode(out') = Coded
          BY <1>1, <4>3, DecodeAppend DEF Coded
        <5>2. Run(token') = <<>>
          BY <4>3, SymbolFacts, RunGrows
        <5>3. Coded \in Seq(Symbol)
          BY <1>1, CodedType
        <5> QED BY <4>1, <5>1, <5>2, <5>3, ConcatEmptySeq
      <4> QED BY <1>2, <4>2, <4>3
    <3>4. RunsDiffer'
      <4>1. CASE out' = out /\ token' = token
        BY <3>1, <4>1 DEF RunsDiffer
      <4>2. CASE out' = Append(out, token) /\ token' = Zip!nulltoken
        <5>1. /\ Len(out') = Len(out) + 1 /\ Len(out) \in Nat /\ out'[Len(out) + 1] = token
              /\ \A n \in 1 .. Len(out) : out'[n] = out[n]
          BY <1>1, <4>2, AppendProperties, LenProperties
        <5>2. token'.count = 0
          BY <4>2, SymbolFacts
        <5>3. ASSUME NEW n \in 1 .. Len(out') - 1 PROVE out'[n].ch # out'[n + 1].ch
          <6>1. CASE n = Len(out)
            <7>1. out # <<>>
              BY <5>1, <5>3, <6>1, EmptySeq
            <7> QED BY <2>1, <3>1, <5>1, <5>3, <6>1, <7>1 DEF RunsDiffer
          <6>2. CASE n # Len(out)
            <7>1. n \in 1 .. Len(out) - 1 /\ n \in 1 .. Len(out) /\ n + 1 \in 1 .. Len(out)
              BY <5>1, <5>3, <6>2
            <7> QED BY <3>1, <5>1, <7>1 DEF RunsDiffer
          <6> QED BY <6>1, <6>2
        <5> QED BY <5>2, <5>3 DEF RunsDiffer
      <4> QED BY <1>2, <4>1, <4>2
    <3> QED BY <1>3, <2>2, <3>1, <3>2, <3>3, <3>4 DEF ZipInv
  <2> QED BY <2>3, <2>4
<1> QED BY <1>4, <1>5

\* The programs that are not the subject stand still.
LEMMA ZipSteps ==
  /\ MCInit => Zip!Init
  /\ [MCNext]_<<subject, pipes, chat, fork, search, zip>> => [Zip!Next]_zip
BY DEF MCInit, MCNext, zip

LEMMA ZipInductive == ZipArgs => (MCSpec => []ZipInv)
<1> SUFFICES ASSUME ZipArgs PROVE MCSpec => []ZipInv
  OBVIOUS
<1>1. MCInit => ZipInv
  BY ZipSteps, ZipInit
<1>2. ZipInv /\ [MCNext]_<<subject, pipes, chat, fork, search, zip>> => ZipInv'
  <2> SUFFICES ASSUME ZipInv, [Zip!Next]_zip PROVE ZipInv'
    BY ZipSteps
  <2>1. CASE Zip!Open
    BY <2>1, ZipOpen
  <2>2. CASE Zip!ReadChar
    BY <2>2, ZipReadChar
  <2>3. CASE Zip!Close
    BY <2>3, ZipClose
  <2>4. CASE UNCHANGED zip
    <3>1. ZipTypeOK' /\ RunInHand'
      BY <2>4 DEF ZipInv, ZipTypeOK, RunInHand, zip
    <3>2. (OneFile' <=> OneFile) /\ Coded' = Coded /\ FirstText' = FirstText
      BY <2>4 DEF OneFile, Coded, FirstText, zip, Decode, Run, Zip!Decode, Zip!Run
    <3>3. RunsDiffer => RunsDiffer'
      BY <2>4 DEF RunsDiffer, zip
    <3> QED BY <3>1, <3>2, <3>3 DEF ZipInv
  <2> QED BY <2>1, <2>2, <2>3, <2>4 DEF Zip!Next
<1> QED BY <1>1, <1>2, PTL DEF MCSpec

LEMMA ZipExact ==
  ASSUME ZipArgs, ZipInv
  PROVE  FirstFileExact
<1> SUFFICES ASSUME OneFile
             PROVE  /\ Zip!Unzipped = Zip!Read
                    /\ \A n \in 1 .. Len(out) - 1 : out[n].ch # out[n + 1].ch
  BY DEF FirstFileExact, Zip!FirstFileExact, OneFile
<1>1. /\ Coded = FirstText /\ RunsDiffer /\ fileno \in Nat /\ fileno # 0 /\ pos \in Int
      /\ token \in Tokens /\ out \in Seq(Tokens)
      /\ (fileno = 1 /\ pos > 0 => files[1] \in Seq(Char))
      /\ (fileno >= 2 => files[1] \in Seq(Char))
  BY DEF ZipInv, ZipTypeOK
<1>2. Zip!Unzipped = Coded
  BY <1>1, DecodeAppend DEF Zip!Unzipped, Coded, Decode
<1>3. Zip!Read = FirstText
  <2>1. CASE fileno = 1
    <3> DEFINE rest == IF pos > 0 THEN SubSeq(files[1], 1, pos) ELSE <<>>
    <3>1. Zip!Read = Zip!FlattenSeq(SubSeq(files, 1, 0)) \o rest
      BY <2>1 DEF Zip!Read
    <3>2. rest \in Seq(Symbol)
      <4>1. Coded \in Seq(Symbol) /\ FirstText = rest
        BY <1>1, <2>1, CodedType DEF FirstText
      <4> QED BY <1>1, <4>1
    <3>3. SubSeq(files, 1, 0) = <<>>
      BY SubSeqEmpty
    <3> HIDE DEF rest
    <3>4. <<>> \o rest = rest
      BY <3>2, ConcatEmptySeq
    <3> QED BY <2>1, <3>1, <3>3, <3>4, FlattenEmpty DEF FirstText, rest
  <2>2. CASE fileno = 2 /\ pos <= 0
    <3>1. Zip!Read = Zip!FlattenSeq(SubSeq(files, 1, 1)) \o <<>>
      <4>1. fileno - 1 = 1 /\ ~(pos > 0)
        BY <1>1, <2>2
      <4> QED BY <4>1, Zenon DEF Zip!Read
    <3>2. SubSeq(files, 1, 1) = Append(<<>>, files[1])
      <4>1. files[1] \in Seq(Char) /\ \A n \in 1 .. 1 : files[n] \in Seq(Char)
        BY <1>1, <2>2
      <4>2. /\ SubSeq(files, 1, 1) \in Seq(Seq(Char)) /\ Len(SubSeq(files, 1, 1)) = 1
            /\ SubSeq(files, 1, 1)[1] = files[1]
        BY <4>1, SubSeqProperties
      <4>3. /\ Append(<<>>, files[1]) \in Seq(Seq(Char)) /\ Len(Append(<<>>, files[1])) = 1
            /\ Append(<<>>, files[1])[1] = files[1]
        BY <4>1, EmptySeq, AppendProperties
      <4>4. \A a, b \in Seq(Seq(Char)) :
              Len(a) = 1 /\ Len(b) = 1 /\ a[1] = b[1] => a = b
        BY SeqEqual
      <4> QED BY <4>2, <4>3, <4>4, Zenon
    <3>3. Zip!FlattenSeq(Append(<<>>, files[1])) = Zip!FlattenSeq(<<>>) \o files[1]
      <4>1. <<>> \in Seq(Seq(Char)) /\ files[1] \in Seq(Char)
        BY <1>1, <2>2, EmptySeq
      <4> QED BY <4>1, FlattenAppend
    <3>4. <<>> \o files[1] = files[1] /\ files[1] \o <<>> = files[1]
      BY <1>1, <2>2, ConcatEmptySeq
    <3>5. FirstText = files[1]
      BY <2>2 DEF FirstText
    <3> HIDE DEF Zip!FlattenSeq
    <3> QED BY <3>1, <3>2, <3>3, <3>4, <3>5, FlattenEmpty, Zenon
  <2> QED BY <2>1, <2>2 DEF OneFile
<1> QED BY <1>1, <1>2, <1>3 DEF RunsDiffer

\* wzip: until the first character of a second file is read, what unzips from
\* the tokens is the text that was read, and no two tokens in a row have the
\* same character, for every alphabet, any length of the file and any lines.
THEOREM OneFileUnzips == ZipArgs => (MCSpec => []FirstFileExact)
<1> SUFFICES ASSUME ZipArgs PROVE MCSpec => []FirstFileExact
  OBVIOUS
<1>1. ZipInv => FirstFileExact
  BY ZipExact
<1> QED BY <1>1, ZipInductive, PTL

-----------------------------------------------------------------------------
(* process_api: the calls of the programs.                                 *)

ForkArgs ==
  /\ Programs \subseteq {"callingfork", "callingforkandwait", "callfork2", "callexec",
                         "redirection", "fkfile", "indexpath"}
  /\ PATHLEN \in Nat /\ MaxProc \in Nat

\* What the programs print.
Wording == {"hello world", "child", "parent", "rc", "initpid", "unreachable", "wc", "ls"}

\* The calls that fork nothing and open nothing, those that fork lists of such
\* calls, and those of indexpath(), which fork one another.
Basic == {Fork!print_any(lns) : lns \in SUBSET Wording}
           \cup {Fork!Exec(prog) : prog \in Wording} \cup {Fork!Wait}
Simple == {Fork!ForkOr(c, p, f) : c \in Seq(Basic), p \in Seq(Basic), f \in Seq(Basic)}
PathCall(n) == Fork!Fork(<<Fork!Exec("ls")>> \o Fork!indexpath[n - 1],
                         <<Fork!Wait, Fork!printf("parent")>> \o Fork!indexpath[n - 1])
Plain == Basic \cup Simple \cup {PathCall(n) : n \in 1 .. PATHLEN}

\* The recursive definition holds for the function it defines.
IndexpathUnfolds ==
  \A n \in 0 .. PATHLEN : Fork!indexpath[n] = IF n = 0 THEN <<>> ELSE <<PathCall(n)>>

LEMMA IndexpathExists == PATHLEN \in Nat => IndexpathUnfolds
<1> SUFFICES ASSUME PATHLEN \in Nat PROVE IndexpathUnfolds
  OBVIOUS
<1> DEFINE Body(h, n) ==
             IF n = 0 THEN <<>>
             ELSE <<Fork!Fork(<<Fork!Exec("ls")>> \o h[n - 1],
                              <<Fork!Wait, Fork!printf("parent")>> \o h[n - 1])>>
           Good(h) == h = [n \in 0 .. PATHLEN |-> Body(h, n)]
           Ok(d) == \E h : \A n \in 0 .. d : h[n] = Body(h, n)
           R == {d \in Nat : Ok(d)}
<1>0. \A g, h, n : (n # 0 => g[n - 1] = h[n - 1]) => Body(g, n) = Body(h, n)
  OBVIOUS
<1>1. 0 \in R
  <2> DEFINE h == [n \in 0 .. 0 |-> <<>>]
  <2>1. \A n \in 0 .. 0 : h[n] = Body(h, n)
    OBVIOUS
  <2>2. Ok(0)
    BY <2>1
  <2> HIDE DEF Ok
  <2> QED BY <2>2
<1>2. ASSUME NEW d \in Nat, d \in R PROVE d + 1 \in R
  <2>1. PICK h : \A n \in 0 .. d : h[n] = Body(h, n)
    BY <1>2
  <2> DEFINE g == [n \in 0 .. d + 1 |-> Body(h, n)]
  <2> HIDE DEF Body
  <2>2. \A n \in 0 .. d : g[n] = h[n]
    BY <2>1
  <2>3. ASSUME NEW n \in 0 .. d + 1 PROVE g[n] = Body(g, n)
    <3>1. g[n] = Body(h, n)
      OBVIOUS
    <3>2. n # 0 => g[n - 1] = h[n - 1]
      BY <2>2
    <3> HIDE DEF g
    <3> QED BY <1>0, <3>1, <3>2
  <2>4. Ok(d + 1)
    <3> HIDE DEF g
    <3> QED BY <2>3
  <2> HIDE DEF Ok
  <2> QED BY <2>4
<1>3. PATHLEN \in R
  <2> HIDE DEF R
  <2> QED BY <1>1, <1>2, NatSetInduction
<1>4. PICK h : \A n \in 0 .. PATHLEN : h[n] = Body(h, n)
  BY <1>3
<1> DEFINE g == [n \in 0 .. PATHLEN |-> h[n]]
<1>5. Good(g)
  <2> HIDE DEF Body
  <2>1. \A n \in 0 .. PATHLEN : n # 0 => g[n - 1] = h[n - 1]
    OBVIOUS
  <2>2. \A n \in 0 .. PATHLEN : h[n] = Body(g, n)
    <3> HIDE DEF g
    <3> QED BY <1>0, <1>4, <2>1
  <2> QED BY <2>2
<1>6. Good(Fork!indexpath)
  <2>1. Fork!indexpath = CHOOSE a : Good(a)
    BY Zenon DEF Fork!indexpath
  <2> HIDE DEF Good
  <2> QED BY <1>5, <2>1
<1>7. \A n \in 0 .. PATHLEN : Fork!indexpath[n] = Body(Fork!indexpath, n)
  <2> HIDE DEF Body
  <2> QED BY <1>6
<1> QED BY <1>7 DEF IndexpathUnfolds, PathCall

\* What each call is, and what it makes of the process and its child.
LEMMA PlainCalls ==
  ASSUME ForkArgs, NEW c \in Plain
  PROVE  /\ c.call # "open"
         /\ c.call = "print" => c.lines \subseteq Wording
         /\ c.call = "fork" => c.child \in Seq(Plain) /\ c.parent \in Seq(Plain) /\ c.failed \in Seq(Plain)
         /\ c.call = "exec" => <<Fork!printf(c.prog)>> \in Seq(Plain)
<1>1. /\ \A lns \in SUBSET Wording : Fork!print_any(lns) \in Plain
      /\ \A prog \in Wording : Fork!Exec(prog) \in Plain /\ Fork!printf(prog) \in Plain
      /\ Fork!Wait \in Plain /\ \A k \in Seq(Basic) : k \in Seq(Plain)
  <2>1. Basic \subseteq Plain
    BY DEF Plain
  <2>2. /\ \A lns \in SUBSET Wording : Fork!print_any(lns) \in Basic
        /\ \A prog \in Wording : Fork!Exec(prog) \in Basic /\ Fork!printf(prog) \in Basic
        /\ Fork!Wait \in Basic
    BY DEF Basic, Fork!printf
  <2>3. \A k \in Seq(Basic) : k \in Seq(Plain)
    BY <2>1, SeqMonotonic
  <2> QED BY <2>1, <2>2, <2>3
<1>2. CASE c \in Basic
  <2>1. ASSUME NEW prog \in Wording PROVE <<Fork!printf(prog)>> \in Seq(Plain)
    <3> DEFINE x == Fork!printf(prog)
    <3>1. x \in Plain
      BY <1>1
    <3> HIDE DEF x
    <3>2. <<x>> \in Seq(Plain)
      BY <3>1
    <3> QED BY <3>2 DEF x
  <2>2. CASE \E lns \in SUBSET Wording : c = [call |-> "print", lines |-> lns]
    BY <2>2
  <2>3. CASE \E prog \in Wording : c = [call |-> "exec", prog |-> prog]
    BY <2>1, <2>3
  <2>4. CASE c = [call |-> "wait"]
    BY <2>4
  <2> QED BY <1>2, <2>2, <2>3, <2>4 DEF Basic, Fork!print_any, Fork!Exec, Fork!Wait
<1>3. CASE c \in Simple
  <2>1. PICK k \in Seq(Basic), p \in Seq(Basic), f \in Seq(Basic) :
          c = [call |-> "fork", child |-> k, parent |-> p, failed |-> f]
    BY <1>3 DEF Simple, Fork!ForkOr
  <2> QED BY <1>1, <2>1
<1>4. CASE c \in {PathCall(n) : n \in 1 .. PATHLEN}
  <2>1. PICK n \in 1 .. PATHLEN : c = PathCall(n)
    BY <1>4
  <2> DEFINE rest == Fork!indexpath[n - 1]
             k == <<Fork!Exec("ls")>> \o rest
             p == <<Fork!Wait, Fork!printf("parent")>> \o rest
  <2>2. c = [call |-> "fork", child |-> k, parent |-> p, failed |-> <<>>]
    BY <2>1 DEF PathCall, Fork!Fork, Fork!ForkOr
  <2>3. rest \in Seq(Plain)
    <3>1. n - 1 \in 0 .. PATHLEN /\ PATHLEN \in Nat
      BY DEF ForkArgs
    <3>2. rest = IF n - 1 = 0 THEN <<>> ELSE <<PathCall(n - 1)>>
      BY <3>1, IndexpathExists DEF IndexpathUnfolds
    <3>3. n - 1 # 0 => PathCall(n - 1) \in Plain
      BY <3>1 DEF Plain
    <3> QED BY <3>2, <3>3
  <2>4. <<Fork!Exec("ls")>> \in Seq(Plain) /\ <<Fork!Wait, Fork!printf("parent")>> \in Seq(Plain)
    <3> DEFINE x == Fork!Exec("ls")  y == Fork!Wait  z == Fork!printf("parent")
    <3>0. "ls" \in Wording /\ "parent" \in Wording
      BY DEF Wording
    <3>1. x \in Plain /\ y \in Plain /\ z \in Plain
      BY <1>1, <3>0, Zenon
    <3> HIDE DEF x, y, z
    <3>2. <<x>> \in Seq(Plain) /\ <<y, z>> \in Seq(Plain)
      BY <3>1
    <3> QED BY <3>2 DEF x, y, z
  <2>5. k \in Seq(Plain) /\ p \in Seq(Plain) /\ <<>> \in Seq(Plain)
    <3> HIDE DEF rest
    <3> QED BY <2>3, <2>4, ConcatProperties, EmptySeq
  <2> HIDE DEF k, p
  <2> QED BY <2>2, <2>5
<1> QED BY <1>2, <1>3, <1>4 DEF Plain

\* The lists with an open() still to come, and no others, are not plain.
Redirecting == <<Fork!Open("output"), Fork!Exec("wc"), Fork!printf("unreachable")>>
Opening == {Fork!redirection, Fork!fkfile, Redirecting}

LEMMA PlainParts ==
  /\ <<>> \in Seq(Plain)
  /\ \A x \in Plain : <<x>> \in Seq(Plain)
  /\ \A x, y \in Plain : <<x, y>> \in Seq(Plain)
  /\ \A x, y, z \in Plain : <<x, y, z>> \in Seq(Plain)
  /\ Fork!Wait \in Basic /\ \A lns \in SUBSET Wording : Fork!print_any(lns) \in Basic
  /\ \A l \in Wording : Fork!printf(l) \in Basic /\ Fork!Exec(l) \in Basic
  /\ \A a \in Basic : a \in Plain
  /\ \A a, b, d \in Seq(Basic) : Fork!ForkOr(a, b, d) \in Plain
<1>1. /\ \A x \in Plain : <<x>> \in Seq(Plain)
      /\ \A x, y \in Plain : <<x, y>> \in Seq(Plain)
      /\ \A x, y, z \in Plain : <<x, y, z>> \in Seq(Plain)
  OBVIOUS
<1>2. /\ Fork!Wait \in Basic /\ \A lns \in SUBSET Wording : Fork!print_any(lns) \in Basic
      /\ \A l \in Wording : Fork!printf(l) \in Basic /\ Fork!Exec(l) \in Basic
  BY DEF Basic, Fork!printf
<1>3. \A a \in Basic : a \in Plain
  BY DEF Plain
<1>4. \A a, b, d \in Seq(Basic) : Fork!ForkOr(a, b, d) \in Plain
  BY DEF Plain, Simple
<1>5. <<>> \in Seq(Plain)
  BY EmptySeq
<1> QED BY <1>1, <1>2, <1>3, <1>4, <1>5

LEMMA Scripts ==
  ASSUME ForkArgs, NEW prog \in Programs
  PROVE  Fork!Script[prog] \in Seq(Plain) \cup Opening
<1> DEFINE msg(l) == Fork!printf(l)
<1>1. /\ \A x, y \in Basic : <<x>> \in Seq(Basic) /\ <<x, y>> \in Seq(Basic)
      /\ \A x, y, z \in Basic : <<x, y, z>> \in Seq(Basic)
      /\ <<>> \in Seq(Basic)
  OBVIOUS
<1>2. /\ msg("child") \in Basic /\ msg("parent") \in Basic /\ msg("hello world") \in Basic
      /\ msg("rc") \in Basic /\ msg("initpid") \in Basic /\ msg("unreachable") \in Basic
      /\ Fork!Exec("wc") \in Basic /\ Fork!Wait \in Basic
      /\ Fork!print_any({"child", "parent"}) \in Basic
  BY PlainParts DEF Wording
<1> HIDE DEF msg
<1>3. CASE prog = "callingfork"
  <2>1. Fork!callingfork \in Seq(Plain)
    <3> DEFINE x == Fork!ForkOr(<<msg("child")>>, <<msg("parent")>>, <<>>)
    <3>1. x \in Plain
      BY <1>1, <1>2, PlainParts
    <3>2. <<x>> \in Seq(Plain)
      BY <3>1, PlainParts
    <3> QED BY <3>2 DEF Fork!callingfork, Fork!Fork, msg
  <2> QED BY <1>3, <2>1 DEF Fork!Script
<1>4. CASE prog = "callingforkandwait"
  <2>1. Fork!callingforkandwait \in Seq(Plain)
    <3> DEFINE x == Fork!ForkOr(<<msg("child")>>, <<Fork!Wait, msg("parent")>>, <<>>)
    <3>1. x \in Plain /\ msg("hello world") \in Plain
      BY <1>1, <1>2, PlainParts
    <3>2. <<msg("hello world"), x>> \in Seq(Plain)
      BY <3>1, PlainParts
    <3> QED BY <3>2 DEF Fork!callingforkandwait, Fork!Fork, msg
  <2> QED BY <1>4, <2>1 DEF Fork!Script
<1>5. CASE prog = "callfork2"
  <2>1. Fork!callfork2 \in Seq(Plain)
    <3> DEFINE two == <<msg("rc"), msg("initpid")>>
               a == two \o <<msg("parent")>>
               b == two \o <<Fork!print_any({"child", "parent"})>>
               x == Fork!ForkOr(a, b, two)
    <3>1. /\ two \in Seq(Basic) /\ <<msg("parent")>> \in Seq(Basic)
          /\ <<Fork!print_any({"child", "parent"})>> \in Seq(Basic)
      BY <1>1, <1>2
    <3>2. a \in Seq(Basic) /\ b \in Seq(Basic)
      <4> HIDE DEF two
      <4> QED BY <3>1, ConcatProperties
    <3>3. x \in Plain
      <4> HIDE DEF two, a, b
      <4> QED BY <3>1, <3>2, PlainParts
    <3>4. <<x>> \in Seq(Plain)
      BY <3>3, PlainParts
    <3> QED BY <3>4 DEF Fork!callfork2, msg
  <2> QED BY <1>5, <2>1 DEF Fork!Script
<1>6. CASE prog = "callexec"
  <2>1. Fork!callexec \in Seq(Plain)
    <3> DEFINE x == Fork!ForkOr(<<msg("child"), Fork!Exec("wc"), msg("unreachable")>>,
                                <<Fork!Wait, msg("parent")>>, <<>>)
    <3>1. x \in Plain /\ msg("hello world") \in Plain
      BY <1>1, <1>2, PlainParts
    <3>2. <<msg("hello world"), x>> \in Seq(Plain)
      BY <3>1, PlainParts
    <3> QED BY <3>2 DEF Fork!callexec, Fork!Fork, msg
  <2> QED BY <1>6, <2>1 DEF Fork!Script
<1>7. CASE prog = "indexpath"
  <2>1. Fork!indexpath[PATHLEN] \in Seq(Plain)
    <3>1. Fork!indexpath[PATHLEN] = IF PATHLEN = 0 THEN <<>> ELSE <<PathCall(PATHLEN)>>
      BY IndexpathExists DEF IndexpathUnfolds, ForkArgs
    <3>2. PATHLEN # 0 => PathCall(PATHLEN) \in Plain
      BY DEF Plain, ForkArgs
    <3> QED BY <3>1, <3>2, PlainParts
  <2> QED BY <1>7, <2>1 DEF Fork!Script
<1>8. CASE prog \in {"redirection", "fkfile"}
  BY <1>8 DEF Fork!Script, Opening
<1> QED BY <1>3, <1>4, <1>5, <1>6, <1>7, <1>8 DEF ForkArgs

\* What is left of a list with an open() after its first call.
LEMMA OpeningParts ==
  ASSUME ForkArgs, NEW l \in Opening
  PROVE  /\ l # <<>>
         /\ \/ /\ Head(l).call = "open" /\ Head(l).file = "output" /\ Tail(l) \in Seq(Plain)
            \/ /\ Head(l).call = "fork" /\ Head(l).child \in Opening
               /\ Head(l).parent \in Seq(Plain) /\ Head(l).failed \in Seq(Plain)
<1>1. /\ Fork!Exec("wc") \in Basic /\ Fork!Exec("ls") \in Basic /\ Fork!printf("unreachable") \in Basic
      /\ Fork!Wait \in Basic
  BY PlainParts DEF Wording
<1>2. /\ <<Fork!Exec("wc"), Fork!printf("unreachable")>> \in Seq(Basic)
      /\ <<Fork!Exec("ls")>> \in Seq(Basic)
  <2> DEFINE x == Fork!Exec("wc")  y == Fork!printf("unreachable")  z == Fork!Exec("ls")
  <2>1. x \in Basic /\ y \in Basic /\ z \in Basic
    BY <1>1
  <2> HIDE DEF x, y, z
  <2>2. <<x, y>> \in Seq(Basic) /\ <<z>> \in Seq(Basic)
    BY <2>1
  <2> QED BY <2>2 DEF x, y, z
<1>3. CASE l = Fork!redirection
  <2> DEFINE w == <<Fork!Wait>>
  <2>1. l = <<[call |-> "fork", child |-> Redirecting, parent |-> w, failed |-> <<>>]>>
    BY <1>3 DEF Fork!redirection, Fork!Fork, Fork!ForkOr, Redirecting
  <2>2. Redirecting \in Opening /\ w \in Seq(Plain) /\ <<>> \in Seq(Plain)
    BY <1>1, PlainParts DEF Opening
  <2> HIDE DEF w
  <2>3. Head(l) = [call |-> "fork", child |-> Redirecting, parent |-> w, failed |-> <<>>]
    BY <2>1
  <2>4. /\ Head(l).call = "fork" /\ Head(l).child = Redirecting
        /\ Head(l).parent = w /\ Head(l).failed = <<>>
    BY <2>3
  <2>5. l # <<>>
    BY <2>1
  <2> QED BY <2>2, <2>4, <2>5, Zenon
<1>4. CASE l = Redirecting
  <2> DEFINE x == Fork!Exec("wc")  y == Fork!printf("unreachable")
  <2>1. l = <<[call |-> "open", file |-> "output"], x, y>>
    BY <1>4 DEF Redirecting, Fork!Open
  <2>2. <<x, y>> \in Seq(Plain)
    BY <1>1, PlainParts
  <2> HIDE DEF x, y
  <2>3. Tail(l) = <<x, y>> /\ l # <<>>
    BY <2>1
  <2>4. Head(l) = [call |-> "open", file |-> "output"]
    BY <2>1
  <2>5. Head(l).call = "open" /\ Head(l).file = "output"
    BY <2>4
  <2> QED BY <2>2, <2>3, <2>5, Zenon
<1>5. CASE l = Fork!fkfile
  <2> DEFINE x == Fork!ForkOr(<<Fork!Exec("wc"), Fork!printf("unreachable")>>, <<Fork!Exec("ls")>>, <<>>)
  <2>1. l = <<[call |-> "open", file |-> "output"], x>>
    BY <1>5 DEF Fork!fkfile, Fork!Open, Fork!Fork
  <2>2. <<x>> \in Seq(Plain)
    <3>1. x \in Plain
      BY <1>2, PlainParts, EmptySeq
    <3> QED BY <3>1, PlainParts
  <2> HIDE DEF x
  <2>3. Tail(l) = <<x>> /\ l # <<>>
    BY <2>1
  <2>4. Head(l) = [call |-> "open", file |-> "output"]
    BY <2>1
  <2>5. Head(l).call = "open" /\ Head(l).file = "output"
    BY <2>4
  <2> QED BY <2>2, <2>3, <2>5, Zenon
<1> QED BY <1>3, <1>4, <1>5 DEF Opening

-----------------------------------------------------------------------------
(* Descriptors, offsets and files.                                         *)

Procs == Fork!Proc
Streams == {"stdout", "output", "closed"}

\* What descriptor 1 may refer to after an open().
Opened == {"output", "closed"}

FilesTypeOK ==
  /\ todo \in [Procs -> Seq(Plain) \cup Opening]
  /\ state \in [Procs -> {"none", "running", "ended", "reaped"}]
  /\ buffer \in [Procs -> Seq(Wording)]
  /\ fd \in [Procs -> Streams \X Procs]
  /\ offset \in [Streams -> [Procs -> Nat]]
  /\ content \in [Streams -> Seq(Wording)]
  /\ written \in [Streams -> Nat]

\* p has an open() still to come.
Pending(p) == todo[p] \notin Seq(Plain)

\* One process at most has, and until then what it may open is nobody's and empty.
OneOpens ==
  /\ \A p, q \in Procs : Pending(p) /\ Pending(q) => p = q
  /\ (\E p \in Procs : Pending(p)) =>
       /\ \A q \in Procs : fd[q][1] = "stdout"
       /\ \A f \in Opened : content[f] = <<>> /\ written[f] = 0

\* All descriptors of a file share one opening of it, whose offset is the end
\* of the file.
SharedEnd ==
  /\ \A p, q \in Procs : fd[p][1] = fd[q][1] => fd[p][2] = fd[q][2]
  /\ \A p \in Procs : offset[fd[p][1]][fd[p][2]] = Len(content[fd[p][1]])

FilesInv == FilesTypeOK /\ OneOpens /\ SharedEnd /\ NothingOverwritten

LEMMA FilesInit == ForkArgs /\ Fork!Init => FilesInv
<1> SUFFICES ASSUME ForkArgs, Fork!Init PROVE FilesInv
  OBVIOUS
<1>1. /\ program \in Programs
      /\ todo = [p \in Procs |-> IF p = 1 THEN Fork!Script[program] ELSE <<>>]
      /\ state = [p \in Procs |-> IF p = 1 THEN "running" ELSE "none"]
      /\ buffer = [p \in Procs |-> <<>>]
      /\ fd = [p \in Procs |-> <<"stdout", 1>>]
      /\ offset = [f \in Streams |-> [p \in Procs |-> 0]]
      /\ content = [f \in Streams |-> <<>>]
      /\ written = [f \in Streams |-> 0]
  BY DEF Fork!Init, Fork!first, Fork!File, Procs, Streams
<1>2. /\ Fork!Script[program] \in Seq(Plain) \cup Opening /\ <<>> \in Seq(Plain)
      /\ <<>> \in Seq(Wording)
  BY <1>1, Scripts, EmptySeq
<1>3. \A p \in Procs : 1 \in Procs
  BY DEF Procs, Fork!Proc, ForkArgs
<1>4. FilesTypeOK
  BY <1>1, <1>2, <1>3 DEF FilesTypeOK, Streams
<1>5. OneOpens
  BY <1>1, <1>2 DEF OneOpens, Pending, Streams, Opened
<1>6. SharedEnd
  BY <1>1, <1>3 DEF SharedEnd, Streams
<1>7. NothingOverwritten
  BY <1>1 DEF NothingOverwritten, Fork!NothingOverwritten, Streams
<1> QED BY <1>4, <1>5, <1>6, <1>7 DEF FilesInv

\* The call a process is at.
LEMMA CallOf ==
  ASSUME ForkArgs, FilesTypeOK, NEW p \in Procs
  PROVE  /\ todo[p] = <<>> => Fork!Call(p).call = "exit"
         /\ todo[p] # <<>> => Fork!Call(p) = Head(todo[p])
         /\ ~Pending(p) /\ todo[p] # <<>> => Fork!Call(p) \in Plain /\ Tail(todo[p]) \in Seq(Plain)
         /\ Pending(p) => todo[p] \in Opening
<1>1. todo[p] = <<>> => Fork!Call(p).call = "exit"
  BY DEF Fork!Call
<1>2. todo[p] # <<>> => Fork!Call(p) = Head(todo[p])
  BY DEF Fork!Call
<1>3. todo[p] \in Seq(Plain) /\ todo[p] # <<>> => Head(todo[p]) \in Plain /\ Tail(todo[p]) \in Seq(Plain)
  BY HeadTailProperties
<1>4. todo[p] \in Seq(Plain) \/ todo[p] \in Opening
  BY DEF FilesTypeOK
<1> QED BY <1>1, <1>2, <1>3, <1>4 DEF Pending

\* A call that neither forks nor opens leaves its process without an open().
LEMMA OtherCall ==
  ASSUME ForkArgs, FilesTypeOK, NEW p \in Procs, NEW c, Fork!At(p, c),
         c \notin {"fork", "open", "exit"}
  PROVE  /\ ~Pending(p) /\ todo[p] # <<>> /\ Fork!Call(p) \in Plain /\ Fork!Call(p).call = c
         /\ Tail(todo[p]) \in Seq(Plain)
<1>1. Fork!Call(p).call = c
  BY DEF Fork!At
<1>2. todo[p] # <<>>
  BY <1>1, CallOf
<1>3. ~Pending(p)
  <2>1. Fork!Call(p) = Head(todo[p])
    BY <1>2, CallOf
  <2> SUFFICES ASSUME Pending(p) PROVE FALSE
    OBVIOUS
  <2>2. todo[p] \in Opening
    BY CallOf
  <2>3. Head(todo[p]).call = "open" \/ Head(todo[p]).call = "fork"
    BY <2>2, OpeningParts
  <2> QED BY <1>1, <2>1, <2>3
<1> QED BY <1>1, <1>2, <1>3, CallOf

\* A write() goes to the end of the file and moves the end there.
LEMMA Writes ==
  ASSUME ForkArgs, FilesInv, NEW p \in Procs, NEW lns \in Seq(Wording),
         Fork!WriteLines(p, lns), fd' = fd
  PROVE  /\ content' \in [Streams -> Seq(Wording)] /\ offset' \in [Streams -> [Procs -> Nat]]
         /\ written' \in [Streams -> Nat]
         /\ SharedEnd' /\ NothingOverwritten'
         /\ (\E q \in Procs : Pending(q)) =>
              \A g \in Opened : content'[g] = content[g] /\ written'[g] = written[g]
<1> DEFINE f == fd[p][1]
           k == fd[p][2]
           o == offset[f][k]
           text == content[f]
           end == IF o + Len(lns) > Len(text) THEN o + Len(lns) ELSE Len(text)
           new == [n \in 1 .. end |-> IF n > o /\ n <= o + Len(lns) THEN lns[n - o] ELSE text[n]]
<1>1. /\ f \in Streams /\ k \in Procs /\ o \in Nat /\ text \in Seq(Wording) /\ o = Len(text)
      /\ Len(lns) \in Nat /\ Len(text) = written[f]
  <2>1. f \in Streams /\ k \in Procs
    BY DEF FilesInv, FilesTypeOK
  <2>2. o \in Nat /\ text \in Seq(Wording) /\ o = Len(text)
    BY <2>1 DEF FilesInv, FilesTypeOK, SharedEnd
  <2>3. DOMAIN content = Streams
    BY DEF FilesInv, FilesTypeOK
  <2>4. Len(text) = written[f]
    BY <2>1, <2>3 DEF FilesInv, NothingOverwritten, Fork!NothingOverwritten
  <2> HIDE DEF f, k, o, text
  <2> QED BY <2>1, <2>2, <2>4, LenProperties
<1>2. /\ content' = [content EXCEPT ![f] = new]
      /\ offset' = [offset EXCEPT ![f][k] = o + Len(lns)]
      /\ written' = [written EXCEPT ![f] = @ + Len(lns)]
  BY DEF Fork!WriteLines
<1>3. new \in Seq(Wording) /\ Len(new) = o + Len(lns)
  <2> HIDE DEF f, k, o, text
  <2>1. end = o + Len(lns) /\ end \in Nat
    BY <1>1
  <2>2. ASSUME NEW n \in 1 .. end
        PROVE  (IF n > o /\ n <= o + Len(lns) THEN lns[n - o] ELSE text[n]) \in Wording
    <3>1. CASE n > o
      <4>1. n - o \in 1 .. Len(lns)
        BY <1>1, <2>1, <3>1
      <4> QED BY <1>1, <2>1, <3>1, <4>1, ElementOfSeq
    <3>2. CASE ~(n > o)
      <4>1. n \in 1 .. Len(text)
        BY <1>1, <2>1, <3>2
      <4> QED BY <1>1, <3>2, <4>1, ElementOfSeq
    <3> QED BY <3>1, <3>2
  <2> HIDE DEF end
  <2>3. new \in [1 .. end -> Wording]
    BY <2>2
  <2> HIDE DEF new
  <2> QED BY <2>1, <2>3
<1> HIDE DEF new, end
<1>4. /\ content' \in [Streams -> Seq(Wording)] /\ offset' \in [Streams -> [Procs -> Nat]]
      /\ written' \in [Streams -> Nat]
  <2> HIDE DEF f, k, o, text
  <2>1. content \in [Streams -> Seq(Wording)] /\ offset \in [Streams -> [Procs -> Nat]] /\ written \in [Streams -> Nat]
    BY DEF FilesInv, FilesTypeOK
  <2>2. o + Len(lns) \in Nat /\ written[f] + Len(lns) \in Nat
    BY <1>1, <2>1
  <2> QED BY <1>1, <1>2, <1>3, <2>1, <2>2
<1>5. SharedEnd'
  <2>1. \A q \in Procs : fd[q] \in Streams \X Procs
    BY DEF FilesInv, FilesTypeOK
  <2>2. ASSUME NEW q \in Procs
        PROVE  offset'[fd[q][1]][fd[q][2]] = Len(content'[fd[q][1]])
    <3>1. CASE fd[q][1] = f
      <4>1. fd[q][2] = k
        BY <3>1 DEF FilesInv, SharedEnd
      <4>2. offset'[f][k] = o + Len(lns) /\ content'[f] = new
        <5> HIDE DEF f, k, o, text
        <5> QED BY <1>1, <1>2 DEF FilesInv, FilesTypeOK
      <4> QED BY <1>3, <3>1, <4>1, <4>2
    <3>2. CASE fd[q][1] # f
      <4> DEFINE g == fd[q][1]  j == fd[q][2]
      <4>1. offset[g][j] = Len(content[g]) /\ g \in Streams
        BY <2>1 DEF FilesInv, SharedEnd
      <4>2. offset'[g] = offset[g] /\ content'[g] = content[g]
        <5> HIDE DEF f, k, o, text
        <5> QED BY <1>2, <3>2, <4>1 DEF FilesInv, FilesTypeOK
      <4> QED BY <4>1, <4>2
    <3> QED BY <3>1, <3>2
  <2>3. \A q, r \in Procs : fd[q][1] = fd[r][1] => fd[q][2] = fd[r][2]
    BY DEF FilesInv, SharedEnd
  <2> QED BY <2>2, <2>3 DEF SharedEnd
<1>6. NothingOverwritten'
  <2> HIDE DEF f, k, o, text
  <2>1. DOMAIN content' = Streams /\ DOMAIN content = Streams
    BY <1>4 DEF FilesInv, FilesTypeOK
  <2>2. ASSUME NEW g \in Streams PROVE Len(content'[g]) = written'[g]
    <3>1. CASE g = f
      BY <1>1, <1>2, <1>3, <3>1 DEF FilesInv, FilesTypeOK
    <3>2. CASE g # f
      BY <1>2, <2>1, <3>2 DEF FilesInv, FilesTypeOK, NothingOverwritten, Fork!NothingOverwritten
    <3> QED BY <3>1, <3>2
  <2> QED BY <2>1, <2>2 DEF NothingOverwritten, Fork!NothingOverwritten
<1>7. ASSUME NEW q \in Procs, Pending(q)
      PROVE  \A g \in Opened : content'[g] = content[g] /\ written'[g] = written[g]
  <2>1. f = "stdout"
    BY <1>7 DEF FilesInv, OneOpens
  <2> HIDE DEF f, k, o, text
  <2> QED BY <1>2, <2>1 DEF FilesInv, FilesTypeOK, Streams, Opened
<1> QED BY <1>4, <1>5, <1>6, <1>7

\* A call after which nobody has an open() to come who had none.
LEMMA StillOneOpens ==
  ASSUME OneOpens, fd' = fd, \A q \in Procs : Pending(q)' => Pending(q),
         (\E q \in Procs : Pending(q)) =>
           \A g \in Opened : content'[g] = content[g] /\ written'[g] = written[g]
  PROVE  OneOpens'
BY DEF OneOpens, Procs, Fork!Proc

LEMMA Standstill ==
  ASSUME SharedEnd, NothingOverwritten, UNCHANGED <<fd, offset, content, written>>
  PROVE  SharedEnd' /\ NothingOverwritten'
BY DEF SharedEnd, NothingOverwritten, Fork!NothingOverwritten, Procs, Fork!Proc

\* The process has no open() to come after the step, and the others have as before.
LEMMA OthersPend ==
  ASSUME FilesTypeOK, NEW p \in Procs, NEW l \in Seq(Plain), todo' = [todo EXCEPT ![p] = l]
  PROVE  /\ todo' \in [Procs -> Seq(Plain) \cup Opening]
         /\ \A q \in Procs : Pending(q)' => Pending(q)
<1>1. todo \in [Procs -> Seq(Plain) \cup Opening]
  BY DEF FilesTypeOK
<1> QED BY <1>1 DEF Pending

LEMMA PrintfKeeps ==
  ASSUME ForkArgs, FilesInv, NEW p \in Procs, Fork!Printf(p)
  PROVE  FilesInv'
<1>1. /\ Fork!Call(p) \in Plain /\ Fork!Call(p).call = "print" /\ Tail(todo[p]) \in Seq(Plain)
  BY OtherCall DEF Fork!Printf, FilesInv
<1>2. todo' = [todo EXCEPT ![p] = Tail(todo[p])] /\ state' = state /\ fd' = fd
  BY DEF Fork!Printf, Fork!Return
<1>3. Fork!Call(p).lines \subseteq Wording
  BY <1>1, PlainCalls
<1>4. PICK line \in Wording :
        IF tty /\ fd[p][1] = "stdout"
        THEN Fork!WriteLines(p, <<line>>) /\ buffer' = buffer
        ELSE /\ buffer' = [buffer EXCEPT ![p] = Append(@, line)]
             /\ offset' = offset /\ content' = content /\ written' = written
  BY <1>3 DEF Fork!Printf
<1>5. /\ todo' \in [Procs -> Seq(Plain) \cup Opening]
      /\ \A q \in Procs : Pending(q)' => Pending(q)
  BY <1>1, <1>2, OthersPend DEF FilesInv
<1>6. CASE Fork!WriteLines(p, <<line>>) /\ buffer' = buffer
  <2>1. <<line>> \in Seq(Wording)
    OBVIOUS
  <2>2. /\ content' \in [Streams -> Seq(Wording)] /\ offset' \in [Streams -> [Procs -> Nat]]
        /\ written' \in [Streams -> Nat] /\ SharedEnd' /\ NothingOverwritten'
        /\ (\E q \in Procs : Pending(q)) =>
             \A g \in Opened : content'[g] = content[g] /\ written'[g] = written[g]
    BY <1>2, <1>6, <2>1, Writes
  <2>3. OneOpens'
    BY <1>2, <1>5, <2>2, StillOneOpens DEF FilesInv
  <2> QED BY <1>2, <1>5, <1>6, <2>2, <2>3 DEF FilesInv, FilesTypeOK
<1>7. CASE /\ buffer' = [buffer EXCEPT ![p] = Append(@, line)]
           /\ offset' = offset /\ content' = content /\ written' = written
  <2>1. buffer' \in [Procs -> Seq(Wording)]
    BY <1>7, AppendProperties DEF FilesInv, FilesTypeOK
  <2>2. OneOpens' /\ SharedEnd' /\ NothingOverwritten'
    BY <1>2, <1>5, <1>7, StillOneOpens, Standstill DEF FilesInv
  <2> QED BY <1>2, <1>5, <1>7, <2>1, <2>2 DEF FilesInv, FilesTypeOK
<1> QED BY <1>4, <1>6, <1>7

\* The only open() there is comes before anything is in the file.
LEMMA RedirectKeeps ==
  ASSUME ForkArgs, FilesInv, NEW p \in Procs, Fork!Redirect(p)
  PROVE  FilesInv'
<1>1. Fork!Call(p).call = "open" /\ todo' = [todo EXCEPT ![p] = Tail(todo[p])]
  BY DEF Fork!Redirect, Fork!At, Fork!Return
<1>2. todo[p] # <<>>
  BY <1>1, CallOf DEF FilesInv
<1>3. Pending(p) /\ todo[p] \in Opening
  <2>1. ~Pending(p) => Fork!Call(p) \in Plain
    BY <1>2, CallOf DEF FilesInv
  <2>2. Pending(p)
    BY <1>1, <2>1, PlainCalls
  <2> QED BY <2>2, CallOf DEF FilesInv
<1>4. Fork!Call(p).file = "output" /\ Tail(todo[p]) \in Seq(Plain)
  <2>1. Fork!Call(p) = Head(todo[p])
    BY <1>2, CallOf DEF FilesInv
  <2> QED BY <1>1, <1>3, <2>1, OpeningParts
<1>5. PICK f \in Opened :
        /\ fd' = [fd EXCEPT ![p] = <<f, p>>]
        /\ offset' = [offset EXCEPT ![f][p] = 0]
        /\ content' = [content EXCEPT ![f] = <<>>]
        /\ state' = state /\ buffer' = buffer /\ written' = written
  BY <1>4 DEF Fork!Redirect, Opened
<1>6. /\ \A q \in Procs : fd[q][1] = "stdout"
      /\ \A g \in Opened : content[g] = <<>> /\ written[g] = 0
      /\ \A q \in Procs : Pending(q) => q = p
  BY <1>3 DEF FilesInv, OneOpens
<1>7. /\ todo' \in [Procs -> Seq(Plain) \cup Opening]
      /\ \A q \in Procs : Pending(q)' => Pending(q)
  BY <1>1, <1>4, OthersPend DEF FilesInv
<1>8. \A q \in Procs : ~Pending(q)'
  <2>1. todo'[p] \in Seq(Plain)
    BY <1>1, <1>4 DEF FilesInv, FilesTypeOK
  <2> QED BY <1>6, <1>7, <2>1 DEF Pending
<1>9. content' = content
  BY <1>5, <1>6 DEF FilesInv, FilesTypeOK
<1>10. f \in Streams /\ f # "stdout"
  BY <1>5 DEF Opened, Streams
<1>11. FilesTypeOK'
  <2>1. /\ fd' \in [Procs -> Streams \X Procs] /\ offset' \in [Streams -> [Procs -> Nat]]
    BY <1>5, <1>10 DEF FilesInv, FilesTypeOK
  <2> QED BY <1>5, <1>7, <1>9, <2>1 DEF FilesInv, FilesTypeOK
<1>12. OneOpens'
  BY <1>8 DEF OneOpens, Procs, Fork!Proc
<1>13. SharedEnd'
  <2>1. fd'[p] = <<f, p>> /\ \A q \in Procs \ {p} : fd'[q] = fd[q] /\ fd'[q][1] = "stdout"
    BY <1>5, <1>6 DEF FilesInv, FilesTypeOK
  <2>2. /\ offset'[f][p] = 0 /\ offset'["stdout"] = offset["stdout"]
        /\ Len(content[f]) = 0
    BY <1>5, <1>6, <1>10 DEF FilesInv, FilesTypeOK, Streams
  <2>3. \A q, r \in Procs : fd'[q][1] = fd'[r][1] => fd'[q][2] = fd'[r][2]
    BY <1>10, <2>1 DEF FilesInv, SharedEnd
  <2>4. ASSUME NEW q \in Procs PROVE offset'[fd'[q][1]][fd'[q][2]] = Len(content'[fd'[q][1]])
    <3>1. CASE q = p
      BY <1>9, <2>1, <2>2, <3>1
    <3>2. CASE q # p
      <4>1. offset[fd[q][1]][fd[q][2]] = Len(content[fd[q][1]])
        BY DEF FilesInv, SharedEnd
      <4> QED BY <1>9, <2>1, <2>2, <3>2, <4>1
    <3> QED BY <3>1, <3>2
  <2> QED BY <2>3, <2>4 DEF SharedEnd, Procs, Fork!Proc
<1>14. NothingOverwritten'
  BY <1>5, <1>9 DEF FilesInv, NothingOverwritten, Fork!NothingOverwritten
<1> QED BY <1>11, <1>12, <1>13, <1>14 DEF FilesInv

\* A child has its parent's descriptor, and takes over the open() to come.
LEMMA ForkKeeps ==
  ASSUME ForkArgs, FilesInv, NEW p \in Procs, Fork!ForkChild(p)
  PROVE  FilesInv'
<1>1. Fork!Call(p).call = "fork" /\ state[p] = "running"
  BY DEF Fork!ForkChild, Fork!At
<1>2. PICK c \in Procs :
        /\ state[c] = "none"
        /\ state' = [state EXCEPT ![c] = "running"]
        /\ buffer' = [buffer EXCEPT ![c] = buffer[p]]
        /\ fd' = [fd EXCEPT ![c] = fd[p]]
        /\ todo' = [todo EXCEPT ![c] = Fork!Call(p).child, ![p] = Fork!Call(p).parent]
        /\ offset' = offset /\ content' = content /\ written' = written
  BY DEF Fork!ForkChild, Fork!Inherited, Procs
<1>3. todo[p] # <<>>
  BY <1>1, CallOf DEF FilesInv
<1>4. /\ Fork!Call(p).parent \in Seq(Plain)
      /\ Fork!Call(p).child \in Seq(Plain) \cup Opening
      /\ ~Pending(p) => Fork!Call(p).child \in Seq(Plain)
  <2>1. Fork!Call(p) = Head(todo[p])
    BY <1>3, CallOf DEF FilesInv
  <2>2. CASE Pending(p)
    <3>1. todo[p] \in Opening
      BY <2>2, CallOf DEF FilesInv
    <3> QED BY <1>1, <2>1, <2>2, <3>1, OpeningParts
  <2>3. CASE ~Pending(p)
    <3>1. Fork!Call(p) \in Plain
      BY <1>3, <2>3, CallOf DEF FilesInv
    <3> QED BY <1>1, <2>3, <3>1, PlainCalls
  <2> QED BY <2>2, <2>3
<1>5. p # c
  BY <1>1, <1>2
<1>6. /\ todo' \in [Procs -> Seq(Plain) \cup Opening]
      /\ todo'[c] = Fork!Call(p).child /\ todo'[p] \in Seq(Plain)
      /\ \A q \in Procs \ {p, c} : todo'[q] = todo[q]
  BY <1>2, <1>4, <1>5 DEF FilesInv, FilesTypeOK
<1>7. /\ Pending(c)' => Pending(p)
      /\ ~Pending(p)' /\ \A q \in Procs \ {p, c} : Pending(q)' <=> Pending(q)
  BY <1>4, <1>6 DEF Pending
<1>8. FilesTypeOK'
  BY <1>2, <1>6 DEF FilesInv, FilesTypeOK
<1>9. \A q \in Procs : fd'[q] = fd[IF q = c THEN p ELSE q]
  BY <1>2 DEF FilesInv, FilesTypeOK
<1>10. OneOpens'
  <2>1. \A q, r \in Procs : Pending(q)' /\ Pending(r)' => q = r
    <3> SUFFICES ASSUME NEW q \in Procs, NEW r \in Procs, Pending(q)', Pending(r)' PROVE q = r
      OBVIOUS
    <3>1. q # p /\ r # p
      BY <1>7
    <3>2. \A x, y \in Procs : Pending(x) /\ Pending(y) => x = y
      BY DEF FilesInv, OneOpens
    <3>3. CASE q = c /\ r # c
      <4>1. Pending(p) /\ Pending(r)
        BY <1>7, <3>1, <3>3
      <4> QED BY <3>1, <3>2, <4>1
    <3>4. CASE q # c /\ r = c
      <4>1. Pending(p) /\ Pending(q)
        BY <1>7, <3>1, <3>4
      <4> QED BY <3>1, <3>2, <4>1
    <3>5. CASE q # c /\ r # c
      <4>1. Pending(q) /\ Pending(r)
        BY <1>7, <3>1, <3>5
      <4> QED BY <3>2, <4>1
    <3> QED BY <3>3, <3>4, <3>5
  <2>2. ASSUME NEW q \in Procs, Pending(q)'
        PROVE  /\ \A r \in Procs : fd'[r][1] = "stdout"
               /\ \A f \in Opened : content'[f] = <<>> /\ written'[f] = 0
    <3>1. PICK x \in Procs : Pending(x)
      BY <1>7, <2>2
    <3>2. /\ \A r \in Procs : fd[r][1] = "stdout"
          /\ \A f \in Opened : content[f] = <<>> /\ written[f] = 0
      BY <3>1 DEF FilesInv, OneOpens
    <3> QED BY <1>2, <1>9, <3>2
  <2> QED BY <2>1, <2>2 DEF OneOpens, Procs, Fork!Proc
<1>11. SharedEnd'
  <2>1. /\ \A q, r \in Procs : fd[q][1] = fd[r][1] => fd[q][2] = fd[r][2]
        /\ \A q \in Procs : offset[fd[q][1]][fd[q][2]] = Len(content[fd[q][1]])
    BY DEF FilesInv, SharedEnd
  <2>2. \A q \in Procs : \E r \in Procs : fd'[q] = fd[r]
    BY <1>9
  <2>3. ASSUME NEW q \in Procs, NEW r \in Procs, fd'[q][1] = fd'[r][1]
        PROVE  fd'[q][2] = fd'[r][2]
    <3>1. PICK x \in Procs, y \in Procs : fd'[q] = fd[x] /\ fd'[r] = fd[y]
      BY <2>2
    <3>2. fd[x][1] = fd[y][1]
      BY <2>3, <3>1
    <3> QED BY <2>1, <3>1, <3>2
  <2>4. ASSUME NEW q \in Procs PROVE offset'[fd'[q][1]][fd'[q][2]] = Len(content'[fd'[q][1]])
    <3>1. PICK x \in Procs : fd'[q] = fd[x]
      BY <2>2
    <3> QED BY <1>2, <2>1, <3>1
  <2> QED BY <2>3, <2>4 DEF SharedEnd, Procs, Fork!Proc
<1>12. NothingOverwritten'
  BY <1>2 DEF FilesInv, NothingOverwritten, Fork!NothingOverwritten
<1> QED BY <1>8, <1>10, <1>11, <1>12 DEF FilesInv

LEMMA ForkFailsKeeps ==
  ASSUME ForkArgs, FilesInv, NEW p \in Procs, Fork!ForkFails(p)
  PROVE  FilesInv'
<1>1. /\ Fork!Call(p).call = "fork" /\ todo' = [todo EXCEPT ![p] = Fork!Call(p).failed]
      /\ UNCHANGED <<state, buffer, fd, offset, content, written>>
  BY DEF Fork!ForkFails, Fork!At
<1>2. todo[p] # <<>>
  BY <1>1, CallOf DEF FilesInv
<1>3. Fork!Call(p).failed \in Seq(Plain)
  <2>1. Fork!Call(p) = Head(todo[p])
    BY <1>2, CallOf DEF FilesInv
  <2>2. CASE Pending(p)
    <3>1. todo[p] \in Opening
      BY <2>2, CallOf DEF FilesInv
    <3> QED BY <1>1, <2>1, <3>1, OpeningParts
  <2>3. CASE ~Pending(p)
    <3>1. Fork!Call(p) \in Plain
      BY <1>2, <2>3, CallOf DEF FilesInv
    <3> QED BY <1>1, <3>1, PlainCalls
  <2> QED BY <2>2, <2>3
<1>4. /\ todo' \in [Procs -> Seq(Plain) \cup Opening]
      /\ \A q \in Procs : Pending(q)' => Pending(q)
  BY <1>1, <1>3, OthersPend DEF FilesInv
<1>5. OneOpens' /\ SharedEnd' /\ NothingOverwritten'
  BY <1>1, <1>4, StillOneOpens, Standstill DEF FilesInv
<1> QED BY <1>1, <1>4, <1>5 DEF FilesInv, FilesTypeOK

LEMMA ExecKeeps ==
  ASSUME ForkArgs, FilesInv, NEW p \in Procs, Fork!ExecProgram(p)
  PROVE  FilesInv'
<1>1. /\ Fork!Call(p) \in Plain /\ Fork!Call(p).call = "exec"
  BY OtherCall DEF Fork!ExecProgram, FilesInv
<1>2. /\ todo' = [todo EXCEPT ![p] = <<Fork!printf(Fork!Call(p).prog)>>]
      /\ buffer' = [buffer EXCEPT ![p] = <<>>]
      /\ UNCHANGED <<state, fd, offset, content, written>>
  BY DEF Fork!ExecProgram
<1>3. <<Fork!printf(Fork!Call(p).prog)>> \in Seq(Plain)
  BY <1>1, PlainCalls
<1>4. /\ todo' \in [Procs -> Seq(Plain) \cup Opening]
      /\ \A q \in Procs : Pending(q)' => Pending(q)
  BY <1>2, <1>3, OthersPend DEF FilesInv
<1>5. OneOpens' /\ SharedEnd' /\ NothingOverwritten'
  BY <1>2, <1>4, StillOneOpens, Standstill DEF FilesInv
<1>6. buffer' \in [Procs -> Seq(Wording)]
  BY <1>2, EmptySeq DEF FilesInv, FilesTypeOK
<1> QED BY <1>2, <1>4, <1>5, <1>6 DEF FilesInv, FilesTypeOK

\* An exec that fails, and a wait that returns.
LEMMA ReturnKeeps ==
  ASSUME ForkArgs, FilesInv, NEW p \in Procs, Fork!ExecFails(p) \/ Fork!WaitChild(p)
  PROVE  FilesInv'
<1>1. Tail(todo[p]) \in Seq(Plain)
  BY OtherCall DEF Fork!ExecFails, Fork!WaitChild, FilesInv
<1>2. /\ todo' = [todo EXCEPT ![p] = Tail(todo[p])]
      /\ UNCHANGED <<buffer, fd, offset, content, written>>
  BY DEF Fork!ExecFails, Fork!WaitChild, Fork!Return
<1>3. state' \in [Procs -> {"none", "running", "ended", "reaped"}]
  <2>1. state' = state \/ \E c \in Procs : state' = [state EXCEPT ![c] = "reaped"]
    BY DEF Fork!ExecFails, Fork!WaitChild, Fork!Children, Procs
  <2> QED BY <2>1 DEF FilesInv, FilesTypeOK
<1>4. /\ todo' \in [Procs -> Seq(Plain) \cup Opening]
      /\ \A q \in Procs : Pending(q)' => Pending(q)
  BY <1>1, <1>2, OthersPend DEF FilesInv
<1>5. OneOpens' /\ SharedEnd' /\ NothingOverwritten'
  BY <1>2, <1>4, StillOneOpens, Standstill DEF FilesInv
<1> QED BY <1>2, <1>3, <1>4, <1>5 DEF FilesInv, FilesTypeOK

LEMMA ExitKeeps ==
  ASSUME ForkArgs, FilesInv, NEW p \in Procs, Fork!Exit(p)
  PROVE  FilesInv'
<1>1. /\ Fork!WriteLines(p, buffer[p]) /\ state' = [state EXCEPT ![p] = "ended"]
      /\ todo' = todo /\ buffer' = buffer /\ fd' = fd
  BY DEF Fork!Exit
<1>2. buffer[p] \in Seq(Wording)
  BY DEF FilesInv, FilesTypeOK
<1>3. /\ content' \in [Streams -> Seq(Wording)] /\ offset' \in [Streams -> [Procs -> Nat]]
      /\ written' \in [Streams -> Nat] /\ SharedEnd' /\ NothingOverwritten'
      /\ (\E q \in Procs : Pending(q)) =>
           \A g \in Opened : content'[g] = content[g] /\ written'[g] = written[g]
  BY <1>1, <1>2, Writes
<1>4. \A q \in Procs : Pending(q)' => Pending(q)
  BY <1>1 DEF Pending
<1>5. OneOpens'
  BY <1>1, <1>3, <1>4, StillOneOpens DEF FilesInv
<1> QED BY <1>1, <1>3, <1>5 DEF FilesInv, FilesTypeOK

LEMMA ForkSteps ==
  /\ MCInit => Fork!Init
  /\ [MCNext]_<<subject, pipes, chat, fork, search, zip>> => [Fork!Next]_fork
BY DEF MCInit, MCNext, fork

LEMMA FilesInductive == ForkArgs => (MCSpec => []FilesInv)
<1> SUFFICES ASSUME ForkArgs PROVE MCSpec => []FilesInv
  OBVIOUS
<1>1. MCInit => FilesInv
  BY ForkSteps, FilesInit
<1>2. FilesInv /\ [MCNext]_<<subject, pipes, chat, fork, search, zip>> => FilesInv'
  <2> SUFFICES ASSUME FilesInv, [Fork!Next]_fork PROVE FilesInv'
    BY ForkSteps
  <2>1. ASSUME NEW p \in Procs,
               \/ Fork!Printf(p) \/ Fork!Redirect(p) \/ Fork!ForkChild(p) \/ Fork!ForkFails(p)
               \/ Fork!ExecProgram(p) \/ Fork!ExecFails(p) \/ Fork!WaitChild(p) \/ Fork!Exit(p)
        PROVE  FilesInv'
    BY <2>1, PrintfKeeps, RedirectKeeps, ForkKeeps, ForkFailsKeeps, ExecKeeps, ReturnKeeps, ExitKeeps
  <2>2. CASE UNCHANGED fork
    <3>1. FilesTypeOK'
      BY <2>2 DEF fork, FilesInv, FilesTypeOK
    <3>2. OneOpens' /\ SharedEnd' /\ NothingOverwritten'
      <4>1. /\ UNCHANGED <<fd, offset, content, written>>
            /\ \A q \in Procs : Pending(q)' => Pending(q)
        BY <2>2 DEF fork, Pending
      <4> QED BY <4>1, StillOneOpens, Standstill DEF FilesInv
    <3> QED BY <3>1, <3>2 DEF FilesInv
  <2> QED BY <2>1, <2>2 DEF Fork!Next, Procs
<1> QED BY <1>1, <1>2, PTL DEF MCSpec

\* process_api: no line a process writes to a file is written over by another
\* process, in all the programs and every interleaving, for any number of
\* directories in indexpath() and any bound on the processes.
THEOREM LinesSurvive == ForkArgs => (MCSpec => []NothingOverwritten)
<1> SUFFICES ASSUME ForkArgs PROVE MCSpec => []NothingOverwritten
  OBVIOUS
<1>1. FilesInv => NothingOverwritten
  BY DEF FilesInv
<1> QED BY <1>1, FilesInductive, PTL

-----------------------------------------------------------------------------
(* process_api: the two programs that wait for their child.  The child goes *)
(* through the stages of Progress, each what is left to do with the lines   *)
(* that process has printed: on a terminal they are on stdout, otherwise in *)
(* its buffer until it ends.                                                *)

\* The child is the second process.
WaitArgs == ForkArgs /\ MaxProc >= 2

WaitPrograms == {"callingforkandwait", "callexec"}

unreachable == Fork!printf("unreachable")
ChildTodo ==
  IF program = "callingforkandwait"
  THEN <<Fork!printf("child")>>
  ELSE <<Fork!printf("child"), Fork!Exec("wc"), unreachable>>
ParentTodo == <<Fork!Wait, Fork!printf("parent")>>
ForkCall == Fork!Fork(ChildTodo, ParentTodo)

greeting == <<"hello world">>
greeted == <<"hello world", "child">>
Shown == IF tty THEN greeting ELSE <<>>
Kept  == IF tty THEN <<>> ELSE greeting

Progress ==
  {<<ChildTodo, greeting>>}
    \cup IF program = "callingforkandwait"
         THEN {<< <<>>, greeted>>}
         ELSE {<< <<Fork!Exec("wc"), unreachable>>, greeted>>, << <<unreachable>>, greeted>>,
               << <<>>, <<"hello world", "child", "unreachable">> >>,
               << <<Fork!printf("wc")>>, IF tty THEN greeted ELSE <<>> >>,
               << <<>>, IF tty THEN <<"hello world", "child", "wc">> ELSE <<"wc">> >>}

stdout == content["stdout"]

\* The parent before the fork, or after one that failed.
Alone ==
  /\ state[2] = "none"
  /\ \/ /\ state[1] = "running" /\ todo[1] = <<Fork!printf("hello world"), ForkCall>>
        /\ stdout = <<>> /\ buffer[1] = <<>>
     \/ /\ state[1] = "running" /\ todo[1] \in {<<ForkCall>>, <<>>}
        /\ stdout = Shown /\ buffer[1] = Kept
     \/ state[1] = "ended" /\ stdout = greeting

\* The child has still todo[2] to do and has printed s.
ChildAt(s) ==
  /\ <<todo[2], s>> \in Progress
  /\ \/ /\ state[2] = "running"
        /\ IF tty THEN stdout = s /\ buffer[2] = <<>> ELSE stdout = <<>> /\ buffer[2] = s
     \/ state[2] = "ended" /\ todo[2] = <<>> /\ stdout = s

\* The parent waits while the child makes its progress.
WithChild ==
  /\ state[1] = "running" /\ todo[1] = ParentTodo /\ buffer[1] = Kept
  /\ \E s \in Seq(Wording) : ChildAt(s)

\* The parent goes on after the child, which has printed s.
ParentAt(s) ==
  /\ << <<>>, s>> \in Progress
  /\ \/ /\ state[1] = "running" /\ todo[1] = <<Fork!printf("parent")>>
        /\ stdout = s /\ buffer[1] = Kept
     \/ /\ state[1] = "running" /\ todo[1] = <<>>
        /\ IF tty THEN stdout = Append(s, "parent") /\ buffer[1] = <<>>
                  ELSE stdout = s /\ buffer[1] = <<"hello world", "parent">>
     \/ /\ state[1] = "ended"
        /\ stdout = IF tty THEN Append(s, "parent") ELSE s \o <<"hello world", "parent">>

\* The child has ended before the parent goes on.
AfterChild == state[2] = "reaped" /\ \E s \in Seq(Wording) : ParentAt(s)

\* Only the first two processes are used, and nobody redirects stdout.
TwoProcesses ==
  /\ \A p \in Procs : fd[p][1] = "stdout"
  /\ \A p \in Procs \ {1, 2} : state[p] = "none"
  /\ parent \in [Procs -> Nat] /\ \A p \in Procs \ {2} : parent[p] = 0
  /\ state[2] # "none" => parent[2] = 1

WaitInv == program \in WaitPrograms => TwoProcesses /\ (Alone \/ WithChild \/ AfterChild)

-----------------------------------------------------------------------------
(* How a list of calls goes on.                                            *)

LEMMA Tuples ==
  ASSUME NEW a, NEW b, NEW c
  PROVE  /\ Head(<<a>>) = a /\ Tail(<<a>>) = <<>>
         /\ Head(<<a, b>>) = a /\ Tail(<<a, b>>) = <<b>>
         /\ Head(<<a, b, c>>) = a /\ Tail(<<a, b, c>>) = <<b, c>>
OBVIOUS

LEMMA WordLists ==
  /\ greeting \in Seq(Wording) /\ greeted \in Seq(Wording) /\ <<>> \in Seq(Wording)
  /\ <<"hello world", "child", "unreachable">> \in Seq(Wording)
  /\ <<"hello world", "child", "wc">> \in Seq(Wording) /\ <<"wc">> \in Seq(Wording)
  /\ <<"hello world", "parent">> \in Seq(Wording)
<1>1. /\ "hello world" \in Wording /\ "child" \in Wording /\ "parent" \in Wording
      /\ "unreachable" \in Wording /\ "wc" \in Wording
  BY DEF Wording
<1>2. ASSUME NEW a \in Wording, NEW b \in Wording, NEW c \in Wording
      PROVE  <<a>> \in Seq(Wording) /\ <<a, b>> \in Seq(Wording) /\ <<a, b, c>> \in Seq(Wording)
  OBVIOUS
<1> HIDE DEF Wording
<1>3. <<"hello world">> \in Seq(Wording) /\ <<"wc">> \in Seq(Wording)
  BY <1>1, <1>2
<1>4. <<"hello world", "child">> \in Seq(Wording) /\ <<"hello world", "parent">> \in Seq(Wording)
  BY <1>1, <1>2
<1>5. /\ <<"hello world", "child", "unreachable">> \in Seq(Wording)
      /\ <<"hello world", "child", "wc">> \in Seq(Wording)
  BY <1>1, <1>2
<1> QED BY <1>3, <1>4, <1>5, EmptySeq DEF greeting, greeted

\* One more line at the end of what is there.
LEMMA Appended ==
  /\ Append(greeting, "child") = greeted
  /\ Append(greeted, "unreachable") = <<"hello world", "child", "unreachable">>
  /\ Append(greeted, "wc") = <<"hello world", "child", "wc">>
  /\ Append(<<>>, "wc") = <<"wc">>
  /\ Append(<<>>, "hello world") = greeting
  /\ Append(greeting, "parent") = <<"hello world", "parent">>
BY OneMore DEF greeting, greeted

\* The child's next call, and the stage it leads to.
Leads(l, s) ==
  \/ l = <<>>
  \/ /\ l # <<>>
     /\ \E line \in Wording : Head(l) = Fork!printf(line) /\ <<Tail(l), Append(s, line)>> \in Progress
  \/ /\ l # <<>> /\ Head(l) = Fork!Exec("wc") /\ <<Tail(l), s>> \in Progress
     /\ << <<Fork!printf("wc")>>, IF tty THEN s ELSE <<>> >> \in Progress

LEMMA StagesLead ==
  ASSUME program \in WaitPrograms, NEW l, NEW s, <<l, s>> \in Progress
  PROVE  Leads(l, s)
<1> DEFINE c == Fork!printf("child")  wc == Fork!Exec("wc")  line == Fork!printf("wc")
           u3 == <<"hello world", "child", "unreachable">>  w3 == <<"hello world", "child", "wc">>
<1>1. /\ "child" \in Wording /\ "unreachable" \in Wording /\ "wc" \in Wording
  BY DEF Wording
<1>2. CASE program = "callingforkandwait"
  <2>1. Progress = {<< <<c>>, greeting>>, << <<>>, greeted>>}
    BY <1>2 DEF Progress, ChildTodo
  <2>2. CASE l = <<c>> /\ s = greeting
    BY <1>1, <2>1, <2>2, Tuples, Appended DEF Leads
  <2>3. CASE l = <<>>
    BY <2>3 DEF Leads
  <2> QED BY <2>1, <2>2, <2>3
<1>3. CASE program = "callexec"
  <2>1. Progress = {<< <<c, wc, unreachable>>, greeting>>,
                    << <<wc, unreachable>>, greeted>>, << <<unreachable>>, greeted>>, << <<>>, u3>>,
                    << <<line>>, IF tty THEN greeted ELSE <<>> >>, << <<>>, IF tty THEN w3 ELSE <<"wc">> >>}
    BY <1>3 DEF Progress, ChildTodo
  <2>2. CASE l = <<c, wc, unreachable>> /\ s = greeting
    <3>1. Tail(l) = <<wc, unreachable>> /\ Head(l) = c /\ l # <<>>
      BY <2>2, Tuples
    <3>2. <<Tail(l), Append(s, "child")>> \in Progress
      BY <2>1, <2>2, <3>1, Appended
    <3> QED BY <1>1, <3>1, <3>2 DEF Leads
  <2>3. CASE l = <<wc, unreachable>> /\ s = greeted
    <3>1. Tail(l) = <<unreachable>> /\ Head(l) = wc /\ l # <<>>
      BY <2>3, Tuples
    <3> QED BY <2>1, <2>3, <3>1 DEF Leads
  <2>4. CASE l = <<unreachable>> /\ s = greeted
    <3>1. Tail(l) = <<>> /\ Head(l) = Fork!printf("unreachable") /\ l # <<>>
      BY <2>4, Tuples DEF unreachable
    <3>2. <<Tail(l), Append(s, "unreachable")>> \in Progress
      BY <2>1, <2>4, <3>1, Appended
    <3> QED BY <1>1, <3>1, <3>2 DEF Leads
  <2>5. CASE l = <<line>> /\ s = IF tty THEN greeted ELSE <<>>
    <3>1. Tail(l) = <<>> /\ Head(l) = line /\ l # <<>>
      BY <2>5, Tuples
    <3>2. Append(s, "wc") = IF tty THEN w3 ELSE <<"wc">>
      BY <2>5, Appended
    <3>3. <<Tail(l), Append(s, "wc")>> \in Progress
      BY <2>1, <3>1, <3>2
    <3> QED BY <1>1, <3>1, <3>3 DEF Leads
  <2>6. CASE l = <<>>
    BY <2>6 DEF Leads
  <2> QED BY <2>1, <2>2, <2>3, <2>4, <2>5, <2>6
<1> QED BY <1>2, <1>3 DEF WaitPrograms

-----------------------------------------------------------------------------
(* The steps of the two processes.                                         *)

ForkStep(p) ==
  \/ Fork!Printf(p) \/ Fork!Redirect(p) \/ Fork!ForkChild(p) \/ Fork!ForkFails(p)
  \/ Fork!ExecProgram(p) \/ Fork!ExecFails(p) \/ Fork!WaitChild(p) \/ Fork!Exit(p)

\* A process that takes a step runs, and its call decides which step it is.
LEMMA WhichStep ==
  ASSUME NEW p \in Procs, ForkStep(p)
  PROVE  /\ state[p] = "running" /\ program' = program /\ tty' = tty
         /\ Fork!Call(p).call = "print" => Fork!Printf(p)
         /\ Fork!Call(p).call = "fork" => Fork!ForkChild(p) \/ Fork!ForkFails(p)
         /\ Fork!Call(p).call = "exec" => Fork!ExecProgram(p) \/ Fork!ExecFails(p)
         /\ Fork!Call(p).call = "wait" => Fork!WaitChild(p)
         /\ Fork!Call(p).call = "exit" => Fork!Exit(p)
BY DEF ForkStep, Fork!Printf, Fork!Redirect, Fork!ForkChild, Fork!ForkFails, Fork!ExecProgram,
       Fork!ExecFails, Fork!WaitChild, Fork!Exit, Fork!At

\* Whatever is written to stdout comes after what is there.
LEMMA WriteEnds ==
  ASSUME ForkArgs, FilesInv, TwoProcesses, NEW p \in Procs, NEW lns \in Seq(Wording),
         Fork!WriteLines(p, lns)
  PROVE  stdout' = stdout \o lns
<1> DEFINE k == fd[p][2]
           o == offset["stdout"][k]
           text == content["stdout"]
           end == IF o + Len(lns) > Len(text) THEN o + Len(lns) ELSE Len(text)
           new == [n \in 1 .. end |-> IF n > o /\ n <= o + Len(lns) THEN lns[n - o] ELSE text[n]]
<1>1. fd[p][1] = "stdout"
  BY DEF TwoProcesses
<1>2. text \in Seq(Wording) /\ o = Len(text) /\ content \in [Streams -> Seq(Wording)]
  BY <1>1 DEF FilesInv, FilesTypeOK, SharedEnd, Streams
<1>3. content' = [content EXCEPT !["stdout"] = new]
  BY <1>1 DEF Fork!WriteLines
<1>4. content'["stdout"] = new
  BY <1>2, <1>3 DEF Streams
<1> HIDE DEF k, o, text
<1>5. end = Len(text) + Len(lns)
  BY <1>2
<1>6. text \o lns \in Seq(Wording) /\ Len(text \o lns) = end
  BY <1>2, <1>5
<1>7. \A n \in 1 .. end : (text \o lns)[n] = IF n > o /\ n <= o + Len(lns) THEN lns[n - o] ELSE text[n]
  BY <1>2, <1>5, ConcatProperties
<1>8. text \o lns = [n \in 1 .. Len(text \o lns) |-> (text \o lns)[n]]
  <2> DEFINE both == text \o lns
  <2>1. both \in Seq(Wording)
    BY <1>6
  <2> HIDE DEF both
  <2>2. both \in [1 .. Len(both) -> Wording]
    BY <2>1, LenProperties
  <2>3. both = [n \in 1 .. Len(both) |-> both[n]]
    BY <2>2
  <2> QED BY <2>3 DEF both
<1>9. new = text \o lns
  <2> HIDE DEF end
  <2> QED BY <1>6, <1>7, <1>8
<1> HIDE DEF new
<1> QED BY <1>4, <1>9 DEF text, stdout

LEMMA LastLine ==
  ASSUME NEW s \in Seq(Wording), NEW line \in Wording
  PROVE  s \o <<line>> = Append(s, line) /\ <<line>> \in Seq(Wording)
BY AppendProperties

\* printf() of one line on a terminal and elsewhere.
LEMMA PrintsLine ==
  ASSUME ForkArgs, FilesInv, TwoProcesses, NEW p \in Procs, NEW line \in Wording,
         todo[p] # <<>>, Head(todo[p]) = Fork!printf(line), ForkStep(p)
  PROVE  /\ todo' = [todo EXCEPT ![p] = Tail(todo[p])] /\ UNCHANGED <<state, parent, fd, program, tty>>
         /\ IF tty THEN stdout' = Append(stdout, line) /\ buffer' = buffer
                   ELSE stdout' = stdout /\ buffer' = [buffer EXCEPT ![p] = Append(@, line)]
<1>1. Fork!Call(p) = [call |-> "print", lines |-> {line}]
  BY DEF Fork!Call, Fork!printf, Fork!print_any
<1>2. Fork!Call(p).call = "print" /\ Fork!Call(p).lines = {line}
  BY <1>1
<1>3. Fork!Printf(p)
  BY <1>2, WhichStep
<1>4. IF tty /\ fd[p][1] = "stdout"
      THEN Fork!WriteLines(p, <<line>>) /\ buffer' = buffer
      ELSE /\ buffer' = [buffer EXCEPT ![p] = Append(@, line)]
           /\ UNCHANGED <<offset, content, written>>
  BY <1>2, <1>3 DEF Fork!Printf
<1>5. fd[p][1] = "stdout" /\ stdout \in Seq(Wording)
  BY DEF TwoProcesses, stdout, FilesInv, FilesTypeOK, Streams
<1>6. CASE tty
  <2>1. stdout' = stdout \o <<line>>
    BY <1>4, <1>5, <1>6, LastLine, WriteEnds
  <2>2. stdout \o <<line>> = Append(stdout, line)
    BY <1>5, LastLine
  <2> QED BY <1>3, <1>4, <1>5, <1>6, <2>1, <2>2 DEF Fork!Printf, Fork!Return
<1>7. CASE ~tty
  BY <1>3, <1>4, <1>5, <1>7 DEF Fork!Printf, Fork!Return, stdout
<1> QED BY <1>6, <1>7

LEMMA Ends ==
  ASSUME ForkArgs, FilesInv, TwoProcesses, NEW p \in Procs, todo[p] = <<>>, ForkStep(p)
  PROVE  /\ state' = [state EXCEPT ![p] = "ended"] /\ stdout' = stdout \o buffer[p]
         /\ UNCHANGED <<todo, parent, fd, buffer, program, tty>>
<1>1. Fork!Call(p) = [call |-> "exit"]
  BY DEF Fork!Call
<1>2. Fork!Exit(p)
  BY <1>1, WhichStep
<1>3. buffer[p] \in Seq(Wording)
  BY DEF FilesInv, FilesTypeOK
<1> QED BY <1>2, <1>3, WriteEnds DEF Fork!Exit

\* A step that forks nothing and redirects nothing.
LEMMA StillTwo ==
  ASSUME FilesInv, TwoProcesses, 2 \in Procs, UNCHANGED <<fd, parent>>, NEW q \in {1, 2}, NEW v,
         state' = [state EXCEPT ![q] = v] \/ state' = state, q = 2 => state[2] # "none"
  PROVE  TwoProcesses'
<1>1. state \in [Procs -> {"none", "running", "ended", "reaped"}]
  BY DEF FilesInv, FilesTypeOK
<1>2. \A p \in Procs \ {1, 2} : state'[p] = "none"
  BY <1>1 DEF TwoProcesses
<1>3. state'[2] # "none" => parent'[2] = 1
  BY <1>1 DEF TwoProcesses
<1> QED BY <1>2, <1>3 DEF TwoProcesses, Procs, Fork!Proc

LEMMA ProgressStands ==
  ASSUME program' = program, tty' = tty
  PROVE  Progress' = Progress /\ Kept' = Kept /\ Shown' = Shown
BY DEF Progress, Kept, Shown, ChildTodo

LEMMA ChildMoves ==
  ASSUME WaitArgs, FilesInv, program \in WaitPrograms, TwoProcesses, WithChild, 2 \in Procs,
         ForkStep(2)
  PROVE  TwoProcesses' /\ WithChild'
<1>1. state[2] = "running" /\ program' = program /\ tty' = tty
  BY WhichStep
<1>2. Progress' = Progress /\ Kept' = Kept
  BY <1>1, ProgressStands
<1>3. PICK s \in Seq(Wording) :
        /\ <<todo[2], s>> \in Progress
        /\ IF tty THEN stdout = s /\ buffer[2] = <<>> ELSE stdout = <<>> /\ buffer[2] = s
  BY <1>1 DEF WithChild, ChildAt
<1>4. /\ state[1] = "running" /\ todo[1] = ParentTodo /\ buffer[1] = Kept
      /\ ParentTodo' = ParentTodo
  BY DEF WithChild, ParentTodo
<1>5. /\ todo \in [Procs -> Seq(Plain) \cup Opening] /\ buffer \in [Procs -> Seq(Wording)]
      /\ state \in [Procs -> {"none", "running", "ended", "reaped"}]
  BY DEF FilesInv, FilesTypeOK
<1>6. ForkArgs /\ 1 \in Procs
  BY DEF WaitArgs, ForkArgs, Procs, Fork!Proc
<1>7. CASE todo[2] = <<>>
  <2>1. /\ state' = [state EXCEPT ![2] = "ended"] /\ stdout' = stdout \o buffer[2]
        /\ UNCHANGED <<todo, parent, fd, buffer, program, tty>>
    BY <1>6, <1>7, Ends
  <2>2. stdout' = s
    BY <1>3, <2>1, ConcatEmptySeq
  <2>3. TwoProcesses'
    BY <1>1, <2>1, StillTwo
  <2>4. WithChild'
    <3>1. state'[1] = "running" /\ state'[2] = "ended"
      BY <1>4, <1>5, <1>6, <2>1
    <3>2. ChildAt(s)'
      BY <1>2, <1>3, <1>7, <2>1, <2>2, <3>1 DEF ChildAt
    <3> QED BY <1>2, <1>4, <2>1, <3>1, <3>2 DEF WithChild
  <2> QED BY <2>3, <2>4
<1>8. CASE /\ todo[2] # <<>>
           /\ \E line \in Wording :
                Head(todo[2]) = Fork!printf(line) /\ <<Tail(todo[2]), Append(s, line)>> \in Progress
  <2>1. PICK line \in Wording :
          Head(todo[2]) = Fork!printf(line) /\ <<Tail(todo[2]), Append(s, line)>> \in Progress
    BY <1>8
  <2>2. /\ todo' = [todo EXCEPT ![2] = Tail(todo[2])] /\ UNCHANGED <<state, parent, fd, program, tty>>
        /\ IF tty THEN stdout' = Append(stdout, line) /\ buffer' = buffer
                  ELSE stdout' = stdout /\ buffer' = [buffer EXCEPT ![2] = Append(@, line)]
    BY <1>6, <1>8, <2>1, PrintsLine
  <2>3. Append(s, line) \in Seq(Wording)
    BY AppendProperties
  <2>4. TwoProcesses'
    BY <1>1, <2>2, StillTwo
  <2>5. /\ todo'[1] = todo[1] /\ todo'[2] = Tail(todo[2]) /\ buffer'[1] = buffer[1]
        /\ IF tty THEN stdout' = Append(s, line) /\ buffer'[2] = <<>>
                  ELSE stdout' = <<>> /\ buffer'[2] = Append(s, line)
    BY <1>3, <1>5, <1>6, <2>2
  <2>6. ChildAt(Append(s, line))'
    <3>1. <<todo'[2], Append(s, line)>> \in Progress'
      BY <1>2, <2>1, <2>5, Zenon
    <3> QED BY <1>1, <2>2, <2>5, <3>1 DEF ChildAt
  <2>7. WithChild'
    BY <1>2, <1>4, <2>2, <2>3, <2>5, <2>6 DEF WithChild
  <2> QED BY <2>4, <2>7
<1>9. CASE /\ todo[2] # <<>> /\ Head(todo[2]) = Fork!Exec("wc") /\ <<Tail(todo[2]), s>> \in Progress
           /\ << <<Fork!printf("wc")>>, IF tty THEN s ELSE <<>> >> \in Progress
  <2>1. Fork!Call(2) = [call |-> "exec", prog |-> "wc"]
    BY <1>9 DEF Fork!Call, Fork!Exec
  <2>2. Fork!Call(2).call = "exec" /\ Fork!Call(2).prog = "wc"
    BY <2>1
  <2>3. Fork!ExecProgram(2) \/ Fork!ExecFails(2)
    BY <2>2, WhichStep
  <2>4. UNCHANGED <<state, parent, fd>> /\ stdout' = stdout
    BY <2>3 DEF Fork!ExecProgram, Fork!ExecFails, stdout
  <2>5. TwoProcesses'
    BY <1>1, <2>4, StillTwo
  <2>6. CASE Fork!ExecProgram(2)
    <3>1. todo' = [todo EXCEPT ![2] = <<Fork!printf("wc")>>] /\ buffer' = [buffer EXCEPT ![2] = <<>>]
      BY <2>2, <2>6 DEF Fork!ExecProgram
    <3>2. /\ todo'[1] = todo[1] /\ todo'[2] = <<Fork!printf("wc")>>
          /\ buffer'[1] = buffer[1] /\ buffer'[2] = <<>>
      BY <1>5, <1>6, <3>1
    <3>3. PICK r \in Seq(Wording) : r = IF tty THEN s ELSE <<>>
      BY EmptySeq
    <3>4. <<todo'[2], r>> \in Progress'
      BY <1>2, <1>9, <3>2, <3>3
    <3>5. IF tty THEN stdout' = r /\ buffer'[2] = <<>> ELSE stdout' = <<>> /\ buffer'[2] = r
      BY <1>3, <2>4, <3>2, <3>3
    <3>6. ChildAt(r)'
      BY <1>1, <2>4, <3>4, <3>5 DEF ChildAt
    <3>7. WithChild'
      BY <1>2, <1>4, <2>4, <3>2, <3>6 DEF WithChild
    <3> QED BY <2>5, <3>7
  <2>7. CASE Fork!ExecFails(2)
    <3>1. todo' = [todo EXCEPT ![2] = Tail(@)] /\ buffer' = buffer
      BY <2>7 DEF Fork!ExecFails, Fork!Return
    <3>2. todo'[1] = todo[1] /\ todo'[2] = Tail(todo[2])
      BY <1>5, <1>6, <3>1
    <3>3. ChildAt(s)'
      <4>1. <<todo'[2], s>> \in Progress'
        BY <1>2, <1>9, <3>2, Zenon
      <4> QED BY <1>1, <1>3, <2>4, <3>1, <4>1 DEF ChildAt
    <3>4. WithChild'
      BY <1>2, <1>4, <2>4, <3>1, <3>2, <3>3 DEF WithChild
    <3> QED BY <2>5, <3>4
  <2> QED BY <2>3, <2>6, <2>7
<1>10. Leads(todo[2], s)
  BY <1>3, StagesLead
<1> QED BY <1>7, <1>8, <1>9, <1>10 DEF Leads

LEMMA ForksChild ==
  ASSUME WaitArgs, FilesInv, program \in WaitPrograms, TwoProcesses, state[2] = "none", 2 \in Procs,
         1 \in Procs, todo[1] = <<ForkCall>>, stdout = Shown, buffer[1] = Kept, ForkStep(1)
  PROVE  TwoProcesses' /\ (Alone' \/ WithChild')
<1>1. state[1] = "running" /\ program' = program /\ tty' = tty
  BY WhichStep
<1>2. Progress' = Progress /\ Kept' = Kept /\ Shown' = Shown /\ ParentTodo' = ParentTodo
  BY <1>1, ProgressStands DEF ParentTodo
<1>3. /\ todo \in [Procs -> Seq(Plain) \cup Opening] /\ buffer \in [Procs -> Seq(Wording)]
      /\ state \in [Procs -> {"none", "running", "ended", "reaped"}] /\ fd \in [Procs -> Streams \X Procs]
  BY DEF FilesInv, FilesTypeOK
<1>4. Fork!Call(1) = [call |-> "fork", child |-> ChildTodo, parent |-> ParentTodo, failed |-> <<>>]
  <2>1. todo[1] # <<>> /\ Head(todo[1]) = ForkCall
    OBVIOUS
  <2> QED BY <2>1 DEF Fork!Call, ForkCall, Fork!Fork, Fork!ForkOr
<1>5. /\ Fork!Call(1).call = "fork" /\ Fork!Call(1).child = ChildTodo
      /\ Fork!Call(1).parent = ParentTodo /\ Fork!Call(1).failed = <<>>
  BY <1>4
<1>6. CASE Fork!ForkFails(1)
  <2>1. todo' = [todo EXCEPT ![1] = <<>>] /\ UNCHANGED <<state, parent, buffer, fd>> /\ stdout' = stdout
    BY <1>5, <1>6 DEF Fork!ForkFails, stdout
  <2>2. TwoProcesses'
    BY <1>1, <2>1, StillTwo
  <2>3. Alone'
    BY <1>1, <1>2, <1>3, <2>1 DEF Alone
  <2> QED BY <2>2, <2>3
<1>7. CASE Fork!ForkChild(1)
  <2>1. PICK c \in Procs :
          /\ state[c] = "none" /\ \A d \in Procs : d < c => state[d] # "none"
          /\ state' = [state EXCEPT ![c] = "running"]
          /\ parent' = [parent EXCEPT ![c] = 1]
          /\ buffer' = [buffer EXCEPT ![c] = buffer[1]]
          /\ fd' = [fd EXCEPT ![c] = fd[1]]
          /\ todo' = [todo EXCEPT ![c] = ChildTodo, ![1] = ParentTodo]
    BY <1>5, <1>7 DEF Fork!ForkChild, Fork!Inherited, Procs
  <2>2. c = 2
    <3>1. c # 1 /\ ~(2 < c)
      BY <1>1, <2>1
    <3> QED BY <3>1 DEF Procs, Fork!Proc, WaitArgs, ForkArgs
  <2>3. stdout' = stdout
    BY <1>7 DEF Fork!ForkChild, stdout
  <2>4. TwoProcesses'
    <3>1. \A p \in Procs : fd'[p][1] = "stdout"
      BY <1>3, <2>1, <2>2 DEF TwoProcesses
    <3>2. \A p \in Procs \ {1, 2} : state'[p] = "none"
      BY <1>3, <2>1, <2>2 DEF TwoProcesses
    <3>3. parent' \in [Procs -> Nat] /\ parent'[2] = 1 /\ \A p \in Procs \ {2} : parent'[p] = 0
      BY <2>1, <2>2 DEF TwoProcesses
    <3> QED BY <3>1, <3>2, <3>3 DEF TwoProcesses, Procs, Fork!Proc
  <2>5. /\ state'[1] = "running" /\ state'[2] = "running" /\ todo'[1] = ParentTodo
        /\ todo'[2] = ChildTodo /\ buffer'[1] = Kept /\ buffer'[2] = Kept
    BY <1>1, <1>3, <2>1, <2>2
  <2>6. ChildAt(greeting)'
    <3>1. <<todo'[2], greeting>> \in Progress'
      BY <1>2, <2>5 DEF Progress
    <3> QED BY <1>1, <2>3, <2>5, <3>1 DEF ChildAt, Shown, Kept, greeting
  <2>7. WithChild'
    <3>1. greeting' = greeting /\ greeting \in Seq(Wording)
      BY WordLists DEF greeting
    <3> QED BY <1>2, <2>5, <2>6, <3>1 DEF WithChild
  <2> QED BY <2>4, <2>7
<1> QED BY <1>5, <1>6, <1>7, WhichStep

LEMMA ParentAlone ==
  ASSUME WaitArgs, FilesInv, program \in WaitPrograms, TwoProcesses, Alone, 2 \in Procs, 1 \in Procs,
         ForkStep(1)
  PROVE  TwoProcesses' /\ (Alone' \/ WithChild')
<1>1. state[1] = "running" /\ state[2] = "none" /\ program' = program /\ tty' = tty /\ ForkArgs
  BY WhichStep DEF Alone, WaitArgs
<1>2. Kept' = Kept /\ Shown' = Shown /\ ForkCall' = ForkCall /\ greeting' = greeting
  BY <1>1, ProgressStands DEF ForkCall, ChildTodo, ParentTodo, greeting
<1>3. /\ todo \in [Procs -> Seq(Plain) \cup Opening] /\ buffer \in [Procs -> Seq(Wording)]
      /\ state \in [Procs -> {"none", "running", "ended", "reaped"}]
  BY DEF FilesInv, FilesTypeOK
<1>4. CASE /\ todo[1] = <<Fork!printf("hello world"), ForkCall>>
           /\ stdout = <<>> /\ buffer[1] = <<>>
  <2>1. todo[1] # <<>> /\ Head(todo[1]) = Fork!printf("hello world") /\ Tail(todo[1]) = <<ForkCall>>
    <3>1. \A a, b : <<a, b>> # <<>>
      OBVIOUS
    <3>2. Head(todo[1]) = Fork!printf("hello world") /\ Tail(todo[1]) = <<ForkCall>>
      BY <1>4, Tuples, Zenon
    <3> QED BY <1>4, <3>1, <3>2, Zenon
  <2>2. "hello world" \in Wording
    BY DEF Wording
  <2>3. /\ todo' = [todo EXCEPT ![1] = <<ForkCall>>] /\ UNCHANGED <<state, parent, fd, program, tty>>
        /\ IF tty THEN stdout' = Append(stdout, "hello world") /\ buffer' = buffer
                  ELSE stdout' = stdout /\ buffer' = [buffer EXCEPT ![1] = Append(@, "hello world")]
    BY <1>1, <2>1, <2>2, PrintsLine
  <2>4. stdout' = Shown /\ buffer'[1] = Kept /\ todo'[1] = <<ForkCall>>
    BY <1>3, <1>4, <2>3, Appended DEF Shown, Kept
  <2>5. TwoProcesses'
    BY <1>1, <2>3, StillTwo
  <2>6. Alone'
    BY <1>1, <1>2, <2>3, <2>4 DEF Alone
  <2> QED BY <2>5, <2>6
<1>5. CASE todo[1] = <<ForkCall>> /\ stdout = Shown /\ buffer[1] = Kept
  BY <1>1, <1>5, ForksChild
<1>6. CASE todo[1] = <<>> /\ stdout = Shown /\ buffer[1] = Kept
  <2>1. /\ state' = [state EXCEPT ![1] = "ended"] /\ stdout' = Shown \o Kept
        /\ UNCHANGED <<todo, parent, fd, buffer, program, tty>>
    BY <1>1, <1>6, Ends
  <2>2. Shown \o Kept = greeting
    BY WordLists, ConcatEmptySeq DEF Shown, Kept
  <2>3. TwoProcesses'
    BY <1>1, <2>1, StillTwo
  <2>4. Alone'
    BY <1>1, <1>2, <1>3, <2>1, <2>2 DEF Alone
  <2> QED BY <2>3, <2>4
<1> QED BY <1>1, <1>4, <1>5, <1>6 DEF Alone

LEMMA ParentWaits ==
  ASSUME WaitArgs, FilesInv, program \in WaitPrograms, TwoProcesses, WithChild, 2 \in Procs,
         1 \in Procs, ForkStep(1)
  PROVE  TwoProcesses' /\ AfterChild'
<1>1. /\ state[1] = "running" /\ program' = program /\ tty' = tty
      /\ todo[1] = <<Fork!Wait, Fork!printf("parent")>> /\ buffer[1] = Kept
  BY WhichStep DEF WithChild, ParentTodo
<1>2. Progress' = Progress /\ Kept' = Kept
  BY <1>1, ProgressStands
<1>3. /\ todo \in [Procs -> Seq(Plain) \cup Opening]
      /\ state \in [Procs -> {"none", "running", "ended", "reaped"}]
  BY DEF FilesInv, FilesTypeOK
<1>4. todo[1] # <<>> /\ Head(todo[1]) = Fork!Wait /\ Tail(todo[1]) = <<Fork!printf("parent")>>
  BY <1>1, Tuples
<1>5. Fork!Call(1) = [call |-> "wait"]
  BY <1>4 DEF Fork!Call, Fork!Wait
<1>6. Fork!WaitChild(1)
  BY <1>5, WhichStep
<1>7. state[2] \in {"running", "ended"}
  BY DEF WithChild, ChildAt
<1>8. Fork!Children(1) = {2}
  BY <1>7 DEF Fork!Children, TwoProcesses, Procs
<1>9. state[2] = "ended" /\ state' = [state EXCEPT ![2] = "reaped"]
  BY <1>6, <1>8 DEF Fork!WaitChild
<1>10. /\ todo' = [todo EXCEPT ![1] = <<Fork!printf("parent")>>]
       /\ UNCHANGED <<parent, buffer, fd>> /\ stdout' = stdout
  BY <1>4, <1>6 DEF Fork!WaitChild, Fork!Return, stdout
<1>11. PICK s \in Seq(Wording) : << <<>>, s>> \in Progress /\ stdout = s
  BY <1>9 DEF WithChild, ChildAt
<1>12. state'[1] = "running" /\ state'[2] = "reaped" /\ todo'[1] = <<Fork!printf("parent")>>
  BY <1>1, <1>3, <1>9, <1>10
<1>13. ParentAt(s)'
  BY <1>1, <1>2, <1>10, <1>11, <1>12 DEF ParentAt
<1>14. AfterChild'
  BY <1>12, <1>13 DEF AfterChild
<1>15. TwoProcesses'
  BY <1>9, <1>10, StillTwo
<1> QED BY <1>14, <1>15

LEMMA ParentEnds ==
  ASSUME WaitArgs, FilesInv, program \in WaitPrograms, TwoProcesses, AfterChild, 2 \in Procs,
         1 \in Procs, ForkStep(1)
  PROVE  TwoProcesses' /\ AfterChild'
<1>1. state[1] = "running" /\ program' = program /\ tty' = tty /\ ForkArgs /\ state[2] = "reaped"
  BY WhichStep DEF WaitArgs, AfterChild
<1>2. Progress' = Progress
  BY <1>1, ProgressStands
<1>3. /\ todo \in [Procs -> Seq(Plain) \cup Opening] /\ buffer \in [Procs -> Seq(Wording)]
      /\ state \in [Procs -> {"none", "running", "ended", "reaped"}]
  BY DEF FilesInv, FilesTypeOK
<1>4. PICK s \in Seq(Wording) : ParentAt(s)
  BY DEF AfterChild
<1>5. CASE todo[1] = <<Fork!printf("parent")>> /\ stdout = s /\ buffer[1] = Kept
  <2>1. todo[1] # <<>> /\ Head(todo[1]) = Fork!printf("parent") /\ Tail(todo[1]) = <<>>
    BY <1>5, Tuples
  <2>2. "parent" \in Wording
    BY DEF Wording
  <2>3. /\ todo' = [todo EXCEPT ![1] = <<>>] /\ UNCHANGED <<state, parent, fd, program, tty>>
        /\ IF tty THEN stdout' = Append(stdout, "parent") /\ buffer' = buffer
                  ELSE stdout' = stdout /\ buffer' = [buffer EXCEPT ![1] = Append(@, "parent")]
    BY <1>1, <2>1, <2>2, PrintsLine
  <2>4. /\ todo'[1] = <<>>
        /\ IF tty THEN stdout' = Append(s, "parent") /\ buffer'[1] = <<>>
                  ELSE stdout' = s /\ buffer'[1] = <<"hello world", "parent">>
    BY <1>3, <1>5, <2>3, Appended DEF Kept
  <2>5. ParentAt(s)'
    <3>1. << <<>>, s>> \in Progress' /\ state'[1] = "running"
      BY <1>1, <1>2, <1>4, <2>3 DEF ParentAt
    <3>2. /\ todo'[1] = <<>>
          /\ IF tty' THEN stdout' = Append(s, "parent") /\ buffer'[1] = <<>>
                     ELSE stdout' = s /\ buffer'[1] = <<"hello world", "parent">>
      BY <1>1, <2>4
    <3> QED BY <3>1, <3>2 DEF ParentAt
  <2>6. TwoProcesses'
    BY <1>1, <2>3, StillTwo
  <2> QED BY <1>1, <2>3, <2>5, <2>6 DEF AfterChild
<1>6. CASE /\ todo[1] = <<>>
           /\ IF tty THEN stdout = Append(s, "parent") /\ buffer[1] = <<>>
                     ELSE stdout = s /\ buffer[1] = <<"hello world", "parent">>
  <2>1. /\ state' = [state EXCEPT ![1] = "ended"] /\ stdout' = stdout \o buffer[1]
        /\ UNCHANGED <<todo, parent, fd, buffer, program, tty>>
    BY <1>1, <1>6, Ends
  <2>2. "parent" \in Wording
    BY DEF Wording
  <2>3. Append(s, "parent") \in Seq(Wording)
    BY <2>2, AppendProperties
  <2>4. stdout' = IF tty THEN Append(s, "parent") ELSE s \o <<"hello world", "parent">>
    BY <1>6, <2>1, <2>3, ConcatEmptySeq
  <2>5. state'[1] = "ended" /\ state'[2] = "reaped"
    BY <1>1, <1>3, <2>1
  <2>6. ParentAt(s)'
    BY <1>1, <1>2, <1>4, <2>4, <2>5 DEF ParentAt
  <2>7. TwoProcesses'
    BY <1>1, <2>1, StillTwo
  <2> QED BY <2>5, <2>6, <2>7 DEF AfterChild
<1> QED BY <1>1, <1>4, <1>5, <1>6 DEF ParentAt

LEMMA Unchanged ==
  ASSUME WaitInv, UNCHANGED fork
  PROVE  WaitInv'
<1>1. /\ program' = program /\ tty' = tty /\ todo' = todo /\ state' = state /\ parent' = parent
      /\ buffer' = buffer /\ fd' = fd /\ content' = content
  BY DEF fork
<1>2. Progress' = Progress /\ Kept' = Kept /\ Shown' = Shown /\ stdout' = stdout
  BY <1>1, ProgressStands DEF stdout
<1>3. ForkCall' = ForkCall /\ ParentTodo' = ParentTodo /\ greeting' = greeting
  BY <1>1 DEF ForkCall, ChildTodo, ParentTodo, greeting
<1>4. TwoProcesses' <=> TwoProcesses
  BY <1>1 DEF TwoProcesses, Procs, Fork!Proc
<1>5. Alone' <=> Alone
  BY <1>1, <1>2, <1>3 DEF Alone
<1>6. \A s : ChildAt(s)' <=> ChildAt(s)
  BY <1>1, <1>2 DEF ChildAt
<1>7. \A s : ParentAt(s)' <=> ParentAt(s)
  BY <1>1, <1>2 DEF ParentAt
<1>8. WithChild => WithChild'
  BY <1>1, <1>2, <1>3, <1>6 DEF WithChild
<1>9. AfterChild => AfterChild'
  BY <1>1, <1>7 DEF AfterChild
<1> QED BY <1>1, <1>4, <1>5, <1>8, <1>9 DEF WaitInv, WaitPrograms

LEMMA WaitInit == WaitArgs /\ Fork!Init => WaitInv
<1> SUFFICES ASSUME WaitArgs, Fork!Init, program \in WaitPrograms
             PROVE  TwoProcesses /\ Alone
  BY DEF WaitInv
<1>1. /\ todo = [p \in Procs |-> IF p = 1 THEN Fork!Script[program] ELSE <<>>]
      /\ state = [p \in Procs |-> IF p = 1 THEN "running" ELSE "none"]
      /\ parent = [p \in Procs |-> 0]
      /\ buffer = [p \in Procs |-> <<>>]
      /\ fd = [p \in Procs |-> <<"stdout", 1>>]
      /\ content = [f \in Streams |-> <<>>]
  BY DEF Fork!Init, Fork!first, Fork!File, Procs, Streams
<1>2. 1 \in Procs /\ 2 \in Procs
  BY DEF Procs, Fork!Proc, WaitArgs, ForkArgs
<1>3. Fork!Script[program] = <<Fork!printf("hello world"), ForkCall>>
  <2>1. CASE program = "callingforkandwait"
    BY <2>1 DEF Fork!Script, Fork!callingforkandwait, ForkCall, ChildTodo, ParentTodo
  <2>2. CASE program = "callexec"
    BY <2>2 DEF Fork!Script, Fork!callexec, ForkCall, ChildTodo, ParentTodo, unreachable
  <2> QED BY <2>1, <2>2 DEF WaitPrograms
<1>4. /\ todo[1] = <<Fork!printf("hello world"), ForkCall>> /\ state[1] = "running"
      /\ state[2] = "none" /\ stdout = <<>> /\ buffer[1] = <<>>
  <2>1. /\ todo[1] = Fork!Script[program] /\ state[1] = "running" /\ state[2] = "none"
        /\ stdout = <<>> /\ buffer[1] = <<>>
    BY <1>1, <1>2 DEF stdout, Streams
  <2> QED BY <1>3, <2>1
<1>5. Alone
  BY <1>4 DEF Alone
<1>6. TwoProcesses
  BY <1>1, <1>2 DEF TwoProcesses
<1> QED BY <1>5, <1>6

LEMMA WaitStep ==
  ASSUME WaitArgs, FilesInv, WaitInv, NEW p \in Procs, ForkStep(p)
  PROVE  WaitInv'
<1>1. state[p] = "running" /\ program' = program
  BY WhichStep
<1> SUFFICES ASSUME program \in WaitPrograms
             PROVE  TwoProcesses' /\ (Alone' \/ WithChild' \/ AfterChild')
  BY <1>1 DEF WaitInv, WaitPrograms
<1>2. TwoProcesses /\ (Alone \/ WithChild \/ AfterChild)
  BY DEF WaitInv
<1>3. 1 \in Procs /\ 2 \in Procs
  BY DEF Procs, Fork!Proc, WaitArgs, ForkArgs
<1>4. p = 1 \/ p = 2
  BY <1>1, <1>2 DEF TwoProcesses
<1>5. CASE p = 1
  BY <1>2, <1>3, <1>5, ParentAlone, ParentWaits, ParentEnds
<1>6. CASE p = 2
  <2>1. WithChild
    BY <1>1, <1>2, <1>6 DEF Alone, AfterChild
  <2> QED BY <1>2, <1>3, <1>6, <2>1, ChildMoves
<1> QED BY <1>4, <1>5, <1>6

LEMMA WaitInductive == WaitArgs => (MCSpec => []WaitInv)
<1> SUFFICES ASSUME WaitArgs PROVE MCSpec => []WaitInv
  OBVIOUS
<1>1. MCInit => WaitInv
  BY ForkSteps, WaitInit
<1>2. FilesInv /\ WaitInv /\ [MCNext]_<<subject, pipes, chat, fork, search, zip>> => WaitInv'
  <2> SUFFICES ASSUME FilesInv, WaitInv, [Fork!Next]_fork PROVE WaitInv'
    BY ForkSteps
  <2>1. CASE Fork!Next
    <3>1. PICK p \in Procs : ForkStep(p)
      BY <2>1 DEF Fork!Next, Procs, ForkStep
    <3> QED BY <3>1, WaitStep
  <2>2. CASE UNCHANGED fork
    BY <2>2, Unchanged
  <2> QED BY <2>1, <2>2
<1>3. MCSpec => []FilesInv
  BY FilesInductive DEF WaitArgs
<1> QED BY <1>1, <1>2, <1>3, PTL DEF MCSpec

\* What both have printed when they have ended.
LEMMA Printed ==
  /\ Append(greeted, "parent") = <<"hello world", "child", "parent">>
  /\ Append(<<"hello world", "child", "unreachable">>, "parent")
       = <<"hello world", "child", "unreachable", "parent">>
  /\ Append(<<"hello world", "child", "wc">>, "parent") = <<"hello world", "child", "wc", "parent">>
  /\ greeted \o <<"hello world", "parent">> = <<"hello world", "child", "hello world", "parent">>
  /\ <<"hello world", "child", "unreachable">> \o <<"hello world", "parent">>
       = <<"hello world", "child", "unreachable", "hello world", "parent">>
  /\ <<"wc">> \o <<"hello world", "parent">> = <<"wc", "hello world", "parent">>
<1>1. Append(<<"hello world", "child">>, "parent") = <<"hello world", "child", "parent">>
  BY OneMore
<1>2. /\ Append(<<"hello world", "child", "unreachable">>, "parent")
           = <<"hello world", "child", "unreachable", "parent">>
      /\ Append(<<"hello world", "child", "wc">>, "parent") = <<"hello world", "child", "wc", "parent">>
  BY OneMoreOfFour
<1>3. <<"hello world", "child">> \o <<"hello world", "parent">>
        = <<"hello world", "child", "hello world", "parent">>
  BY TwoJoined
<1>4. <<"hello world", "child", "unreachable">> \o <<"hello world", "parent">>
        = <<"hello world", "child", "unreachable", "hello world", "parent">>
  <2>1. \A a, b, c, x, y : <<a, b, c>> \o <<x, y>> = <<a, b, c, x, y>>
    BY TwoJoined
  <2> QED BY <2>1
<1>5. <<"wc">> \o <<"hello world", "parent">> = <<"wc", "hello world", "parent">>
  BY TwoJoined
<1> QED BY <1>1, <1>2, <1>3, <1>4, <1>5, Zenon DEF greeted

LEMMA Outcome ==
  ASSUME program \in WaitPrograms, NEW s, << <<>>, s>> \in Progress
  PROVE  (IF tty THEN Append(s, "parent") ELSE s \o <<"hello world", "parent">>) \in Fork!Output[program]
<1> DEFINE u3 == <<"hello world", "child", "unreachable">>  w3 == <<"hello world", "child", "wc">>
           e == Fork!Exec("wc")  w == Fork!printf("wc")  c == Fork!printf("child")
<1>1. CASE program = "callingforkandwait"
  <2>1. Progress = {<< <<c>>, greeting>>, << <<>>, greeted>>}
    BY <1>1 DEF Progress, ChildTodo
  <2>2. s = greeted
    <3>1. <<c>> # <<>>
      OBVIOUS
    <3> HIDE DEF c
    <3> QED BY <2>1, <3>1
  <2>3. Fork!Output[program] = IF tty THEN {<<"hello world", "child", "parent">>}
                                      ELSE {<<"hello world", "child", "hello world", "parent">>}
    BY <1>1 DEF Fork!Output
  <2> QED BY <2>2, <2>3, Printed
<1>2. CASE program = "callexec"
  <2>1. Progress = {<< <<c, e, unreachable>>, greeting>>,
                    << <<e, unreachable>>, greeted>>, << <<unreachable>>, greeted>>, << <<>>, u3>>,
                    << <<w>>, IF tty THEN greeted ELSE <<>> >>, << <<>>, IF tty THEN w3 ELSE <<"wc">> >>}
    BY <1>2 DEF Progress, ChildTodo
  <2>2. s = u3 \/ s = IF tty THEN w3 ELSE <<"wc">>
    <3>1. \A x, y, z : <<x>> # <<>> /\ <<x, y>> # <<>> /\ <<x, y, z>> # <<>>
      OBVIOUS
    <3> HIDE DEF c, e, w, u3, w3
    <3> QED BY <2>1, <3>1
  <2>3. Fork!Output[program] =
          IF tty THEN {<<"hello world", "child", "wc", "parent">>,
                       <<"hello world", "child", "unreachable", "parent">>}
                 ELSE {<<"wc", "hello world", "parent">>,
                       <<"hello world", "child", "unreachable", "hello world", "parent">>}
    BY <1>2 DEF Fork!Output
  <2> QED BY <2>2, <2>3, Printed
<1> QED BY <1>1, <1>2 DEF WaitPrograms

\* process_api: a program that waits for its child prints the same in every
\* interleaving, but for an exec that fails and for where stdout goes, with any
\* bound on the processes that leaves room for the child.
THEOREM WaitDeterminesOutput == WaitArgs => (MCSpec => []WaitMakesDeterministic)
<1> SUFFICES ASSUME WaitArgs PROVE MCSpec => []WaitMakesDeterministic
  OBVIOUS
<1>1. WaitInv => WaitMakesDeterministic
  <2> SUFFICES ASSUME WaitInv, Fork!Ended, program \in DOMAIN Fork!Output
               PROVE  IF state[2] = "none" THEN stdout = greeting
                                           ELSE stdout \in Fork!Output[program]
    BY DEF WaitMakesDeterministic, Fork!WaitMakesDeterministic, stdout, greeting
  <2>1. program \in WaitPrograms
    BY DEF Fork!Output, WaitPrograms
  <2>2. state[1] # "running"
    BY DEF Fork!Ended, Fork!Proc, WaitArgs, ForkArgs
  <2>3. CASE Alone
    BY <2>2, <2>3 DEF Alone
  <2>4. CASE AfterChild
    <3>1. PICK s \in Seq(Wording) : ParentAt(s)
      BY <2>4 DEF AfterChild
    <3>2. /\ << <<>>, s>> \in Progress
          /\ stdout = IF tty THEN Append(s, "parent") ELSE s \o <<"hello world", "parent">>
      BY <2>2, <3>1 DEF ParentAt
    <3>3. stdout \in Fork!Output[program]
      BY <2>1, <3>2, Outcome
    <3>4. state[2] = "reaped"
      BY <2>4 DEF AfterChild
    <3> QED BY <3>3, <3>4
  <2> QED BY <2>1, <2>2, <2>3, <2>4 DEF WaitInv, WithChild
<1> QED BY <1>1, WaitInductive, PTL

-----------------------------------------------------------------------------
(* callexec2: the merge sort of the C library, then the binary search.     *)

Sorted(s) == \A j, k \in 1 .. Len(s) : j <= k => s[j] <= s[k]
Elements(s) == {s[k] : k \in 1 .. Len(s)}

LEMMA ElementsType ==
  ASSUME NEW s \in Seq(Int)
  PROVE  /\ Elements(s) \subseteq Int /\ Len(s) \in Nat
         /\ \A k \in 1 .. Len(s) : s[k] \in Elements(s)
BY DEF Elements

\* A smaller number in front.
LEMMA InFront ==
  ASSUME NEW x \in Int, NEW s \in Seq(Int)
  PROVE  /\ <<x>> \o s \in Seq(Int) /\ Len(<<x>> \o s) = Len(s) + 1
         /\ Elements(<<x>> \o s) = {x} \cup Elements(s)
         /\ Sorted(s) /\ (\A y \in Elements(s) : x <= y) => Sorted(<<x>> \o s)
<1> DEFINE t == <<x>> \o s
<1>1. /\ t \in Seq(Int) /\ Len(t) = Len(s) + 1 /\ Len(s) \in Nat
      /\ \A k \in 1 .. Len(s) + 1 : t[k] = IF k = 1 THEN x ELSE s[k - 1]
  OBVIOUS
<1> HIDE DEF t
<1>2. Elements(t) = {x} \cup Elements(s)
  <2>1. ASSUME NEW k \in 1 .. Len(t) PROVE t[k] \in {x} \cup Elements(s)
    <3>1. k # 1 => k - 1 \in 1 .. Len(s)
      BY <1>1
    <3> QED BY <1>1, <3>1 DEF Elements
  <2>2. x \in Elements(t)
    <3>1. 1 \in 1 .. Len(t) /\ t[1] = x
      BY <1>1
    <3> QED BY <3>1 DEF Elements
  <2>3. ASSUME NEW k \in 1 .. Len(s) PROVE s[k] \in Elements(t)
    <3>1. k + 1 \in 1 .. Len(t) /\ (k + 1) - 1 = k /\ k + 1 # 1
      BY <1>1
    <3>2. t[k + 1] = s[k]
      BY <1>1, <3>1
    <3> QED BY <3>1, <3>2 DEF Elements
  <2> QED BY <2>1, <2>2, <2>3 DEF Elements
<1>3. ASSUME Sorted(s), \A y \in Elements(s) : x <= y PROVE Sorted(t)
  <2> SUFFICES ASSUME NEW j \in 1 .. Len(t), NEW k \in 1 .. Len(t), j <= k PROVE t[j] <= t[k]
    BY DEF Sorted
  <2>1. CASE k = 1
    <3>1. j = 1
      BY <1>1, <2>1
    <3> QED BY <1>1, <2>1, <3>1
  <2>2. CASE k # 1
    <3>1. k - 1 \in 1 .. Len(s) /\ t[k] = s[k - 1]
      BY <1>1, <2>2
    <3>2. CASE j = 1
      BY <1>1, <1>3, <3>1, <3>2 DEF Elements
    <3>3. CASE j # 1
      <4>1. j - 1 \in 1 .. Len(s) /\ t[j] = s[j - 1] /\ j - 1 <= k - 1
        BY <1>1, <3>3
      <4> QED BY <1>3, <3>1, <4>1 DEF Sorted
    <3> QED BY <3>2, <3>3
  <2> QED BY <2>1, <2>2
<1> QED BY <1>1, <1>2, <1>3 DEF t

\* The rest of a sorted list.
LEMMA TailSorted ==
  ASSUME NEW s \in Seq(Int), s # <<>>
  PROVE  /\ s[1] \in Int /\ Tail(s) \in Seq(Int) /\ Len(Tail(s)) + 1 = Len(s)
         /\ Elements(s) = {s[1]} \cup Elements(Tail(s))
         /\ Sorted(s) => Sorted(Tail(s)) /\ \A y \in Elements(s) : s[1] <= y
<1>1. /\ Tail(s) \in Seq(Int) /\ Len(Tail(s)) = Len(s) - 1 /\ Len(s) \in Nat /\ Len(s) # 0
      /\ \A k \in 1 .. Len(s) - 1 : Tail(s)[k] = s[k + 1]
  BY HeadTailProperties, EmptySeq, LenProperties
<1> DEFINE t == Tail(s)
<1> HIDE DEF t
<1>2. 1 \in 1 .. Len(s) /\ s[1] \in Int
  BY <1>1
<1>3. Elements(s) = {s[1]} \cup Elements(t)
  <2>1. ASSUME NEW k \in 1 .. Len(s) PROVE s[k] \in {s[1]} \cup Elements(t)
    <3>1. k # 1 => k - 1 \in 1 .. Len(t) /\ t[k - 1] = s[k]
      BY <1>1 DEF t
    <3> QED BY <3>1 DEF Elements
  <2>2. ASSUME NEW k \in 1 .. Len(t) PROVE t[k] \in Elements(s)
    <3>1. k + 1 \in 1 .. Len(s) /\ t[k] = s[k + 1]
      BY <1>1 DEF t
    <3> QED BY <3>1 DEF Elements
  <2> QED BY <1>2, <2>1, <2>2 DEF Elements
<1>4. ASSUME Sorted(s) PROVE Sorted(t) /\ \A y \in Elements(s) : s[1] <= y
  <2>1. Sorted(t)
    <3> SUFFICES ASSUME NEW j \in 1 .. Len(t), NEW k \in 1 .. Len(t), j <= k PROVE t[j] <= t[k]
      BY DEF Sorted
    <3>1. /\ j + 1 \in 1 .. Len(s) /\ k + 1 \in 1 .. Len(s) /\ j + 1 <= k + 1
          /\ t[j] = s[j + 1] /\ t[k] = s[k + 1]
      BY <1>1 DEF t
    <3> QED BY <1>4, <3>1 DEF Sorted
  <2>2. ASSUME NEW k \in 1 .. Len(s) PROVE s[1] <= s[k]
    BY <1>2, <1>4 DEF Sorted
  <2> QED BY <2>1, <2>2 DEF Elements
<1> QED BY <1>1, <1>2, <1>3, <1>4 DEF t

LEMMA NoElements == Sorted(<<>>) /\ Elements(<<>>) = {}
BY DEF Sorted, Elements

\* The recursive definition of merge holds for the function it defines.
MergeUnfolds ==
  \A a, b \in Seq(Int) :
    Search!merge[<<a, b>>] =
      IF a = <<>> \/ b = <<>> THEN a \o b
      ELSE IF a[1] < b[1] THEN <<a[1]>> \o Search!merge[<<Tail(a), b>>]
                          ELSE <<b[1]>> \o Search!merge[<<a, Tail(b)>>]

\* What merge takes first, and what it leaves.
First(s) == IF s[1][1] < s[2][1] THEN s[1][1] ELSE s[2][1]
Remain(s) == IF s[1][1] < s[2][1] THEN <<Tail(s[1]), s[2]>> ELSE <<s[1], Tail(s[2])>>

LEMMA FirstRemain ==
  ASSUME NEW a \in Seq(Int), NEW b \in Seq(Int), a # <<>>, b # <<>>
  PROVE  LET s == <<a, b>>  t == Remain(s)
         IN  /\ First(s) \in Int /\ t \in Seq(Int) \X Seq(Int)
             /\ Len(t[1]) + Len(t[2]) + 1 = Len(a) + Len(b)
             /\ Len(t[1]) \in Nat /\ Len(t[2]) \in Nat
<1>1. /\ Tail(a) \in Seq(Int) /\ Len(Tail(a)) + 1 = Len(a) /\ Len(Tail(a)) \in Nat /\ a[1] \in Int
      /\ Tail(b) \in Seq(Int) /\ Len(Tail(b)) + 1 = Len(b) /\ Len(Tail(b)) \in Nat /\ b[1] \in Int
      /\ Len(a) \in Nat /\ Len(b) \in Nat
  BY TailSorted, LenProperties
<1>2. CASE a[1] < b[1]
  <2>1. First(<<a, b>>) = a[1] /\ Remain(<<a, b>>) = <<Tail(a), b>>
    BY <1>2 DEF First, Remain
  <2>2. /\ <<Tail(a), b>> \in Seq(Int) \X Seq(Int)
        /\ <<Tail(a), b>>[1] = Tail(a) /\ <<Tail(a), b>>[2] = b
    BY <1>1
  <2>3. Len(Tail(a)) + Len(b) + 1 = Len(a) + Len(b)
    BY <1>1
  <2> QED BY <1>1, <2>1, <2>2, <2>3
<1>3. CASE ~(a[1] < b[1])
  <2>1. First(<<a, b>>) = b[1] /\ Remain(<<a, b>>) = <<a, Tail(b)>>
    BY <1>3 DEF First, Remain
  <2>2. /\ <<a, Tail(b)>> \in Seq(Int) \X Seq(Int)
        /\ <<a, Tail(b)>>[1] = a /\ <<a, Tail(b)>>[2] = Tail(b)
    BY <1>1
  <2>3. Len(a) + Len(Tail(b)) + 1 = Len(a) + Len(b)
    BY <1>1
  <2> QED BY <1>1, <2>1, <2>2, <2>3
<1> QED BY <1>2, <1>3

LEMMA MergeExists == MergeUnfolds
<1> DEFINE V == Seq(Int)
           D == V \X V
           r == [s \in D |-> Len(s[1]) + Len(s[2])]
           Body(h, s) == IF s[1] = <<>> \/ s[2] = <<>> THEN s[1] \o s[2] ELSE <<First(s)>> \o h[Remain(s)]
           G == [x \in D \X [D -> V] |-> Body(x[2], x[1])]
<1>0. ASSUME NEW s \in D
      PROVE  /\ s[1] \in V /\ s[2] \in V /\ s = <<s[1], s[2]>>
             /\ Len(s[1]) + Len(s[2]) \in Nat /\ r[s] = Len(s[1]) + Len(s[2])
  <2>1. s[1] \in V /\ s[2] \in V /\ s = <<s[1], s[2]>>
    OBVIOUS
  <2>2. Len(s[1]) \in Nat /\ Len(s[2]) \in Nat
    BY <2>1, LenProperties
  <2>3. Len(s[1]) + Len(s[2]) \in Nat
    BY <2>2
  <2>4. r[s] = Len(s[1]) + Len(s[2])
    <3> HIDE DEF D
    <3> QED OBVIOUS
  <2> QED BY <2>1, <2>3, <2>4
<1>1. ASSUME NEW s \in D, s[1] # <<>>, s[2] # <<>>
      PROVE  Remain(s) \in D /\ r[Remain(s)] < r[s] /\ First(s) \in Int
  <2>1. /\ First(s) \in Int /\ Remain(s) \in D
        /\ Len(Remain(s)[1]) + Len(Remain(s)[2]) + 1 = Len(s[1]) + Len(s[2])
        /\ Len(Remain(s)[1]) \in Nat /\ Len(Remain(s)[2]) \in Nat
    <3> HIDE DEF r
    <3>1. s[1] \in Seq(Int) /\ s[2] \in Seq(Int) /\ s = <<s[1], s[2]>>
      BY <1>0
    <3> QED BY <1>1, <3>1, FirstRemain, Zenon
  <2>2. r[Remain(s)] = Len(Remain(s)[1]) + Len(Remain(s)[2]) /\ r[s] = Len(s[1]) + Len(s[2])
    <3> HIDE DEF r, D
    <3> QED BY <1>0, <2>1, Zenon
  <2>3. \A k, l, m \in Nat : k + l + 1 = m => k + l < m
    OBVIOUS
  <2>4. Len(Remain(s)[1]) + Len(Remain(s)[2]) < Len(s[1]) + Len(s[2])
    BY <1>0, <2>1, <2>3
  <2> HIDE DEF r, D
  <2> QED BY <2>1, <2>2, <2>4
<1>2. r \in [D -> Nat]
  <2> HIDE DEF D
  <2> QED BY <1>0
<1>3. \A x \in D : \A h \in [D -> V] : G[<<x, h>>] = Body(h, x)
  <2> HIDE DEF Body, D, V
  <2> QED OBVIOUS
<1>4. \A x \in D : \A h \in [D -> V] : G[<<x, h>>] \in V
  <2> SUFFICES ASSUME NEW x \in D, NEW h \in [D -> V] PROVE Body(h, x) \in V
    <3> HIDE DEF Body, D, V, G
    <3> QED BY <1>3
  <2>1. CASE x[1] = <<>> \/ x[2] = <<>>
    <3>1. x[1] \in V /\ x[2] \in V
      OBVIOUS
    <3> QED BY <2>1, <3>1, ConcatProperties
  <2>2. CASE ~(x[1] = <<>> \/ x[2] = <<>>)
    <3>1. Remain(x) \in D /\ First(x) \in Int
      BY <1>1, <2>2
    <3>2. h[Remain(x)] \in V
      <4> HIDE DEF D, V
      <4> QED BY <3>1
    <3>3. <<First(x)>> \o h[Remain(x)] \in V
      BY <3>1, <3>2, InFront
    <3> QED BY <2>2, <3>3
  <2> QED BY <2>1, <2>2
<1>5. LooksBelow(D, V, r, G)
  <2>1. ASSUME NEW x \in D, NEW g \in [D -> V], NEW h \in [D -> V],
               \A y \in D : r[y] < r[x] => g[y] = h[y]
        PROVE  Body(g, x) = Body(h, x)
    <3>1. CASE x[1] = <<>> \/ x[2] = <<>>
      BY <3>1
    <3>2. CASE ~(x[1] = <<>> \/ x[2] = <<>>)
      <4>1. g[Remain(x)] = h[Remain(x)]
        <5> HIDE DEF D, V, r
        <5> QED BY <1>1, <2>1, <3>2
      <4> HIDE DEF D, V, r
      <4> QED BY <3>2, <4>1
    <3> QED BY <3>1, <3>2
  <2> HIDE DEF D, V, r, G, Body
  <2> QED BY <1>3, <2>1 DEF LooksBelow
<1>6. V # {}
  BY EmptySeq
<1>7. Solvable(D, V, G)
  <2>1. Recursion(D, V, r, G)
    <3> HIDE DEF D, V, r, G
    <3> QED BY <1>2, <1>4, <1>5, <1>6 DEF Recursion
  <2> HIDE DEF D, V, r, G
  <2> QED BY <2>1, RecursionExists, Zenon
<1>8. PICK h \in [D -> V] : \A x \in D : h[x] = Body(h, x)
  <2> HIDE DEF D, V, Body, G
  <2> QED BY <1>3, <1>7 DEF Solvable
<1> DEFINE Good(f) == f = [s \in D |->
             LET a == s[1]  b == s[2]
             IN  IF a = <<>> \/ b = <<>> THEN a \o b
                 ELSE IF Search!cmpfunc(a[1], b[1]) <= 0 THEN <<a[1]>> \o f[<<Tail(a), b>>]
                                                         ELSE <<b[1]>> \o f[<<a, Tail(b)>>]]
<1>9. Search!merge = CHOOSE f : Good(f)
  BY Zenon DEF Search!merge
<1>10. \A f : \A s \in D : Body(f, s) =
             LET a == s[1]  b == s[2]
             IN  IF a = <<>> \/ b = <<>> THEN a \o b
                 ELSE IF Search!cmpfunc(a[1], b[1]) <= 0 THEN <<a[1]>> \o f[<<Tail(a), b>>]
                                                         ELSE <<b[1]>> \o f[<<a, Tail(b)>>]
  <2> HIDE DEF D
  <2>1. \A x, y : (Search!cmpfunc(x, y) <= 0) = (x < y)
    BY DEF Search!cmpfunc
  <2> QED BY <2>1 DEF First, Remain
<1>11. Good(h)
  <2> HIDE DEF D, V, Body
  <2> QED BY <1>8, <1>10
<1>12. Good(Search!merge)
  <2> HIDE DEF Good
  <2> QED BY <1>9, <1>11, Zenon
<1>13. \A s \in D : Search!merge[s] = Body(Search!merge, s)
  <2> HIDE DEF D, Body
  <2> QED BY <1>10, <1>12
<1> SUFFICES ASSUME NEW a \in V, NEW b \in V
             PROVE  Search!merge[<<a, b>>] = Body(Search!merge, <<a, b>>)
  BY DEF MergeUnfolds, First, Remain
<1> QED BY <1>13

\* What merge makes of two lists.
Merged(a, b, m) ==
  /\ m \in Seq(Int) /\ Len(m) = Len(a) + Len(b)
  /\ Elements(m) = Elements(a) \cup Elements(b)
  /\ Sorted(a) /\ Sorted(b) => Sorted(m)

LEMMA MergeCorrect == \A a, b \in Seq(Int) : Merged(a, b, Search!merge[<<a, b>>])
<1> DEFINE Q == {n \in Nat : \A a, b \in Seq(Int) :
                               Len(a) + Len(b) = n => Merged(a, b, Search!merge[<<a, b>>])}
<1>1. ASSUME NEW a \in Seq(Int), NEW b \in Seq(Int), a = <<>> \/ b = <<>>
      PROVE  Merged(a, b, Search!merge[<<a, b>>])
  <2>1. Search!merge[<<a, b>>] = a \o b
    BY <1>1, MergeExists DEF MergeUnfolds
  <2>2. CASE a = <<>>
    <3>1. Search!merge[<<a, b>>] = b
      BY <2>1, <2>2
    <3> QED BY <2>2, <3>1, NoElements DEF Merged
  <2>3. CASE b = <<>>
    <3>1. Search!merge[<<a, b>>] = a
      BY <2>1, <2>3
    <3> QED BY <2>3, <3>1, NoElements DEF Merged
  <2> QED BY <1>1, <2>2, <2>3
<1>2. 0 \in Q
  <2> SUFFICES ASSUME NEW a \in Seq(Int), NEW b \in Seq(Int), Len(a) + Len(b) = 0
               PROVE  a = <<>>
    BY <1>1
  <2>1. Len(a) = 0
    BY LenProperties
  <2> QED BY <2>1
<1>3. ASSUME NEW n \in Nat, n \in Q PROVE n + 1 \in Q
  <2> SUFFICES ASSUME NEW a \in Seq(Int), NEW b \in Seq(Int), Len(a) + Len(b) = n + 1,
                      a # <<>>, b # <<>>
               PROVE  Merged(a, b, Search!merge[<<a, b>>])
    BY <1>1
  <2>1. /\ a[1] \in Int /\ Tail(a) \in Seq(Int) /\ Len(Tail(a)) + 1 = Len(a)
        /\ Elements(a) = {a[1]} \cup Elements(Tail(a))
        /\ Sorted(a) => Sorted(Tail(a)) /\ \A y \in Elements(a) : a[1] <= y
    BY TailSorted
  <2>2. /\ b[1] \in Int /\ Tail(b) \in Seq(Int) /\ Len(Tail(b)) + 1 = Len(b)
        /\ Elements(b) = {b[1]} \cup Elements(Tail(b))
        /\ Sorted(b) => Sorted(Tail(b)) /\ \A y \in Elements(b) : b[1] <= y
    BY TailSorted
  <2>3. /\ Len(a) \in Nat /\ Len(b) \in Nat /\ Len(Tail(a)) \in Nat /\ Len(Tail(b)) \in Nat
        /\ Elements(a) \subseteq Int /\ Elements(b) \subseteq Int
    BY <2>1, <2>2, ElementsType
  <2>4. CASE a[1] < b[1]
    <3> DEFINE m == Search!merge[<<Tail(a), b>>]
    <3>1. Search!merge[<<a, b>>] = <<a[1]>> \o m
      BY <2>4, MergeExists DEF MergeUnfolds
    <3>2. Len(Tail(a)) + Len(b) = n
      BY <2>1, <2>3
    <3>3. Merged(Tail(a), b, m)
      BY <1>3, <2>1, <3>2
    <3> HIDE DEF m
    <3>4. /\ m \in Seq(Int) /\ Len(m) = Len(Tail(a)) + Len(b)
          /\ Elements(m) = Elements(Tail(a)) \cup Elements(b)
          /\ Sorted(Tail(a)) /\ Sorted(b) => Sorted(m)
      BY <3>3 DEF Merged
    <3>5. /\ <<a[1]>> \o m \in Seq(Int) /\ Len(<<a[1]>> \o m) = Len(m) + 1
          /\ Elements(<<a[1]>> \o m) = {a[1]} \cup Elements(m)
          /\ Sorted(m) /\ (\A y \in Elements(m) : a[1] <= y) => Sorted(<<a[1]>> \o m)
      BY <2>1, <3>4, InFront
    <3>6. ASSUME Sorted(a), Sorted(b) PROVE Sorted(<<a[1]>> \o m)
      <4>1. ASSUME NEW y \in Elements(b) PROVE a[1] <= y
        <5>1. b[1] <= y /\ y \in Int
          BY <2>2, <2>3, <3>6, <4>1
        <5> QED BY <2>1, <2>2, <2>4, <5>1
      <4>2. \A y \in Elements(m) : a[1] <= y
        BY <2>1, <3>4, <3>6, <4>1
      <4> QED BY <2>1, <3>4, <3>5, <3>6, <4>2
    <3>7. Len(<<a[1]>> \o m) = Len(a) + Len(b)
      BY <2>1, <2>3, <3>4, <3>5
    <3>8. Elements(<<a[1]>> \o m) = Elements(a) \cup Elements(b)
      BY <2>1, <3>4, <3>5
    <3> QED BY <3>1, <3>5, <3>6, <3>7, <3>8 DEF Merged
  <2>5. CASE ~(a[1] < b[1])
    <3> DEFINE m == Search!merge[<<a, Tail(b)>>]
    <3>1. Search!merge[<<a, b>>] = <<b[1]>> \o m
      BY <2>5, MergeExists DEF MergeUnfolds
    <3>2. Len(a) + Len(Tail(b)) = n
      BY <2>2, <2>3
    <3>3. Merged(a, Tail(b), m)
      BY <1>3, <2>2, <3>2
    <3> HIDE DEF m
    <3>4. /\ m \in Seq(Int) /\ Len(m) = Len(a) + Len(Tail(b))
          /\ Elements(m) = Elements(a) \cup Elements(Tail(b))
          /\ Sorted(a) /\ Sorted(Tail(b)) => Sorted(m)
      BY <3>3 DEF Merged
    <3>5. /\ <<b[1]>> \o m \in Seq(Int) /\ Len(<<b[1]>> \o m) = Len(m) + 1
          /\ Elements(<<b[1]>> \o m) = {b[1]} \cup Elements(m)
          /\ Sorted(m) /\ (\A y \in Elements(m) : b[1] <= y) => Sorted(<<b[1]>> \o m)
      BY <2>2, <3>4, InFront
    <3>6. ASSUME Sorted(a), Sorted(b) PROVE Sorted(<<b[1]>> \o m)
      <4>1. ASSUME NEW y \in Elements(a) PROVE b[1] <= y
        <5>1. a[1] <= y /\ y \in Int
          BY <2>1, <2>3, <3>6, <4>1
        <5> QED BY <2>1, <2>2, <2>5, <5>1
      <4>2. \A y \in Elements(m) : b[1] <= y
        BY <2>2, <3>4, <3>6, <4>1
      <4> QED BY <2>2, <3>4, <3>5, <3>6, <4>2
    <3>7. Len(<<b[1]>> \o m) = Len(a) + Len(b)
      BY <2>2, <2>3, <3>4, <3>5
    <3>8. Elements(<<b[1]>> \o m) = Elements(a) \cup Elements(b)
      BY <2>2, <3>4, <3>5
    <3> QED BY <3>1, <3>5, <3>6, <3>7, <3>8 DEF Merged
  <2> QED BY <2>4, <2>5
<1>4. Nat \subseteq Q
  <2> HIDE DEF Q
  <2> QED BY <1>2, <1>3, NatSetInduction
<1> SUFFICES ASSUME NEW a \in Seq(Int), NEW b \in Seq(Int)
             PROVE  Merged(a, b, Search!merge[<<a, b>>])
  OBVIOUS
<1>5. Len(a) + Len(b) \in Nat
  BY LenProperties
<1> QED BY <1>4, <1>5

\* The halves that are sorted on their own.
Half1(v) == SubSeq(v, 1, Len(v) \div 2)
Half2(v) == SubSeq(v, Len(v) \div 2 + 1, Len(v))

LEMMA Halves ==
  ASSUME NEW v \in Seq(Int), ~(Len(v) <= 1)
  PROVE  /\ Half1(v) \in Seq(Int) /\ Half2(v) \in Seq(Int)
         /\ Len(Half1(v)) \in Nat /\ Len(Half2(v)) \in Nat /\ Len(v) \in Nat
         /\ Len(Half1(v)) + Len(Half2(v)) = Len(v)
         /\ Len(Half1(v)) < Len(v) /\ Len(Half2(v)) < Len(v)
         /\ Elements(v) = Elements(Half1(v)) \cup Elements(Half2(v))
<1> DEFINE h == Len(v) \div 2
<1>1. h \in Nat /\ 1 <= h /\ h < Len(v) /\ Len(v) \in Nat
  OBVIOUS
<1>2. /\ Half1(v) \in Seq(Int) /\ Len(Half1(v)) = h
      /\ \A k \in 1 .. h : Half1(v)[k] = v[k]
  <2> HIDE DEF h
  <2>1. Half1(v) = SubSeq(v, 1, h)
    BY DEF Half1, h
  <2> QED BY <1>1, <2>1
<1>3. /\ Half2(v) \in Seq(Int) /\ Len(Half2(v)) = Len(v) - h
      /\ \A k \in 1 .. Len(v) - h : Half2(v)[k] = v[k + h]
  <2> HIDE DEF h
  <2>1. Half2(v) = SubSeq(v, h + 1, Len(v))
    BY DEF Half2, h
  <2>2. \A k \in 1 .. Len(v) - h : k + h \in 1 .. Len(v) /\ (h + 1) + k - 1 = k + h
    BY <1>1
  <2> QED BY <1>1, <2>1, <2>2
<1> HIDE DEF h
<1>4. ASSUME NEW k \in 1 .. Len(v) PROVE v[k] \in Elements(Half1(v)) \cup Elements(Half2(v))
  <2>1. CASE k <= h
    BY <1>1, <1>2, <2>1 DEF Elements
  <2>2. CASE ~(k <= h)
    <3>1. k - h \in 1 .. Len(v) - h /\ (k - h) + h = k
      BY <1>1, <2>2
    <3> QED BY <1>3, <3>1 DEF Elements
  <2> QED BY <2>1, <2>2
<1>5. ASSUME NEW k \in 1 .. h PROVE v[k] \in Elements(v)
  BY <1>1 DEF Elements
<1>6. ASSUME NEW k \in 1 .. Len(v) - h PROVE v[k + h] \in Elements(v)
  <2>1. k + h \in 1 .. Len(v)
    BY <1>1
  <2> QED BY <2>1 DEF Elements
<1>7. Elements(v) = Elements(Half1(v)) \cup Elements(Half2(v))
  <2>1. Elements(v) \subseteq Elements(Half1(v)) \cup Elements(Half2(v))
    BY <1>4 DEF Elements
  <2>2. Elements(Half1(v)) \subseteq Elements(v)
    <3>1. Elements(Half1(v)) = {v[k] : k \in 1 .. h}
      BY <1>2 DEF Elements
    <3> QED BY <1>5, <3>1
  <2>3. Elements(Half2(v)) \subseteq Elements(v)
    <3>1. Elements(Half2(v)) = {v[k + h] : k \in 1 .. Len(v) - h}
      BY <1>3 DEF Elements
    <3> QED BY <1>6, <3>1
  <2> QED BY <2>1, <2>2, <2>3
<1> QED BY <1>1, <1>2, <1>3, <1>7

\* The recursive definition of qsort holds for the function it defines.
QsortUnfolds ==
  \A v \in Seq(Int) :
    Search!qsort[v] = IF Len(v) <= 1 THEN v
                      ELSE Search!merge[<<Search!qsort[Half1(v)], Search!qsort[Half2(v)]>>]

LEMMA QsortExists == QsortUnfolds
<1> DEFINE V == Seq(Int)
           r == [v \in V |-> Len(v)]
           Body(h, v) == IF Len(v) <= 1 THEN v ELSE Search!merge[<<h[Half1(v)], h[Half2(v)]>>]
           G == [x \in V \X [V -> V] |-> Body(x[2], x[1])]
<1>1. \A v \in V : r[v] = Len(v) /\ Len(v) \in Nat
  BY LenProperties
<1>2. r \in [V -> Nat]
  BY <1>1
<1>3. \A x \in V : \A h \in [V -> V] : G[<<x, h>>] = Body(h, x)
  <2> HIDE DEF Body, V
  <2> QED OBVIOUS
<1>4. ASSUME NEW v \in V, ~(Len(v) <= 1)
      PROVE  /\ Half1(v) \in V /\ Half2(v) \in V
             /\ r[Half1(v)] < r[v] /\ r[Half2(v)] < r[v]
  <2>1. /\ Half1(v) \in V /\ Half2(v) \in V
        /\ Len(Half1(v)) < Len(v) /\ Len(Half2(v)) < Len(v)
    BY <1>4, Halves
  <2> HIDE DEF V, r
  <2> QED BY <1>1, <2>1
<1>5. \A x \in V : \A h \in [V -> V] : G[<<x, h>>] \in V
  <2>1. ASSUME NEW x \in V, NEW h \in [V -> V] PROVE Body(h, x) \in V
    <3>1. CASE ~(Len(x) <= 1)
      <4>1. h[Half1(x)] \in V /\ h[Half2(x)] \in V
        <5> HIDE DEF V, r
        <5> QED BY <1>4, <3>1
      <4>2. Search!merge[<<h[Half1(x)], h[Half2(x)]>>] \in V
        BY <4>1, MergeCorrect DEF Merged
      <4> QED BY <3>1, <4>2
    <3> QED BY <3>1
  <2> HIDE DEF Body, V, G
  <2> QED BY <1>3, <2>1
<1>6. LooksBelow(V, V, r, G)
  <2>1. ASSUME NEW x \in V, NEW g \in [V -> V], NEW h \in [V -> V],
               \A y \in V : r[y] < r[x] => g[y] = h[y]
        PROVE  Body(g, x) = Body(h, x)
    <3>1. CASE ~(Len(x) <= 1)
      <4>1. g[Half1(x)] = h[Half1(x)] /\ g[Half2(x)] = h[Half2(x)]
        <5> HIDE DEF V, r
        <5> QED BY <1>4, <2>1, <3>1
      <4> HIDE DEF V, r
      <4> QED BY <3>1, <4>1
    <3> QED BY <3>1
  <2> HIDE DEF V, r, G, Body
  <2> QED BY <1>3, <2>1 DEF LooksBelow
<1>7. V # {}
  BY EmptySeq
<1>8. Solvable(V, V, G)
  <2>1. Recursion(V, V, r, G)
    <3> HIDE DEF V, r, G
    <3> QED BY <1>2, <1>5, <1>6, <1>7 DEF Recursion
  <2> HIDE DEF V, r, G
  <2> QED BY <2>1, RecursionExists, Zenon
<1>9. PICK h \in [V -> V] : \A x \in V : h[x] = Body(h, x)
  <2> HIDE DEF V, Body, G
  <2> QED BY <1>3, <1>8 DEF Solvable
<1> DEFINE Good(f) == f = [v \in V |->
             IF Len(v) <= 1 THEN v
             ELSE LET half == Len(v) \div 2
                  IN  Search!merge[<<f[SubSeq(v, 1, half)], f[SubSeq(v, half + 1, Len(v))]>>]]
<1>10. Search!qsort = CHOOSE f : Good(f)
  BY Zenon DEF Search!qsort
<1>11. \A f : \A v \in V : Body(f, v) =
             IF Len(v) <= 1 THEN v
             ELSE LET half == Len(v) \div 2
                  IN  Search!merge[<<f[SubSeq(v, 1, half)], f[SubSeq(v, half + 1, Len(v))]>>]
  <2> HIDE DEF V
  <2> QED BY DEF Half1, Half2
<1>12. Good(h)
  <2> HIDE DEF V, Body
  <2> QED BY <1>9, <1>11
<1>13. Good(Search!qsort)
  <2> HIDE DEF Good
  <2> QED BY <1>10, <1>12, Zenon
<1>14. \A v \in V : Search!qsort[v] = Body(Search!qsort, v)
  <2> HIDE DEF V, Body
  <2> QED BY <1>11, <1>13
<1> QED BY <1>14 DEF QsortUnfolds

\* The numbers in order: as many of them, the same ones.
SortedFrom(v, s) ==
  s \in Seq(Int) /\ Len(s) = Len(v) /\ Elements(s) = Elements(v) /\ Sorted(s)

LEMMA QsortCorrect == \A v \in Seq(Int) : SortedFrom(v, Search!qsort[v])
<1> DEFINE Q == {n \in Nat : \A v \in Seq(Int) : Len(v) <= n => SortedFrom(v, Search!qsort[v])}
<1>1. ASSUME NEW v \in Seq(Int), Len(v) <= 1 PROVE SortedFrom(v, Search!qsort[v])
  <2>1. Search!qsort[v] = v
    BY <1>1, QsortExists DEF QsortUnfolds
  <2>2. \A j, k \in 1 .. Len(v) : v[j] \in Int /\ j = k
    BY <1>1
  <2>3. Sorted(v)
    BY <2>2 DEF Sorted
  <2> QED BY <2>1, <2>3 DEF SortedFrom
<1>2. 0 \in Q
  BY <1>1
<1>3. ASSUME NEW n \in Nat, n \in Q PROVE n + 1 \in Q
  <2> SUFFICES ASSUME NEW v \in Seq(Int), Len(v) <= n + 1, ~(Len(v) <= 1)
               PROVE  SortedFrom(v, Search!qsort[v])
    BY <1>1
  <2>1. /\ Half1(v) \in Seq(Int) /\ Half2(v) \in Seq(Int)
        /\ Len(Half1(v)) \in Nat /\ Len(Half2(v)) \in Nat /\ Len(v) \in Nat
        /\ Len(Half1(v)) + Len(Half2(v)) = Len(v)
        /\ Len(Half1(v)) < Len(v) /\ Len(Half2(v)) < Len(v)
        /\ Elements(v) = Elements(Half1(v)) \cup Elements(Half2(v))
    BY Halves
  <2>2. Len(Half1(v)) <= n /\ Len(Half2(v)) <= n
    BY <2>1
  <2> DEFINE a == Search!qsort[Half1(v)]
             b == Search!qsort[Half2(v)]
  <2>3. SortedFrom(Half1(v), a) /\ SortedFrom(Half2(v), b)
    BY <1>3, <2>1, <2>2
  <2>4. Search!qsort[v] = Search!merge[<<a, b>>]
    BY QsortExists DEF QsortUnfolds
  <2> HIDE DEF a, b
  <2>5. Merged(a, b, Search!merge[<<a, b>>])
    BY <2>3, MergeCorrect DEF SortedFrom
  <2> QED BY <2>1, <2>3, <2>4, <2>5 DEF SortedFrom, Merged
<1>4. Nat \subseteq Q
  <2> HIDE DEF Q
  <2> QED BY <1>2, <1>3, NatSetInduction
<1> SUFFICES ASSUME NEW v \in Seq(Int) PROVE SortedFrom(v, Search!qsort[v])
  OBVIOUS
<1>5. Len(v) \in Nat /\ Len(v) <= Len(v)
  BY LenProperties
<1> QED BY <1>4, <1>5

\* The loop of binsearch from low and high on, as the function h does it.
SearchUnfolds(h, x, v, n) ==
  \A low \in 0 .. n, high \in -1 .. n - 1 :
    h[<<low, high>>] =
      LET mid == (low + high) \div 2
      IN  IF low > high THEN -1
          ELSE IF x < v[mid + 1] THEN h[<<low, mid - 1>>]
          ELSE IF x > v[mid + 1] THEN h[<<mid + 1, high>>]
          ELSE mid

Halving(x, v, n) == \E h : SearchUnfolds(h, x, v, n) /\ Search!binsearch(x, v, n) = h[<<0, n - 1>>]

\* The middle of a window, and what is left of the window on either side.
LEMMA Middle ==
  ASSUME NEW n \in Nat, NEW low \in 0 .. n, NEW high \in -1 .. n - 1, ~(low > high)
  PROVE  LET mid == (low + high) \div 2
         IN  /\ mid \in 0 .. n - 1 /\ low <= mid /\ mid <= high
             /\ mid - 1 \in -1 .. n - 1 /\ mid + 1 \in 0 .. n
OBVIOUS

LEMMA SearchExists ==
  ASSUME NEW n \in Nat, NEW x \in Int, NEW v \in Seq(Int), Len(v) = n
  PROVE  Halving(x, v, n)
<1> DEFINE D == (0 .. n) \X (-1 .. n - 1)
           V == -1 .. n
           r == [s \in D |-> IF s[1] > s[2] THEN 0 ELSE s[2] - s[1] + 1]
           Mid(s) == (s[1] + s[2]) \div 2
           Body(h, s) == IF s[1] > s[2] THEN -1
                         ELSE IF x < v[Mid(s) + 1] THEN h[<<s[1], Mid(s) - 1>>]
                         ELSE IF x > v[Mid(s) + 1] THEN h[<<Mid(s) + 1, s[2]>>]
                         ELSE Mid(s)
           G == [y \in D \X [D -> V] |-> Body(y[2], y[1])]
<1>1. \A s \in D : s[1] \in 0 .. n /\ s[2] \in -1 .. n - 1 /\ s = <<s[1], s[2]>>
  OBVIOUS
<1>2. \A low \in 0 .. n, high \in -1 .. n - 1 :
        <<low, high>> \in D /\ r[<<low, high>>] = IF low > high THEN 0 ELSE high - low + 1
  OBVIOUS
<1>3. r \in [D -> Nat]
  <2>1. ASSUME NEW s \in D PROVE (IF s[1] > s[2] THEN 0 ELSE s[2] - s[1] + 1) \in Nat
    <3>1. s[1] \in 0 .. n /\ s[2] \in -1 .. n - 1
      BY <1>1
    <3> HIDE DEF D
    <3> QED BY <3>1
  <2> HIDE DEF D
  <2> QED BY <2>1
<1>4. \A s \in D : \A h \in [D -> V] : G[<<s, h>>] = Body(h, s)
  <2> HIDE DEF Body, D, V
  <2> QED OBVIOUS
<1>5. ASSUME NEW s \in D, ~(s[1] > s[2])
      PROVE  /\ <<s[1], Mid(s) - 1>> \in D /\ r[<<s[1], Mid(s) - 1>>] < r[s]
             /\ <<Mid(s) + 1, s[2]>> \in D /\ r[<<Mid(s) + 1, s[2]>>] < r[s]
             /\ Mid(s) \in V
  <2>1. PICK low \in 0 .. n, high \in -1 .. n - 1 : s[1] = low /\ s[2] = high /\ s = <<low, high>>
    BY <1>1
  <2>2. PICK mid : mid = Mid(s)
    OBVIOUS
  <2>3. /\ mid \in 0 .. n - 1 /\ low <= mid /\ mid <= high
        /\ mid - 1 \in -1 .. n - 1 /\ mid + 1 \in 0 .. n /\ ~(low > high)
    BY <1>5, <2>1, <2>2, Middle
  <2> HIDE DEF r, D, Mid
  <2>4. /\ <<low, mid - 1>> \in D
        /\ r[<<low, mid - 1>>] = IF low > mid - 1 THEN 0 ELSE (mid - 1) - low + 1
    BY <1>2, <2>3
  <2>5. /\ <<mid + 1, high>> \in D
        /\ r[<<mid + 1, high>>] = IF mid + 1 > high THEN 0 ELSE high - (mid + 1) + 1
    BY <1>2, <2>3
  <2>6. r[s] = high - low + 1
    BY <1>2, <2>1, <2>3
  <2>7. r[<<low, mid - 1>>] < r[s] /\ r[<<mid + 1, high>>] < r[s]
    <3>1. /\ (IF low > mid - 1 THEN 0 ELSE (mid - 1) - low + 1) < high - low + 1
          /\ (IF mid + 1 > high THEN 0 ELSE high - (mid + 1) + 1) < high - low + 1
      BY <2>3
    <3> QED BY <2>4, <2>5, <2>6, <3>1, Zenon
  <2>8. mid \in V
    BY <2>3
  <2> QED BY <2>1, <2>2, <2>4, <2>5, <2>7, <2>8
<1>6. \A s \in D : \A h \in [D -> V] : G[<<s, h>>] \in V
  <2>1. ASSUME NEW s \in D, NEW h \in [D -> V] PROVE Body(h, s) \in V
    <3>1. CASE s[1] > s[2]
      <4>1. -1 \in V
        OBVIOUS
      <4> HIDE DEF V, D
      <4> QED BY <3>1, <4>1
    <3>2. CASE ~(s[1] > s[2])
      <4>1. h[<<s[1], Mid(s) - 1>>] \in V /\ h[<<Mid(s) + 1, s[2]>>] \in V /\ Mid(s) \in V
        <5> HIDE DEF V, D, r, Mid
        <5> QED BY <1>5, <3>2
      <4> HIDE DEF V, D, Mid
      <4> QED BY <3>2, <4>1
    <3> QED BY <3>1, <3>2
  <2> HIDE DEF Body, D, V, G
  <2> QED BY <1>4, <2>1
<1>7. LooksBelow(D, V, r, G)
  <2>1. ASSUME NEW s \in D, NEW g \in [D -> V], NEW h \in [D -> V],
               \A y \in D : r[y] < r[s] => g[y] = h[y]
        PROVE  Body(g, s) = Body(h, s)
    <3>1. CASE ~(s[1] > s[2])
      <4>1. /\ g[<<s[1], Mid(s) - 1>>] = h[<<s[1], Mid(s) - 1>>]
            /\ g[<<Mid(s) + 1, s[2]>>] = h[<<Mid(s) + 1, s[2]>>]
        <5> HIDE DEF D, V, r, Mid
        <5> QED BY <1>5, <2>1, <3>1
      <4> HIDE DEF D, V, r, Mid
      <4> QED BY <4>1
    <3> HIDE DEF D, V, r, Mid
    <3> QED BY <3>1
  <2> HIDE DEF D, V, r, G, Body
  <2> QED BY <1>4, <2>1 DEF LooksBelow
<1>8. V # {}
  <2>1. -1 \in V
    OBVIOUS
  <2> QED BY <2>1
<1>9. Solvable(D, V, G)
  <2>1. Recursion(D, V, r, G)
    <3> HIDE DEF D, V, r, G
    <3> QED BY <1>3, <1>6, <1>7, <1>8 DEF Recursion
  <2> HIDE DEF D, V, r, G
  <2> QED BY <2>1, RecursionExists, Zenon
<1>10. PICK h \in [D -> V] : \A s \in D : h[s] = Body(h, s)
  <2> HIDE DEF D, V, Body, G
  <2> QED BY <1>4, <1>9 DEF Solvable
<1> DEFINE Good(f) == f = [s \in D |->
             LET low == s[1]  high == s[2]  mid == (low + high) \div 2
             IN  IF low > high THEN -1
                 ELSE IF x < v[mid + 1] THEN f[<<low, mid - 1>>]
                 ELSE IF x > v[mid + 1] THEN f[<<mid + 1, high>>]
                 ELSE mid]
           found0 == CHOOSE f : Good(f)
<1>11. Search!binsearch(x, v, n) = found0[<<0, n - 1>>]
  BY Zenon DEF Search!binsearch
<1>12. \A f : \A s \in D : Body(f, s) =
             LET low == s[1]  high == s[2]  mid == (low + high) \div 2
             IN  IF low > high THEN -1
                 ELSE IF x < v[mid + 1] THEN f[<<low, mid - 1>>]
                 ELSE IF x > v[mid + 1] THEN f[<<mid + 1, high>>]
                 ELSE mid
  <2> HIDE DEF D
  <2> QED OBVIOUS
<1>13. Good(h)
  <2> HIDE DEF D, V, Body
  <2> QED BY <1>10, <1>12
<1>14. Good(found0)
  <2> HIDE DEF Good
  <2> QED BY <1>13, Zenon
<1>15. \A s \in D : found0[s] = Body(found0, s)
  <2> HIDE DEF D, Body, found0
  <2> QED BY <1>12, <1>14
<1>16. SearchUnfolds(found0, x, v, n)
  <2> HIDE DEF found0
  <2> SUFFICES ASSUME NEW low \in 0 .. n, NEW high \in -1 .. n - 1
               PROVE  found0[<<low, high>>] = Body(found0, <<low, high>>)
    BY DEF SearchUnfolds
  <2> QED BY <1>15
<1> HIDE DEF found0
<1> QED BY <1>11, <1>16 DEF Halving

\* Where the window may end and what the search may then say.
Answers(x, v, n, res) ==
  \/ res = -1 /\ x \notin Elements(v)
  \/ res \in 0 .. n - 1 /\ v[res + 1] = x

\* In an array in any order, what the loop finds is there.
LEMMA BinsearchSound ==
  ASSUME NEW n \in Nat, NEW x \in Int, NEW v \in Seq(Int), Len(v) = n,
         NEW res, res = Search!binsearch(x, v, n), res # -1
  PROVE  res \in 0 .. n - 1 /\ v[res + 1] = x
<1>1. PICK h : SearchUnfolds(h, x, v, n) /\ Search!binsearch(x, v, n) = h[<<0, n - 1>>]
  BY SearchExists DEF Halving
<1> DEFINE There(r) == r = -1 \/ (r \in 0 .. n - 1 /\ v[r + 1] = x)
           Narrow(m) == \A low \in 0 .. n, high \in -1 .. n - 1 :
                          high - low < m => There(h[<<low, high>>])
           Q == {m \in Nat : Narrow(m)}
<1>2. ASSUME NEW low \in 0 .. n, NEW high \in -1 .. n - 1, low > high
      PROVE  There(h[<<low, high>>])
  BY <1>1, <1>2 DEF SearchUnfolds
<1>3. 0 \in Q
  <2>1. \A low \in 0 .. n, high \in -1 .. n - 1 : high - low < 0 => low > high
    OBVIOUS
  <2> HIDE DEF There
  <2> QED BY <1>2, <2>1
<1>4. ASSUME NEW m \in Nat, Narrow(m),
             NEW low \in 0 .. n, NEW high \in -1 .. n - 1, high - low < m + 1, ~(low > high)
      PROVE  There(h[<<low, high>>])
  <2>1. PICK mid : mid = (low + high) \div 2
    OBVIOUS
  <2>2. /\ mid \in 0 .. n - 1 /\ low <= mid /\ mid <= high
        /\ mid - 1 \in -1 .. n - 1 /\ mid + 1 \in 0 .. n
    BY <1>4, <2>1, Middle
  <2>3. h[<<low, high>>] = IF x < v[mid + 1] THEN h[<<low, mid - 1>>]
                           ELSE IF x > v[mid + 1] THEN h[<<mid + 1, high>>]
                           ELSE mid
    BY <1>1, <1>4, <2>1 DEF SearchUnfolds
  <2>4. There(h[<<low, mid - 1>>]) /\ There(h[<<mid + 1, high>>])
    <3>1. (mid - 1) - low < m /\ high - (mid + 1) < m
      BY <1>4, <2>2
    <3> HIDE DEF There
    <3> QED BY <1>4, <2>2, <3>1
  <2>5. v[mid + 1] \in Int
    BY <2>2
  <2>6. CASE ~(x < v[mid + 1]) /\ ~(x > v[mid + 1])
    <3>1. h[<<low, high>>] = mid /\ v[mid + 1] = x
      BY <2>3, <2>5, <2>6
    <3> QED BY <2>2, <3>1
  <2> HIDE DEF There
  <2> QED BY <2>3, <2>4, <2>6
<1>5. Nat \subseteq Q
  <2>1. ASSUME NEW m \in Nat, Narrow(m) PROVE Narrow(m + 1)
    <3> SUFFICES ASSUME NEW low \in 0 .. n, NEW high \in -1 .. n - 1, high - low < m + 1
                 PROVE  There(h[<<low, high>>])
      <4> HIDE DEF There
      <4> QED OBVIOUS
    <3> HIDE DEF There, Narrow
    <3>1. CASE low > high
      BY <1>2, <3>1
    <3>2. CASE ~(low > high)
      BY <1>4, <2>1, <3>2
    <3> QED BY <3>1, <3>2
  <2>2. \A m \in Nat : m \in Q => m + 1 \in Q
    <3> HIDE DEF Narrow
    <3> QED BY <2>1
  <2> HIDE DEF Q
  <2> QED BY <1>3, <2>2, NatSetInduction
<1>6. n \in Q /\ 0 \in 0 .. n /\ n - 1 \in -1 .. n - 1 /\ (n - 1) - 0 < n
  <2> HIDE DEF Q
  <2> QED BY <1>5
<1>7. There(h[<<0, n - 1>>])
  <2> HIDE DEF There
  <2> QED BY <1>6
<1> QED BY <1>1, <1>7

LEMMA BinsearchCorrect ==
  ASSUME NEW n \in Nat, NEW x \in Int, NEW v \in Seq(Int), Len(v) = n, Sorted(v)
  PROVE  Answers(x, v, n, Search!binsearch(x, v, n))
<1>1. PICK h : SearchUnfolds(h, x, v, n) /\ Search!binsearch(x, v, n) = h[<<0, n - 1>>]
  BY SearchExists DEF Halving
\* x is nowhere but in the window from low to high.
<1> DEFINE Inside(low, high) == \A j \in 1 .. n : v[j] = x => low < j /\ j <= high + 1
           Narrow(m) == \A low \in 0 .. n, high \in -1 .. n - 1 :
                          high - low < m /\ Inside(low, high) => Answers(x, v, n, h[<<low, high>>])
           Q == {m \in Nat : Narrow(m)}
<1>2. ASSUME NEW low \in 0 .. n, NEW high \in -1 .. n - 1, low > high, Inside(low, high)
      PROVE  Answers(x, v, n, h[<<low, high>>])
  <2>1. h[<<low, high>>] = -1
    BY <1>1, <1>2 DEF SearchUnfolds
  <2>2. \A j \in 1 .. n : v[j] # x
    BY <1>2
  <2> QED BY <2>1, <2>2 DEF Answers, Elements
<1>3. 0 \in Q
  <2>1. \A low \in 0 .. n, high \in -1 .. n - 1 : high - low < 0 => low > high
    OBVIOUS
  <2> HIDE DEF Inside
  <2> QED BY <1>2, <2>1
\* A window that is not empty gets narrower.
<1>4. ASSUME NEW m \in Nat, Narrow(m),
             NEW low \in 0 .. n, NEW high \in -1 .. n - 1, high - low < m + 1,
             Inside(low, high), ~(low > high)
      PROVE  Answers(x, v, n, h[<<low, high>>])
  <2>1. PICK mid : mid = (low + high) \div 2
    OBVIOUS
  <2>2. /\ mid \in 0 .. n - 1 /\ low <= mid /\ mid <= high
        /\ mid - 1 \in -1 .. n - 1 /\ mid + 1 \in 0 .. n
    BY <1>4, <2>1, Middle
  <2>3. h[<<low, high>>] = IF x < v[mid + 1] THEN h[<<low, mid - 1>>]
                           ELSE IF x > v[mid + 1] THEN h[<<mid + 1, high>>]
                           ELSE mid
    BY <1>1, <1>4, <2>1 DEF SearchUnfolds
  <2>4. mid + 1 \in 1 .. n /\ \A j \in 1 .. n : v[j] \in Int
    BY <2>2
  <2>5. CASE x < v[mid + 1]
    <3>1. ASSUME NEW j \in 1 .. n, v[j] = x PROVE low < j /\ j <= (mid - 1) + 1
      <4>1. ~(mid + 1 <= j)
        <5> SUFFICES ASSUME mid + 1 <= j PROVE FALSE
          OBVIOUS
        <5>1. v[mid + 1] <= v[j]
          BY <2>4 DEF Sorted
        <5> QED BY <2>4, <2>5, <3>1, <5>1
      <4> QED BY <1>4, <2>2, <3>1, <4>1
    <3>2. (mid - 1) - low < m
      BY <1>4, <2>2
    <3>3. Inside(low, mid - 1)
      BY <3>1
    <3>4. Answers(x, v, n, h[<<low, mid - 1>>])
      <4> HIDE DEF Inside
      <4> QED BY <1>4, <2>2, <3>2, <3>3
    <3> QED BY <2>3, <2>5, <3>4
  <2>6. CASE x > v[mid + 1]
    <3>1. ASSUME NEW j \in 1 .. n, v[j] = x PROVE mid + 1 < j /\ j <= high + 1
      <4>1. ~(j <= mid + 1)
        <5> SUFFICES ASSUME j <= mid + 1 PROVE FALSE
          OBVIOUS
        <5>1. v[j] <= v[mid + 1]
          BY <2>4 DEF Sorted
        <5> QED BY <2>4, <2>6, <3>1, <5>1
      <4> QED BY <1>4, <2>2, <3>1, <4>1
    <3>2. high - (mid + 1) < m
      BY <1>4, <2>2
    <3>3. Inside(mid + 1, high)
      BY <3>1
    <3>4. Answers(x, v, n, h[<<mid + 1, high>>])
      <4> HIDE DEF Inside
      <4> QED BY <1>4, <2>2, <3>2, <3>3
    <3>5. ~(x < v[mid + 1])
      BY <2>4, <2>6
    <3> QED BY <2>3, <2>6, <3>4, <3>5
  <2>7. CASE ~(x < v[mid + 1]) /\ ~(x > v[mid + 1])
    <3>1. h[<<low, high>>] = mid
      BY <2>3, <2>7
    <3>2. v[mid + 1] = x
      BY <2>4, <2>7
    <3> QED BY <2>2, <3>1, <3>2 DEF Answers
  <2> QED BY <2>5, <2>6, <2>7
<1>5. Nat \subseteq Q
  <2>1. ASSUME NEW m \in Nat, Narrow(m) PROVE Narrow(m + 1)
    <3> SUFFICES ASSUME NEW low \in 0 .. n, NEW high \in -1 .. n - 1, high - low < m + 1,
                        Inside(low, high)
                 PROVE  Answers(x, v, n, h[<<low, high>>])
      <4> HIDE DEF Inside
      <4> QED OBVIOUS
    <3> HIDE DEF Inside, Narrow
    <3>1. CASE low > high
      BY <1>2, <3>1
    <3>2. CASE ~(low > high)
      BY <1>4, <2>1, <3>2
    <3> QED BY <3>1, <3>2
  <2>2. \A m \in Nat : m \in Q => m + 1 \in Q
    <3> HIDE DEF Narrow
    <3> QED BY <2>1
  <2> HIDE DEF Q
  <2> QED BY <1>3, <2>2, NatSetInduction
<1>6. Inside(0, n - 1)
  OBVIOUS
<1>7. n \in Q /\ 0 \in 0 .. n /\ n - 1 \in -1 .. n - 1 /\ (n - 1) - 0 < n
  <2> HIDE DEF Q
  <2> QED BY <1>5
<1>8. Answers(x, v, n, h[<<0, n - 1>>])
  <2> HIDE DEF Inside
  <2> QED BY <1>6, <1>7
<1> QED BY <1>1, <1>8

\* The generator draws from 0 up, the parent's lucky number is 47.
SearchArgs ==
  /\ Values \subseteq Nat /\ luckynum \in Int \ {0}
  /\ MAXLINES \in Nat /\ numvals \in Nat

SearchTypeOK == file \in {Search!absent} \cup Seq(Values)

\* What the parent has in memory at each of its steps, and that the file it
\* read is then the one the child left.
SearchInv ==
  /\ SearchTypeOK
  /\ child = "write" => file \in Seq(Values)
  /\ pc \in {"read", "sort", "search", "done"} => child = "ended"
  /\ pc \in {"sort", "search", "done"} => file \in Seq(Values)
  /\ pc = "sort" => intptr = Search!readints(file)
  /\ pc \in {"search", "done"} =>
       intptr = IF asks = "greater" THEN Search!qsort[Search!readints(file)]
                                    ELSE Search!readints(file)
  /\ pc = "done" => found = Search!binsearch(luckynum, intptr, MAXLINES)

LEMMA SearchSteps ==
  /\ MCInit => Search!Init
  /\ [MCNext]_<<subject, pipes, chat, fork, search, zip>> => [Search!Next]_search
BY DEF MCInit, MCNext, search

LEMMA SearchInductive == SearchArgs => (MCSpec => []SearchInv)
<1> SUFFICES ASSUME SearchArgs PROVE MCSpec => []SearchInv
  OBVIOUS
<1>1. MCInit => SearchInv
  <2> SUFFICES ASSUME Search!Init PROVE SearchInv
    BY SearchSteps
  <2>1. \A v \in Values : [n \in 1 .. numvals |-> v] \in Seq(Values)
    BY DEF SearchArgs
  <2> QED BY <2>1 DEF Search!Init, SearchInv, SearchTypeOK
<1>2. SearchInv /\ [MCNext]_<<subject, pipes, chat, fork, search, zip>> => SearchInv'
  <2> SUFFICES ASSUME SearchInv, [Search!Next]_search PROVE SearchInv'
    BY SearchSteps
  <2> USE DEF SearchInv, SearchTypeOK
  <2>1. CASE Search!execvp
    BY <2>1 DEF Search!execvp
  <2>2. CASE Search!open_file
    <3>1. file' \in Seq(Values)
      BY <2>2 DEF Search!open_file
    <3> QED BY <2>2, <3>1 DEF Search!open_file
  <2>3. CASE Search!write_number
    <3>1. file' \in Seq(Values)
      BY <2>3 DEF Search!write_number
    <3> QED BY <2>3, <3>1 DEF Search!write_number
  <2>4. CASE Search!child_killed
    BY <2>4 DEF Search!child_killed
  <2>5. CASE Search!fork
    BY <2>5 DEF Search!fork
  <2>6. CASE Search!WaitForChild
    BY <2>6 DEF Search!WaitForChild, Search!wait
  <2>7. CASE Search!Read
    BY <2>7 DEF Search!Read
  <2>8. CASE Search!Sort
    BY <2>8 DEF Search!Sort
  <2>9. CASE Search!Search
    BY <2>9 DEF Search!Search
  <2>10. CASE UNCHANGED search
    BY <2>10 DEF search
  <2> QED BY <2>1, <2>2, <2>3, <2>4, <2>5, <2>6, <2>7, <2>8, <2>9, <2>10 DEF Search!Next
<1> QED BY <1>1, <1>2, PTL DEF MCSpec

\* The numbers the parent reads, among them a 0 only where the file is empty or
\* holds one, and each number of the file within its reach.
LEMMA ReadIn ==
  ASSUME SearchArgs, NEW f \in Seq(Values)
  PROVE  LET v == Search!readints(f)
         IN  /\ v \in Seq(Int) /\ Len(v) = MAXLINES
             /\ \A n \in 1 .. MAXLINES : n <= Len(f) => f[n] \in Elements(v)
             /\ luckynum \in Elements(v) => \E n \in 1 .. MAXLINES : n <= Len(f) /\ f[n] = luckynum
<1> DEFINE v == Search!readints(f)
<1>1. Len(f) \in Nat /\ (f # <<>> => Len(f) # 0) /\ \A n \in 1 .. Len(f) : f[n] \in Nat
  <2>1. Len(f) \in Nat /\ (f # <<>> => Len(f) # 0)
    BY EmptySeq, LenProperties
  <2>2. \A n \in 1 .. Len(f) : f[n] \in Values
    BY ElementOfSeq
  <2> QED BY <2>1, <2>2 DEF SearchArgs
<1>2. ASSUME NEW n \in 1 .. MAXLINES, f # <<>>
      PROVE  (IF n <= Len(f) THEN n ELSE Len(f)) \in 1 .. Len(f)
  BY <1>1, <1>2 DEF SearchArgs
<1>3. ASSUME NEW n \in 1 .. MAXLINES
      PROVE  (IF f = <<>> THEN 0 ELSE f[IF n <= Len(f) THEN n ELSE Len(f)]) \in Int
  BY <1>1, <1>2
<1>4. /\ v \in Seq(Int) /\ Len(v) = MAXLINES
      /\ \A n \in 1 .. MAXLINES :
           v[n] = IF f = <<>> THEN 0 ELSE f[IF n <= Len(f) THEN n ELSE Len(f)]
  BY <1>3 DEF Search!readints, SearchArgs
<1> HIDE DEF v
<1>5. ASSUME NEW n \in 1 .. MAXLINES, n <= Len(f) PROVE f[n] \in Elements(v)
  <2>1. f # <<>> /\ v[n] = f[n]
    BY <1>1, <1>4, <1>5
  <2> QED BY <1>4, <2>1 DEF Elements
<1>6. ASSUME luckynum \in Elements(v)
      PROVE  \E n \in 1 .. MAXLINES : n <= Len(f) /\ f[n] = luckynum
  <2>1. PICK k \in 1 .. MAXLINES : v[k] = luckynum
    BY <1>4, <1>6 DEF Elements
  <2>2. f # <<>> /\ luckynum = f[IF k <= Len(f) THEN k ELSE Len(f)]
    BY <1>4, <2>1 DEF SearchArgs
  <2>3. CASE k <= Len(f)
    BY <2>2, <2>3
  <2>4. CASE ~(k <= Len(f))
    <3>1. Len(f) \in 1 .. MAXLINES /\ Len(f) <= Len(f)
      BY <1>1, <2>2, <2>4 DEF SearchArgs
    <3> QED BY <2>2, <2>4, <3>1
  <2> QED BY <2>3, <2>4
<1> QED BY <1>4, <1>5, <1>6 DEF v

\* callexec2: what the parent reports of its lucky number is true of what it has
\* read, whatever the child drew, wrote or left unfinished, and however many
\* numbers are read.  The merge sort keeps the numbers and orders them, and the
\* binary search finds one that is there; what it finds is there in any order.
THEOREM ReportsTruly == SearchArgs => (MCSpec => []ReportTrue)
<1> SUFFICES ASSUME SearchArgs PROVE MCSpec => []ReportTrue
  OBVIOUS
<1>1. SearchInv => ReportTrue
  <2> SUFFICES ASSUME SearchInv, pc = "done" PROVE Search!ReportTrue
    BY DEF ReportTrue, Search!ReportTrue
  <2> DEFINE v == Search!readints(file)
  <2>1. /\ file \in Seq(Values)
        /\ intptr = IF asks = "greater" THEN Search!qsort[v] ELSE v
        /\ found = Search!binsearch(luckynum, intptr, MAXLINES)
    BY DEF SearchInv
  <2>2. /\ v \in Seq(Int) /\ Len(v) = MAXLINES
        /\ \A n \in 1 .. MAXLINES : n <= Len(file) => file[n] \in Elements(v)
        /\ luckynum \in Elements(v) =>
             \E n \in 1 .. MAXLINES : n <= Len(file) /\ file[n] = luckynum
    BY <2>1, ReadIn
  <2> HIDE DEF v
  <2>3. asks = "greater" => SortedFrom(v, intptr)
    BY <2>1, <2>2, QsortCorrect
  <2>4. /\ intptr \in Seq(Int) /\ Len(intptr) = MAXLINES
        /\ Elements(intptr) = Elements(v) /\ (asks = "greater" => Sorted(intptr))
    BY <2>1, <2>2, <2>3 DEF SortedFrom
  <2>5. CASE found = -1
    <3>1. ASSUME asks = "greater", NEW n \in 1 .. MAXLINES, n <= Len(file)
          PROVE  file[n] # luckynum
      <4>1. Answers(luckynum, intptr, MAXLINES, found)
        BY <2>1, <2>4, <3>1, BinsearchCorrect DEF SearchArgs
      <4>2. luckynum \notin Elements(intptr)
        BY <2>5, <4>1 DEF Answers, SearchArgs
      <4> QED BY <2>2, <2>4, <3>1, <4>2
    <3> QED BY <2>5, <3>1 DEF Search!ReportTrue
  <2>6. CASE found # -1
    <3>1. found \in 0 .. MAXLINES - 1 /\ intptr[found + 1] = luckynum
      BY <2>1, <2>4, <2>6, BinsearchSound DEF SearchArgs
    <3>2. found + 1 \in 1 .. Len(intptr)
      BY <2>4, <3>1 DEF SearchArgs
    <3>3. luckynum \in Elements(v)
      BY <2>4, <3>1, <3>2 DEF Elements
    <3>4. \E n \in 1 .. MAXLINES : n <= Len(file) /\ file[n] = luckynum
      BY <2>2, <3>3
    <3> QED BY <2>6, <3>1, <3>4 DEF Search!ReportTrue
  <2> QED BY <2>5, <2>6
<1> QED BY <1>1, SearchInductive, PTL

\* The file never holds more numbers than the child was told to write.
FileBounded == file # Search!absent => file \in Seq(Values) /\ Len(file) <= numvals

LEMMA FileStaysBounded == SearchArgs => (MCSpec => []FileBounded)
<1> SUFFICES ASSUME SearchArgs PROVE MCSpec => []FileBounded
  OBVIOUS
<1>1. MCInit => FileBounded
  <2> SUFFICES ASSUME Search!Init PROVE FileBounded
    BY SearchSteps
  <2>1. \A v \in Values : LET f == [n \in 1 .. numvals |-> v]
                          IN  f \in Seq(Values) /\ Len(f) = numvals
    BY DEF SearchArgs
  <2>2. numvals <= numvals
    BY DEF SearchArgs
  <2> QED BY <2>1, <2>2 DEF Search!Init, FileBounded
<1>2. SearchInv /\ FileBounded /\ [MCNext]_<<subject, pipes, chat, fork, search, zip>> => FileBounded'
  <2> SUFFICES ASSUME SearchInv, FileBounded, [Search!Next]_search PROVE FileBounded'
    BY SearchSteps
  <2>1. CASE Search!open_file
    <3>1. file' = <<>> /\ 0 <= numvals
      BY <2>1 DEF Search!open_file, SearchArgs
    <3> QED BY <3>1 DEF FileBounded
  <2>2. CASE Search!write_number
    <3>1. file \in Seq(Values) /\ Len(file) < numvals
      BY <2>2 DEF Search!write_number, SearchInv
    <3>2. PICK anint \in Values : file' = Append(file, anint)
      BY <2>2 DEF Search!write_number
    <3>3. file' \in Seq(Values) /\ Len(file') = Len(file) + 1
      BY <3>1, <3>2
    <3>4. Len(file') <= numvals
      BY <3>1, <3>3, LenProperties DEF SearchArgs
    <3> QED BY <3>3, <3>4 DEF FileBounded
  <2>3. CASE UNCHANGED file
    BY <2>3 DEF FileBounded
  <2> QED BY <2>1, <2>2, <2>3 DEF Search!Next, Search!execvp, Search!child_killed, Search!fork,
           Search!WaitForChild, Search!Read, Search!Sort, Search!Search, search
<1> QED BY <1>1, <1>2, SearchInductive, PTL DEF MCSpec

\* callexec2: "The parent process checks that the set contains a specific
\* number" holds if the numbers fit what the parent reads, and the library sorts
\* them.  The program asks for 100 numbers and reads 64.
THEOREM SetThatFitsIsSearched ==
  ASSUME SearchArgs, numvals <= MAXLINES, Libraries = {"greater"}
  PROVE  MCSpec => []Search!WholeSetSearched
<1>1. MCInit => asks = "greater"
  BY SearchSteps DEF Search!Init
<1>2. asks = "greater" /\ [MCNext]_<<subject, pipes, chat, fork, search, zip>> => (asks = "greater")'
  BY SearchSteps DEF Search!Next, Search!execvp, Search!open_file, Search!write_number,
     Search!child_killed, Search!fork, Search!WaitForChild, Search!Read, Search!Sort,
     Search!Search, search
<1>3. MCSpec => [](asks = "greater")
  BY <1>1, <1>2, PTL DEF MCSpec
<1>4. SearchInv /\ FileBounded /\ ReportTrue /\ asks = "greater" => Search!WholeSetSearched
  <2> SUFFICES ASSUME SearchInv, FileBounded, Search!ReportTrue, asks = "greater", pc = "done"
               PROVE  found # -1 <=> \E n \in 1 .. Len(file) : file[n] = luckynum
    BY DEF ReportTrue, Search!WholeSetSearched
  <2>1. file \in Seq(Values) /\ Len(file) \in Nat
    BY LenProperties DEF SearchInv
  <2>2. \A v \in Values : v # -1
    BY DEF SearchArgs
  <2>3. file # Search!absent
    <3> SUFFICES ASSUME file = Search!absent PROVE FALSE
      OBVIOUS
    <3>1. Len(file) = 1 /\ file[1] = -1
      BY DEF Search!absent
    <3>2. file[1] \in Values
      BY <2>1, <3>1, ElementOfSeq
    <3> QED BY <2>2, <3>1, <3>2
  <2>4. Len(file) <= numvals
    BY <2>3 DEF FileBounded
  <2>5. \A n \in 1 .. Len(file) : n \in 1 .. MAXLINES /\ n <= Len(file)
    BY <2>1, <2>4 DEF SearchArgs
  <2>6. \A n \in 1 .. MAXLINES : n <= Len(file) => n \in 1 .. Len(file)
    BY <2>1 DEF SearchArgs
  <2>7. CASE found = -1
    BY <2>5, <2>7 DEF Search!ReportTrue
  <2>8. CASE found # -1
    BY <2>6, <2>8 DEF Search!ReportTrue
  <2> QED BY <2>7, <2>8
<1> QED BY <1>3, <1>4, SearchInductive, FileStaysBounded, ReportsTruly, PTL
=============================================================================
