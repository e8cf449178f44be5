--------------------------- MODULE TextToApsProofs ---------------------------
(***************************************************************************)
(* The text filter, for every size of its buffers, every width of the line *)
(* and of the font, and every input.                                       *)
(*                                                                         *)
(* Its buffers are safe.  The invariant adds that a QR buffer in use has a *)
(* positive size, so that doubling it makes room for one character more.   *)
(*                                                                         *)
(* What it writes is what the input stands for.  TextKept reads the whole  *)
(* input at once, so its invariant, Kept, says where the filter stands in  *)
(* it: the units before are complete and have been written (OutputKept);   *)
(* of the one that is not, state, tag_buf and digits say what has been     *)
(* seen (Parsed).  The lemmas follow what one character more does to each  *)
(* reference definition: the places reached, lines and dots, the ends of   *)
(* units, the units, and what has been written.                            *)
(***************************************************************************)
EXTENDS TextToAps, Flattening, FiniteSetTheorems, TLAPS

AllCodes == {"a", "5", "lf", "<", ">", "esc", ".", "high", "wide"}
OutText == AllCodes \union {"tag"}

-----------------------------------------------------------------------------
(* The buffers.                                                            *)

BufferTypes == process \in BOOLEAN /\ tag_buf \in Seq(AllCodes) /\ idx \in Nat /\ size \in Nat

InQr == state \in {"HEADER", "DATA"}

IInv == BufferTypes /\ BuffersSafe /\ (InQr => size > 0)

(* A step of the filter outside the buffers.                               *)
LEMMA Unused ==
  ASSUME IInv, UNCHANGED <<process, tag_buf, qrbuf, idx, size, state>>
  PROVE  IInv'
  BY DEF IInv, BufferTypes, BuffersSafe, InQr

(* What the buffer for tags takes.                                         *)
LEMMA LowIsCode ==
  ASSUME NEW c \in Codes \union Alphabet
  PROVE  Low(c) \in AllCodes
  BY DEF AllCodes, Codes, Alphabet, Characters, Low

LEMMA TagsInBounds ==
  ASSUME IInv, process, NEW c \in Codes \union Alphabet, process_and_write(c), UNCHANGED options
  PROVE  IInv'
<1> USE DEF IInv, BufferTypes, BuffersSafe, InQr, process_and_write, options, qrVars
<1> UNCHANGED <<process, qrbuf, idx, size>>
  OBVIOUS
<1>1. CASE OpenTag(c)   BY <1>1, SizesAssumption DEF OpenTag, SizesAssumption
<1>2. CASE Plain(c)     BY <1>2 DEF Plain
<1>3. CASE CloseTag(c)  BY <1>3 DEF CloseTag
<1>4. CASE Reopen(c)    BY <1>4, SizesAssumption DEF Reopen, SizesAssumption
<1>5. CASE Collect(c)
  <2>1. Low(c) \in AllCodes
    BY LowIsCode
  <2>2. tag_buf' = Append(tag_buf, Low(c)) /\ Len(tag_buf) # TAG_BUFSIZE /\ state' = state
    BY <1>5 DEF Collect
  <2>3. tag_buf' \in Seq(AllCodes) /\ Len(tag_buf') = Len(tag_buf) + 1
    BY <2>1, <2>2
  <2>4. Len(tag_buf') <= TAG_BUFSIZE
    BY <2>2, <2>3, SizesAssumption DEF SizesAssumption
  <2> QED BY <2>2, <2>3, <2>4
<1>6. CASE Overflow(c)  BY <1>6 DEF Overflow
<1> QED BY <1>1, <1>2, <1>3, <1>4, <1>5, <1>6

LEMMA QrInBounds ==
  ASSUME IInv, ~process, NEW c, noprocess_and_write(c), UNCHANGED options
  PROVE  IInv'
<1> USE DEF IInv, BufferTypes, BuffersSafe, InQr, options, qrVars
<1>1. CASE Escape(c)       BY <1>1, SizesAssumption DEF Escape, SizesAssumption
<1>2. CASE Copy(c)         BY <1>2 DEF Copy
<1>3. CASE OtherEscape(c)  BY <1>3 DEF OtherEscape
<1>4. CASE Digit(c)        BY <1>4 DEF Digit
<1>5. CASE NoDigit(c)      BY <1>5 DEF NoDigit
<1>6. CASE PrintQr(c)      BY <1>6 DEF PrintQr
<1>7. CASE StartQr(c)      BY <1>7, SizesAssumption DEF StartQr, SizesAssumption
<1>8. CASE Keep(c)
  <2>1. size' \in Nat /\ size' > 0 /\ (idx # size => size' = size) /\ (idx = size => size' = 2 * size)
    BY <1>8 DEF Keep
  <2>2. CASE idx' = idx + 1 /\ UNCHANGED <<state, qrbuf>>
    BY <1>8, <2>1, <2>2 DEF Keep
  <2>3. CASE qrbuf' = "none" /\ state' = "IDLE" /\ UNCHANGED idx
    BY <1>8, <2>1, <2>3 DEF Keep
  <2> QED BY <1>8, <2>2, <2>3 DEF Keep
<1> QED BY <1>1, <1>2, <1>3, <1>4, <1>5, <1>6, <1>7, <1>8 DEF noprocess_and_write

LEMMA HandleKeeps ==
  ASSUME IInv, NEW c \in Codes \union Alphabet, Handle(c)
  PROVE  IInv'
<1>1. CASE cancel_flag
  BY <1>1, Unused DEF Handle, Finish, options, qrVars
<1>2. CASE ~cancel_flag
  <2>1. UNCHANGED options
    BY <1>2 DEF Handle
  <2>2. CASE process
    BY <1>2, <2>1, <2>2, TagsInBounds DEF Handle
  <2>3. CASE ~process
    BY <1>2, <2>1, <2>3, QrInBounds DEF Handle
  <2> QED BY <2>2, <2>3
<1> QED BY <1>1, <1>2

LEMMA Initially == Init => IInv
  BY SizesAssumption DEF Init, IInv, BufferTypes, BuffersSafe, InQr, SizesAssumption

LEMMA Inductive == IInv /\ [Next]_vars => IInv'
<1> SUFFICES ASSUME IInv, [Next]_vars PROVE IInv'
  OBVIOUS
<1>1. CASE Start
  BY <1>1, Unused DEF Start, options, qrVars
<1>2. CASE GetCode
  <2>1. CASE FirstByte
    BY <2>1, Unused DEF FirstByte, options, qrVars
  <2>2. CASE \E c \in Codes \union Alphabet : Handle(c)
    BY <2>2, HandleKeeps
  <2> QED BY <1>2, <2>1, <2>2 DEF GetCode
<1>3. CASE EndOfInput
  BY <1>3, Unused DEF EndOfInput, Finish, options, qrVars
<1>4. CASE Sigterm
  BY <1>4, Unused DEF Sigterm, options, qrVars
<1>5. CASE UNCHANGED vars
  BY <1>5, Unused DEF vars, options, qrVars
<1> QED BY <1>1, <1>2, <1>3, <1>4, <1>5 DEF Next, Terminated

(* Neither the buffer for tags nor that for QR codes is written outside    *)
(* its bounds or after free(), whatever the input and whenever memory runs *)
(* out (process_and_write, noprocess_and_write).                           *)
THEOREM BuffersHold == Spec => []BuffersSafe
<1>1. IInv => BuffersSafe
  BY DEF IInv
<1> QED BY <1>1, Initially, Inductive, PTL DEF Spec

-----------------------------------------------------------------------------
(* A sequence that agrees with two, one behind the other.                 *)
LEMMA ConcatIs ==
  ASSUME NEW S, NEW a \in Seq(S), NEW b \in Seq(S), NEW q \in Seq(S), Len(q) = Len(a) + Len(b),
         \A i \in 1 .. Len(a) : q[i] = a[i],
         \A i \in Len(a) + 1 .. Len(a) + Len(b) : q[i] = b[i - Len(a)]
  PROVE  q = a \o b
<1>1. /\ a \o b \in Seq(S) /\ Len(a \o b) = Len(a) + Len(b)
      /\ \A i \in 1 .. Len(a) + Len(b) : (a \o b)[i] = IF i <= Len(a) THEN a[i] ELSE b[i - Len(a)]
  BY ConcatProperties
<1>2. Len(a) \in Nat /\ Len(b) \in Nat
  OBVIOUS
<1>3. \A i \in 1 .. Len(a) + Len(b) :
        i \in 1 .. Len(a) \/ (i \in Len(a) + 1 .. Len(a) + Len(b) /\ ~(i <= Len(a)))
  BY <1>2
<1>4. \A i \in 1 .. Len(a) : i <= Len(a)
  BY <1>2
<1>5. \A i \in 1 .. Len(q) : q[i] = (a \o b)[i]
  BY <1>1, <1>3, <1>4, Zenon
<1> QED BY <1>1, <1>5, SeqEqual, Zenon

(* The places reached.                                                     *)
IsReached(end, n, places) ==
  \A i \in 1 .. n : i \in places <=> i = 1 \/ \E j \in places : j < i /\ end[j] = i - 1

(* There are such places, whatever the ends.                               *)
LEMMA ReachedExist ==
  ASSUME NEW end, NEW n \in Nat
  PROVE  \E places \in SUBSET (1 .. n) : IsReached(end, n, places)
<1> DEFINE T == {k \in Nat : \E p \in SUBSET (1 .. k) : IsReached(end, k, p)}
<1>1. 0 \in T
  <2>1. {} \in SUBSET (1 .. 0) /\ IsReached(end, 0, {})
    BY DEF IsReached
  <2> QED BY <2>1
<1>2. ASSUME NEW k \in Nat, k \in T PROVE k + 1 \in T
  <2>1. PICK p \in SUBSET (1 .. k) : IsReached(end, k, p)
    BY <1>2
  <2> DEFINE more == k + 1 = 1 \/ \E j \in p : end[j] = k
             r == {i \in 1 .. k + 1 : i \in p \/ (i = k + 1 /\ more)}
  <2>2. ASSUME NEW i \in 1 .. k + 1
        PROVE  i \in r <=> i = 1 \/ \E j \in r : j < i /\ end[j] = i - 1
    <3>1. CASE i = k + 1
      <4>1. i \in r <=> more
        BY <3>1
      <4>2. (\E j \in r : j < i /\ end[j] = i - 1) <=> \E j \in p : end[j] = k
        BY <3>1
      <4> QED BY <3>1, <4>1, <4>2
    <3>2. CASE i # k + 1
      <4>1. i \in 1 .. k /\ (i \in r <=> i \in p)
        BY <3>2
      <4>2. \A j \in 1 .. k + 1 : j < i => (j \in r <=> j \in p)
        BY <4>1
      <4>4. p \subseteq 1 .. k + 1 /\ r \subseteq 1 .. k + 1
        OBVIOUS
      <4>3. i \in p <=> i = 1 \/ \E j \in p : j < i /\ end[j] = i - 1
        BY <2>1, <4>1 DEF IsReached
      <4> HIDE DEF r
      <4> QED BY <4>1, <4>2, <4>3, <4>4
    <3> QED BY <3>1, <3>2
  <2>3. r \in SUBSET (1 .. k + 1)
    OBVIOUS
  <2> HIDE DEF r
  <2> QED BY <2>2, <2>3 DEF IsReached
<1>3. Nat \subseteq T
  <2> HIDE DEF T
  <2> QED BY <1>1, <1>2, NumberInduction
<1> QED BY <1>3

(* Reached chooses them.                                                   *)
LEMMA ReachedThere ==
  ASSUME NEW end, NEW n \in Nat, DOMAIN end = 1 .. n
  PROVE  Reached(end) \in SUBSET (1 .. n) /\ IsReached(end, n, Reached(end))
<1>1. \E places \in SUBSET (1 .. n) : IsReached(end, n, places)
  BY ReachedExist
<1> QED BY <1>1 DEF Reached, IsReached

(* What has been reached stays so, and the next place when it is.          *)
LEMMA ReachedMore ==
  ASSUME NEW n \in Nat, NEW old, NEW new, DOMAIN old = 1 .. n, DOMAIN new = 1 .. n + 1,
         \A j \in 1 .. n, m \in 1 .. n - 1 : new[j] = m <=> old[j] = m
  PROVE  /\ \A i \in 1 .. n : i \in Reached(new) <=> i \in Reached(old)
         /\ n + 1 \in Reached(new) <=> n = 0 \/ \E j \in Reached(old) : new[j] = n
<1> DEFINE p == Reached(old)  r == Reached(new)
<1>1. p \in SUBSET (1 .. n) /\ IsReached(old, n, p)
  BY ReachedThere
<1>2. r \in SUBSET (1 .. n + 1) /\ IsReached(new, n + 1, r)
  BY ReachedThere
<1> HIDE DEF p, r
<1> DEFINE U == {i \in 1 .. n : ~(i \in r <=> i \in p)}
<1>3. U = {}
  <2> SUFFICES ASSUME U # {} PROVE FALSE
    OBVIOUS
  <2>1. PICK i \in U : \A y \in U : i <= y
    <3>1. U \subseteq Nat
      OBVIOUS
    <3> HIDE DEF U
    <3> QED BY <3>1, LeastNumber
  <2>2. i \in 1 .. n /\ ~(i \in r <=> i \in p) /\ i \in 1 .. n + 1
    BY <2>1
  <2>3. \A j \in 1 .. n : j < i => (j \in r <=> j \in p)
    BY <2>1
  <2>4. i \in p <=> i = 1 \/ \E j \in p : j < i /\ old[j] = i - 1
    BY <1>1, <2>2 DEF IsReached
  <2>5. i \in r <=> i = 1 \/ \E j \in r : j < i /\ new[j] = i - 1
    BY <1>2, <2>2 DEF IsReached
  <2>6. \A j \in 1 .. n : i # 1 => (new[j] = i - 1 <=> old[j] = i - 1)
    <3>1. i # 1 => i - 1 \in 1 .. n - 1
      BY <2>2
    <3> QED BY <3>1
  <2>7. p \subseteq 1 .. n /\ \A j \in r : j < i => j \in 1 .. n
    <3>1. r \subseteq 1 .. n + 1
      BY <1>2
    <3> QED BY <1>1, <2>2, <3>1
  <2> HIDE DEF U
  <2> QED BY <2>2, <2>3, <2>4, <2>5, <2>6, <2>7
<1>4. \A i \in 1 .. n : i \in r <=> i \in p
  BY <1>3
<1>5. n + 1 \in r <=> n + 1 = 1 \/ \E j \in r : j < n + 1 /\ new[j] = n + 1 - 1
  BY <1>2 DEF IsReached
<1>6. (\E j \in r : j < n + 1 /\ new[j] = n + 1 - 1) <=> \E j \in p : new[j] = n
  <2>1. r \subseteq 1 .. n + 1 /\ p \subseteq 1 .. n
    BY <1>1, <1>2
  <2>2. \A j \in r : j < n + 1 => j \in 1 .. n
    BY <2>1
  <2>3. \A j \in p : j < n + 1 /\ j \in 1 .. n
    BY <2>1
  <2>4. n + 1 - 1 = n
    OBVIOUS
  <2> QED BY <1>4, <2>2, <2>3, <2>4
<1>7. n + 1 = 1 <=> n = 0
  OBVIOUS
<1>8. n + 1 \in r <=> n = 0 \/ \E j \in p : new[j] = n
  BY <1>5, <1>6, <1>7
<1> QED BY <1>4, <1>8 DEF p, r

(* What is gathered does not depend on how far, and a part behind all      *)
(* others comes last.                                                      *)
LEMMA GatherCut ==
  ASSUME NEW parts, NEW n \in Nat, NEW k \in Nat, k <= n,
         \A i \in DOMAIN parts : parts[i] \in Seq(OutText),
         \A i \in k + 1 .. n : i \notin DOMAIN parts
  PROVE  Gather(parts, n) = Gather(parts, k) /\ Gather(parts, k) \in Seq(OutText)
<1> DEFINE part(i) == IF i \in DOMAIN parts THEN parts[i] ELSE <<>>
           all == [i \in 1 .. n |-> part(i)]
           first == [i \in 1 .. k |-> part(i)]
           rest == [i \in 1 .. n - k |-> <<>>]
<1>0. \A i \in 1 .. n : part(i) \in Seq(OutText)
  OBVIOUS
<1>1. \A i \in k + 1 .. n : part(i) = <<>>
  OBVIOUS
<1>2. /\ all \in Seq(Seq(OutText)) /\ first \in Seq(Seq(OutText)) /\ rest \in Seq(Seq(OutText))
      /\ Len(first) = k /\ Len(rest) = n - k /\ Len(all) = n
      /\ \A i \in 1 .. n : all[i] = part(i)
      /\ \A i \in 1 .. k : first[i] = part(i)
      /\ \A i \in 1 .. n - k : rest[i] = <<>>
  <2> HIDE DEF part
  <2>1. <<>> \in Seq(OutText)
    OBVIOUS
  <2> QED BY <1>0, <2>1
<1>3. all = first \o rest
  <2>1. \A i \in 1 .. k : all[i] = first[i]
    <3>1. 1 .. k \subseteq 1 .. n
      OBVIOUS
    <3> HIDE DEF part, all, first, rest
    <3> QED BY <1>2, <3>1
  <2>2. \A i \in k + 1 .. k + (n - k) : all[i] = rest[i - k]
    <3> SUFFICES ASSUME NEW i \in k + 1 .. k + (n - k) PROVE all[i] = rest[i - k]
      OBVIOUS
    <3>1. i - k \in 1 .. n - k /\ i \in 1 .. n /\ i \in k + 1 .. n
      OBVIOUS
    <3> HIDE DEF part, all, first, rest
    <3>2. rest[i - k] = <<>>
      BY <1>2, <3>1
    <3>3. all[i] = part(i) /\ part(i) = <<>>
      BY <1>1, <1>2, <3>1
    <3> QED BY <3>2, <3>3
  <2>3. n = k + (n - k)
    OBVIOUS
  <2> HIDE DEF part, all, first, rest
  <2> DEFINE E == Seq(OutText)
  <2> HIDE DEF E
  <2>4. first \in Seq(E) /\ rest \in Seq(E) /\ all \in Seq(E)
    BY <1>2 DEF E
  <2>5. Len(first) = k /\ Len(rest) = n - k /\ Len(all) = Len(first) + Len(rest)
    BY <1>2, <2>3
  <2>6. \A i \in 1 .. Len(first) : all[i] = first[i]
    BY <2>1, <2>5
  <2>7. \A i \in Len(first) + 1 .. Len(first) + Len(rest) : all[i] = rest[i - Len(first)]
    BY <2>2, <2>5
  <2> QED BY <2>4, <2>5, <2>6, <2>7, ConcatIs
<1> HIDE DEF all, first, rest
<1>4. FlattenSeq(rest) = <<>>
  BY <1>2, FlattenNothing
<1>5. FlattenSeq(all) = FlattenSeq(first) \o FlattenSeq(rest)
  BY <1>2, <1>3, FlattenConcat
<1>6. FlattenSeq(first) \in Seq(OutText)
  BY <1>2, FlattenType
<1>7. FlattenSeq(all) = FlattenSeq(first)
  BY <1>4, <1>5, <1>6
<1> QED BY <1>6, <1>7 DEF all, first, Gather

(* A part behind all others comes last.                                    *)
LEMMA GatherLast ==
  ASSUME NEW n \in Nat, NEW x \in 1 .. n + 1
  PROVE  \A old, new :
           /\ DOMAIN old \subseteq 1 .. x - 1 /\ DOMAIN new = DOMAIN old \union {x}
           /\ \A i \in DOMAIN new : new[i] \in Seq(OutText)
           /\ \A i \in DOMAIN old : new[i] = old[i]
           => Gather(new, n + 1) = Gather(old, n) \o new[x]
<1> SUFFICES ASSUME NEW old, NEW new,
                    DOMAIN old \subseteq 1 .. x - 1, DOMAIN new = DOMAIN old \union {x},
                    \A i \in DOMAIN new : new[i] \in Seq(OutText),
                    \A i \in DOMAIN old : new[i] = old[i]
             PROVE  Gather(new, n + 1) = Gather(old, n) \o new[x]
  OBVIOUS
<1> DEFINE before == [i \in 1 .. x - 1 |-> IF i \in DOMAIN new THEN new[i] ELSE <<>>]
<1>1. Gather(new, n + 1) = Gather(new, x)
  <2>1. n + 1 \in Nat /\ x \in Nat /\ x <= n + 1
    OBVIOUS
  <2>2. \A i \in x + 1 .. n + 1 : i \notin DOMAIN new
    OBVIOUS
  <2> QED BY <2>1, <2>2, GatherCut
<1>2. Gather(old, n) = Gather(old, x - 1)
  <2>1. x - 1 \in Nat /\ x - 1 <= n /\ \A i \in DOMAIN old : old[i] \in Seq(OutText)
    OBVIOUS
  <2> QED BY <2>1, GatherCut
<1>3. before \in Seq(Seq(OutText))
  <2>1. \A i \in 1 .. x - 1 : (IF i \in DOMAIN new THEN new[i] ELSE <<>>) \in Seq(OutText)
    OBVIOUS
  <2> QED BY <2>1
<1>4. Gather(old, x - 1) = FlattenSeq(before)
  <2>1. \A i \in 1 .. x - 1 : (IF i \in DOMAIN new THEN new[i] ELSE <<>>)
                            = (IF i \in DOMAIN old THEN old[i] ELSE <<>>)
    OBVIOUS
  <2> QED BY <2>1 DEF Gather
<1>5. [i \in 1 .. x |-> IF i \in DOMAIN new THEN new[i] ELSE <<>>] = Append(before, new[x])
  <2> DEFINE all == [i \in 1 .. x |-> IF i \in DOMAIN new THEN new[i] ELSE <<>>]
  <2>1. \A i \in 1 .. x : (IF i \in DOMAIN new THEN new[i] ELSE <<>>) \in Seq(OutText)
    OBVIOUS
  <2>2. all \in Seq(Seq(OutText)) /\ Len(all) = x /\ Len(before) = x - 1
    BY <2>1
  <2>3. /\ all[x] = new[x] /\ new[x] \in Seq(OutText)
        /\ \A i \in 1 .. x - 1 : all[i] = before[i]
    OBVIOUS
  <2> HIDE DEF all, before
  <2>4. Append(before, new[x]) \in Seq(Seq(OutText)) /\ Len(Append(before, new[x])) = x
    BY <1>3, <2>2, <2>3
  <2>5. \A i \in 1 .. x : all[i] = Append(before, new[x])[i]
    <3> SUFFICES ASSUME NEW i \in 1 .. x PROVE all[i] = Append(before, new[x])[i]
      OBVIOUS
    <3>1. CASE i = x
      BY <3>1, <1>3, <2>2, <2>3
    <3>2. CASE i # x
      <4>1. i \in 1 .. x - 1
        BY <3>2
      <4> QED BY <4>1, <1>3, <2>2, <2>3
    <3> QED BY <3>1, <3>2
  <2>6. all = Append(before, new[x])
    BY <2>2, <2>4, <2>5, SeqEqual
  <2> QED BY <2>6 DEF all
<1>6. new[x] \in Seq(OutText)
  OBVIOUS
<1>7. Gather(new, x) = FlattenSeq(before) \o new[x]
  BY <1>3, <1>5, <1>6, FlattenAppend DEF Gather
<1> HIDE DEF before
<1> QED BY <1>1, <1>2, <1>4, <1>7

-----------------------------------------------------------------------------
(* Counting one place more.                                                *)
LEMMA CountMore ==
  ASSUME NEW n \in Nat, NEW places
  PROVE  /\ Cardinality({i \in 1 .. n : i \in places}) \in Nat
         /\ Cardinality({i \in 1 .. n + 1 : i \in places})
            = Cardinality({i \in 1 .. n : i \in places}) + IF n + 1 \in places THEN 1 ELSE 0
<1> DEFINE old == {i \in 1 .. n : i \in places}
           new == {i \in 1 .. n + 1 : i \in places}
<1>1. IsFiniteSet(old)
  <2>1. IsFiniteSet(1 .. n) /\ old \in SUBSET (1 .. n)
    BY FS_Interval
  <2> QED BY <2>1, FS_Subset
<1>2. Cardinality(old) \in Nat
  BY <1>1, FS_CardinalityType
<1>3. CASE n + 1 \in places
  <2>1. new = old \union {n + 1} /\ n + 1 \notin old
    BY <1>3
  <2> HIDE DEF old, new
  <2> QED BY <1>1, <1>2, <1>3, <2>1, FS_AddElement DEF old, new
<1>4. CASE n + 1 \notin places
  <2>1. new = old
    BY <1>4
  <2> QED BY <1>2, <1>4, <2>1
<1> QED BY <1>3, <1>4

(* One character more is one line feed more, or none.                      *)
LEMMA FeedsMore ==
  ASSUME NEW text \in Seq(AllCodes), NEW c \in AllCodes
  PROVE  /\ \A i \in 0 .. Len(text) : LineFeeds(Append(text, c), i) = LineFeeds(text, i)
         /\ LineFeeds(text, Len(text)) \in Nat
         /\ LineFeeds(Append(text, c), Len(text) + 1)
            = LineFeeds(text, Len(text)) + IF c = "lf" THEN 1 ELSE 0
<1> DEFINE n == Len(text)  more == Append(text, c)
           places(t) == {i \in Nat : t[i] = "lf"}
<1>1. n \in Nat /\ more[n + 1] = c /\ \A i \in 1 .. n : more[i] = text[i]
  OBVIOUS
<1>2. \A t : \A i \in Nat : LineFeeds(t, i) = Cardinality({j \in 1 .. i : j \in places(t)})
  <2> SUFFICES ASSUME NEW t, NEW i \in Nat
               PROVE  {j \in 1 .. i : t[j] = "lf"} = {j \in 1 .. i : j \in places(t)}
    BY DEF LineFeeds
  <2> QED OBVIOUS
<1> HIDE DEF n, more
<1>3. ASSUME NEW i \in 0 .. n PROVE LineFeeds(more, i) = LineFeeds(text, i)
  <2>1. {j \in 1 .. i : more[j] = "lf"} = {j \in 1 .. i : text[j] = "lf"}
    BY <1>1
  <2> QED BY <2>1 DEF LineFeeds
<1>4. n + 1 \in places(more) <=> c = "lf"
  BY <1>1
<1>5. LineFeeds(text, n) \in Nat
  <2> DEFINE set == {j \in 1 .. n : text[j] = "lf"}
  <2>1. IsFiniteSet(1 .. n) /\ set \in SUBSET (1 .. n)
    BY <1>1, FS_Interval
  <2> HIDE DEF set
  <2>2. Cardinality(set) \in Nat
    BY <2>1, FS_Subset, FS_CardinalityType
  <2> QED BY <2>2 DEF set, LineFeeds
<1>6. LineFeeds(more, n + 1) = LineFeeds(more, n) + IF c = "lf" THEN 1 ELSE 0
  <2> HIDE DEF places
  <2>0. n + 1 \in Nat
    BY <1>1
  <2>1. LineFeeds(more, n + 1) = Cardinality({j \in 1 .. n + 1 : j \in places(more)})
    BY <1>2, <2>0
  <2>2. LineFeeds(more, n) = Cardinality({j \in 1 .. n : j \in places(more)})
    BY <1>1, <1>2
  <2>3. Cardinality({j \in 1 .. n + 1 : j \in places(more)})
        = Cardinality({j \in 1 .. n : j \in places(more)})
          + IF n + 1 \in places(more) THEN 1 ELSE 0
    BY <1>1, CountMore
  <2> QED BY <1>4, <2>1, <2>2, <2>3
<1>7. LineFeeds(more, n) = LineFeeds(text, n)
  BY <1>1, <1>3
<1> QED BY <1>3, <1>5, <1>6, <1>7 DEF n, more

(* No place before the end of a text has more line feeds before it.        *)
LEMMA FeedsGrow ==
  ASSUME NEW text, NEW n \in Nat, NEW i \in 0 .. n
  PROVE  LineFeeds(text, i) \in Nat /\ LineFeeds(text, i) <= LineFeeds(text, n)
<1> DEFINE few == {j \in 1 .. i : text[j] = "lf"}
           many == {j \in 1 .. n : text[j] = "lf"}
<1>1. IsFiniteSet(many)
  <2>1. IsFiniteSet(1 .. n) /\ many \in SUBSET (1 .. n)
    BY FS_Interval
  <2> QED BY <2>1, FS_Subset
<1>2. few \in SUBSET many
  OBVIOUS
<1> HIDE DEF few, many
<1>3. IsFiniteSet(few) /\ Cardinality(few) <= Cardinality(many)
  BY <1>1, <1>2, FS_Subset
<1>4. Cardinality(few) \in Nat
  BY <1>3, FS_CardinalityType
<1> QED BY <1>3, <1>4 DEF few, many, LineFeeds

(* The dots of one character more.                                         *)
LEMMA DotsMore ==
  ASSUME NEW text \in Seq(AllCodes), NEW c \in AllCodes
  PROVE  /\ \A i \in 0 .. Len(text) : Dots(Append(text, c), i) = Dots(text, i)
         /\ Dots(text, Len(text)) \in Nat
         /\ Dots(Append(text, c), Len(text) + 1)
            = Dots(text, Len(text)) + charspacing + IF InFont(c) THEN CharWidth ELSE 0
<1> DEFINE n == Len(text)  more == Append(text, c)
           places(t) == {i \in Nat : InFont(t[i])}
           seen(t, i) == Cardinality({j \in 1 .. i : InFont(t[j])})
<1>1. n \in Nat /\ more[n + 1] = c /\ \A i \in 1 .. n : more[i] = text[i]
  OBVIOUS
<1>2. \A t : \A i \in Nat : seen(t, i) = Cardinality({j \in 1 .. i : j \in places(t)})
  <2> SUFFICES ASSUME NEW t, NEW i \in Nat
               PROVE  {j \in 1 .. i : InFont(t[j])} = {j \in 1 .. i : j \in places(t)}
    OBVIOUS
  <2> QED OBVIOUS
<1> HIDE DEF n, more
<1>3. ASSUME NEW i \in 0 .. n PROVE seen(more, i) = seen(text, i)
  <2>1. {j \in 1 .. i : InFont(more[j])} = {j \in 1 .. i : InFont(text[j])}
    BY <1>1
  <2> QED BY <2>1
<1>4. n + 1 \in places(more) <=> InFont(c)
  BY <1>1
<1>5. seen(text, n) \in Nat
  <2> DEFINE set == {j \in 1 .. n : InFont(text[j])}
  <2>1. IsFiniteSet(1 .. n) /\ set \in SUBSET (1 .. n)
    BY <1>1, FS_Interval
  <2> HIDE DEF set
  <2>2. Cardinality(set) \in Nat
    BY <2>1, FS_Subset, FS_CardinalityType
  <2> QED BY <2>2 DEF set
<1>6. seen(more, n + 1) = seen(more, n) + IF InFont(c) THEN 1 ELSE 0
  <2> HIDE DEF places, seen
  <2>0. n + 1 \in Nat
    BY <1>1
  <2>1. seen(more, n + 1) = Cardinality({j \in 1 .. n + 1 : j \in places(more)})
    BY <1>2, <2>0
  <2>2. seen(more, n) = Cardinality({j \in 1 .. n : j \in places(more)})
    BY <1>1, <1>2
  <2>3. Cardinality({j \in 1 .. n + 1 : j \in places(more)})
        = Cardinality({j \in 1 .. n : j \in places(more)})
          + IF n + 1 \in places(more) THEN 1 ELSE 0
    BY <1>1, CountMore
  <2> QED BY <1>4, <2>1, <2>2, <2>3
<1>7. \A t, i : Dots(t, i) = i * charspacing + CharWidth * seen(t, i)
  BY DEF Dots
<1>8. seen(more, n) = seen(text, n)
  BY <1>1, <1>3
<1> HIDE DEF seen
<1>9. charspacing \in Nat /\ CharWidth \in Nat
  BY SizesAssumption DEF SizesAssumption
<1>10. Dots(text, n) \in Nat
  <2>1. n * charspacing \in Nat /\ CharWidth * seen(text, n) \in Nat
    BY <1>1, <1>5, <1>9
  <2> QED BY <1>7, <2>1
<1>11. Dots(more, n + 1) = Dots(text, n) + charspacing + IF InFont(c) THEN CharWidth ELSE 0
  <2> DEFINE s == seen(text, n)
  <2>0. s \in Nat
    BY <1>5
  <2>1. (n + 1) * charspacing = n * charspacing + charspacing
    BY <1>1, <1>9
  <2>2. CharWidth * (s + 1) = CharWidth * s + CharWidth
    BY <2>0, <1>9
  <2>3. Dots(more, n + 1) = (n + 1) * charspacing + CharWidth * seen(more, n + 1)
    BY <1>7
  <2>4. Dots(text, n) = n * charspacing + CharWidth * s
    BY <1>7
  <2>5. CharWidth * s \in Nat /\ n * charspacing \in Nat
    BY <1>1, <1>9, <2>0
  <2>6. CASE InFont(c)
    <3>1. seen(more, n + 1) = s + 1
      BY <1>6, <1>8, <2>6
    <3> QED BY <1>9, <2>1, <2>2, <2>3, <2>4, <2>5, <2>6, <3>1
  <2>7. CASE ~InFont(c)
    <3>1. seen(more, n + 1) = s
      BY <1>6, <1>8, <2>0, <2>7
    <3> QED BY <1>9, <2>1, <2>3, <2>4, <2>5, <2>7, <3>1
  <2> QED BY <2>6, <2>7
<1>12. ASSUME NEW i \in 0 .. n PROVE Dots(more, i) = Dots(text, i)
  BY <1>3, <1>7
<1> QED BY <1>10, <1>11, <1>12 DEF n, more

(* One character more makes one part more.                                 *)
LEMMA PartsMore ==
  ASSUME NEW S, NEW n \in Nat, NEW old, NEW new,
         DOMAIN old = 1 .. n, DOMAIN new = 1 .. n + 1,
         old = [i \in 1 .. n |-> old[i]], new = [i \in 1 .. n + 1 |-> new[i]],
         \A i \in 1 .. n : old[i] \in Seq(S) /\ new[i] = old[i],
         new[n + 1] \in Seq(S)
  PROVE  /\ FlattenSeq(new) = FlattenSeq(old) \o new[n + 1]
         /\ FlattenSeq(old) \in Seq(S)
<1> DEFINE E == Seq(S)
<1>0. \A f, m : m \in Nat /\ f \in [1 .. m -> E] => f \in Seq(E)
  <2> SUFFICES ASSUME NEW m \in Nat, NEW f \in [1 .. m -> E] PROVE f \in Seq(E)
    OBVIOUS
  <2> HIDE DEF E
  <2> QED BY SeqDef
<1>1. old \in Seq(E) /\ new[n + 1] \in E
  <2>1. old \in [1 .. n -> E]
    BY Zenon
  <2> QED BY <1>0, <2>1
<1>2. new \in Seq(E)
  <2>1. \A i \in 1 .. n + 1 : i = n + 1 \/ i \in 1 .. n
    OBVIOUS
  <2>2. \A i \in 1 .. n + 1 : new[i] \in E
    BY <2>1, Zenon
  <2>3. new \in [1 .. n + 1 -> E]
    BY <2>2, Zenon
  <2>4. n + 1 \in Nat
    OBVIOUS
  <2> QED BY <1>0, <2>3, <2>4
<1>3. Len(old) = n /\ Len(new) = n + 1
  BY <1>1, <1>2
<1>4. new = Append(old, new[n + 1])
  <2> HIDE DEF E
  <2>1. Append(old, new[n + 1]) \in Seq(E) /\ Len(Append(old, new[n + 1])) = n + 1
    BY <1>1, <1>3
  <2>2. \A i \in 1 .. n + 1 : new[i] = Append(old, new[n + 1])[i]
    <3> SUFFICES ASSUME NEW i \in 1 .. n + 1 PROVE new[i] = Append(old, new[n + 1])[i]
      OBVIOUS
    <3>1. CASE i = n + 1
      BY <1>1, <1>3, <3>1
    <3>2. CASE i # n + 1
      <4>1. i \in 1 .. n
        BY <3>2
      <4>2. Append(old, new[n + 1])[i] = old[i]
        BY <1>1, <1>3, <4>1
      <4>3. new[i] = old[i]
        BY <4>1
      <4> QED BY <4>2, <4>3
    <3> QED BY <3>1, <3>2
  <2> QED BY <1>2, <1>3, <2>1, <2>2, SeqEqual
<1>5. FlattenSeq(Append(old, new[n + 1])) = FlattenSeq(old) \o new[n + 1]
  BY <1>1, FlattenAppend
<1>6. FlattenSeq(old) \in Seq(S)
  BY <1>1, FlattenType
<1> QED BY <1>4, <1>5, <1>6

-----------------------------------------------------------------------------
(* What the k-th line takes of the i-th character.                         *)
LEMMA TextLineMore ==
  ASSUME NEW text \in Seq(AllCodes), NEW c \in AllCodes, NEW k \in Nat
  PROVE  /\ TextLine(text, k) \in Seq(AllCodes)
         /\ TextLine(Append(text, c), k)
            = IF c # "lf" /\ LineFeeds(text, Len(text)) = k THEN Append(TextLine(text, k), c)
              ELSE TextLine(text, k)
<1> DEFINE n == Len(text)  more == Append(text, c)
           took(t, i) == IF t[i] # "lf" /\ LineFeeds(t, i) = k THEN <<t[i]>> ELSE <<>>
           old == [i \in 1 .. n |-> took(text, i)]
           new == [i \in 1 .. n + 1 |-> took(more, i)]
<1>1. /\ n \in Nat /\ Len(more) = n + 1 /\ more[n + 1] = c
      /\ \A i \in 1 .. n : more[i] = text[i] /\ text[i] \in AllCodes
  OBVIOUS
<1>2. \A i \in 1 .. n : LineFeeds(more, i) = LineFeeds(text, i)
  BY FeedsMore
<1>3. c # "lf" => LineFeeds(more, n + 1) = LineFeeds(text, n)
  <2>1. LineFeeds(text, n) \in Nat
    BY FeedsMore
  <2>2. LineFeeds(more, n + 1) = LineFeeds(text, n) + IF c = "lf" THEN 1 ELSE 0
    BY FeedsMore
  <2> QED BY <2>1, <2>2
<1>4. \A i \in 1 .. n : took(text, i) \in Seq(AllCodes) /\ took(more, i) = took(text, i)
  <2> HIDE DEF n, more
  <2>1. \A x \in AllCodes : <<x>> \in Seq(AllCodes) /\ <<>> \in Seq(AllCodes)
    OBVIOUS
  <2> QED BY <1>1, <1>2, <2>1
<1>5. took(more, n + 1) = (IF c # "lf" /\ LineFeeds(text, n) = k THEN <<c>> ELSE <<>>)
  <2> HIDE DEF n, more
  <2> QED BY <1>1, <1>3
<1>6. took(more, n + 1) \in Seq(AllCodes)
  <2> HIDE DEF n, more, took
  <2>1. <<c>> \in Seq(AllCodes) /\ <<>> \in Seq(AllCodes)
    OBVIOUS
  <2> QED BY <1>5, <2>1
<1>7. TextLine(text, k) = FlattenSeq(old) /\ TextLine(more, k) = FlattenSeq(new)
  <2> HIDE DEF n, more
  <2> QED BY <1>1 DEF TextLine, n
<1> HIDE DEF n, more, took
<1>8. /\ DOMAIN old = 1 .. n /\ DOMAIN new = 1 .. n + 1
      /\ old = [i \in 1 .. n |-> old[i]] /\ new = [i \in 1 .. n + 1 |-> new[i]]
      /\ \A i \in 1 .. n : old[i] \in Seq(AllCodes) /\ new[i] = old[i]
      /\ new[n + 1] = took(more, n + 1)
  <2>1. \A i \in 1 .. n : i \in 1 .. n + 1
    BY <1>1
  <2>2. n + 1 \in 1 .. n + 1
    BY <1>1
  <2> QED BY <1>4, <2>1, <2>2, Zenon
<1> HIDE DEF old, new
<1>9. FlattenSeq(new) = FlattenSeq(old) \o new[n + 1] /\ FlattenSeq(old) \in Seq(AllCodes)
  <2>1. new[n + 1] \in Seq(AllCodes) /\ n \in Nat
    BY <1>1, <1>6, <1>8
  <2> QED BY <1>8, <2>1, PartsMore, Zenon
<1>10. \A s \in Seq(AllCodes) : s \o <<>> = s /\ s \o <<c>> = Append(s, c)
  OBVIOUS
<1> QED BY <1>5, <1>7, <1>8, <1>9, <1>10 DEF n, more

(* One character more fits in behind the others, or is dropped.            *)
LEMMA FittingMore ==
  ASSUME NEW text \in Seq(AllCodes), NEW c \in AllCodes
  PROVE  /\ Fitting(text) \in Seq(AllCodes)
         /\ Fitting(Append(text, c))
            = IF InFont(c) /\ Dots(text, Len(text)) + CharWidth < LineWidth
              THEN Append(Fitting(text), c) ELSE Fitting(text)
<1> DEFINE n == Len(text)  more == Append(text, c)
           fits(t, j) == InFont(t[j]) /\ Dots(t, j - 1) + CharWidth < LineWidth
           took(t, j) == IF fits(t, j) THEN <<t[j]>> ELSE <<>>
           old == [j \in 1 .. n |-> took(text, j)]
           new == [j \in 1 .. n + 1 |-> took(more, j)]
<1>1. /\ n \in Nat /\ Len(more) = n + 1 /\ more[n + 1] = c
      /\ \A i \in 1 .. n : more[i] = text[i] /\ text[i] \in AllCodes
  OBVIOUS
<1>2. \A i \in 0 .. n : Dots(more, i) = Dots(text, i)
  BY DotsMore
<1>3. \A j \in 1 .. n + 1 : Dots(more, j - 1) = Dots(text, j - 1)
  <2> HIDE DEF n, more
  <2>1. \A j \in 1 .. n + 1 : j - 1 \in 0 .. n
    BY <1>1
  <2> QED BY <1>2, <2>1
<1>4. \A i \in 1 .. n : took(text, i) \in Seq(AllCodes) /\ took(more, i) = took(text, i)
  <2> HIDE DEF n, more
  <2>1. \A x \in AllCodes : <<x>> \in Seq(AllCodes) /\ <<>> \in Seq(AllCodes)
    OBVIOUS
  <2>2. \A i \in 1 .. n : i \in 1 .. n + 1
    BY <1>1
  <2> QED BY <1>1, <1>3, <2>1, <2>2
<1>5. took(more, n + 1)
      = (IF InFont(c) /\ Dots(text, n) + CharWidth < LineWidth THEN <<c>> ELSE <<>>)
  <2> HIDE DEF n, more
  <2>1. n + 1 \in 1 .. n + 1 /\ n + 1 - 1 = n
    BY <1>1
  <2> QED BY <1>1, <1>3, <2>1
<1>6. took(more, n + 1) \in Seq(AllCodes)
  <2> HIDE DEF n, more, took
  <2>1. <<c>> \in Seq(AllCodes) /\ <<>> \in Seq(AllCodes)
    OBVIOUS
  <2> QED BY <1>5, <2>1
<1>7. Fitting(text) = FlattenSeq(old) /\ Fitting(more) = FlattenSeq(new)
  <2> HIDE DEF n, more
  <2> QED BY <1>1 DEF Fitting, n
<1> HIDE DEF n, more, took
<1>8. /\ DOMAIN old = 1 .. n /\ DOMAIN new = 1 .. n + 1
      /\ old = [i \in 1 .. n |-> old[i]] /\ new = [i \in 1 .. n + 1 |-> new[i]]
      /\ \A i \in 1 .. n : old[i] \in Seq(AllCodes) /\ new[i] = old[i]
      /\ new[n + 1] = took(more, n + 1)
  <2>1. \A i \in 1 .. n : i \in 1 .. n + 1
    BY <1>1
  <2>2. n + 1 \in 1 .. n + 1
    BY <1>1
  <2> QED BY <1>4, <2>1, <2>2, Zenon
<1> HIDE DEF old, new
<1>9. FlattenSeq(new) = FlattenSeq(old) \o new[n + 1] /\ FlattenSeq(old) \in Seq(AllCodes)
  <2>1. new[n + 1] \in Seq(AllCodes) /\ n \in Nat
    BY <1>1, <1>6, <1>8
  <2> QED BY <1>8, <2>1, PartsMore, Zenon
<1>10. \A s \in Seq(AllCodes) : s \o <<>> = s /\ s \o <<c>> = Append(s, c)
  OBVIOUS
<1> QED BY <1>5, <1>7, <1>8, <1>9, <1>10 DEF n, more

(* There is no line behind the last.                                       *)
LEMMA TextLineBeyond ==
  ASSUME NEW text \in Seq(AllCodes), NEW k \in Nat, k > LineFeeds(text, Len(text))
  PROVE  TextLine(text, k) = <<>>
<1> DEFINE n == Len(text)
           parts == [i \in 1 .. n |->
                      IF text[i] # "lf" /\ LineFeeds(text, i) = k THEN <<text[i]>> ELSE <<>>]
<1>1. n \in Nat
  OBVIOUS
<1>2. \A i \in 1 .. n : LineFeeds(text, i) # k
  <2> HIDE DEF n
  <2> SUFFICES ASSUME NEW i \in 1 .. n PROVE LineFeeds(text, i) # k
    OBVIOUS
  <2>1. i \in 0 .. n /\ n \in 0 .. n
    BY <1>1
  <2>2. LineFeeds(text, i) \in Nat /\ LineFeeds(text, i) <= LineFeeds(text, n)
    BY <1>1, <2>1, FeedsGrow
  <2>3. LineFeeds(text, n) \in Nat
    BY <1>1, <2>1, FeedsGrow
  <2>4. k > LineFeeds(text, n)
    BY DEF n
  <2> QED BY <2>2, <2>3, <2>4
<1>3. parts = [i \in 1 .. n |-> <<>>]
  BY <1>2
<1>4. [i \in 1 .. n |-> <<>>] \in Seq(Seq(AllCodes)) /\ Len([i \in 1 .. n |-> <<>>]) = n
  <2> HIDE DEF n
  <2>1. <<>> \in Seq(AllCodes)
    OBVIOUS
  <2> QED BY <1>1, <2>1
<1>5. FlattenSeq([i \in 1 .. n |-> <<>>]) = <<>>
  <2> HIDE DEF n
  <2> DEFINE q == [i \in 1 .. n |-> <<>>]
  <2>1. \A i \in 1 .. n : q[i] = <<>>
    OBVIOUS
  <2> HIDE DEF q
  <2> QED BY <1>4, <2>1, FlattenNothing DEF q
<1> QED BY <1>3, <1>5 DEF TextLine

(* The line that is being drawn, and those before.                         *)
Current(text) == TextLine(text, LineFeeds(text, Len(text)))
Complete(text) == [k \in 1 .. LineFeeds(text, Len(text)) |-> Fitting(TextLine(text, k - 1))]

LEMMA LinesSplit ==
  ASSUME NEW text \in Seq(AllCodes)
  PROVE  /\ Current(text) \in Seq(AllCodes)
         /\ Complete(text) \in Seq(Seq(AllCodes))
         /\ LinesOf(text) = Append(Complete(text), Fitting(Current(text)))
<1> DEFINE m == LineFeeds(text, Len(text))
           E == Seq(AllCodes)
           drawn(k) == Fitting(TextLine(text, k - 1))
<1>1. m \in Nat
  <2>1. Len(text) \in Nat /\ Len(text) \in 0 .. Len(text)
    OBVIOUS
  <2> QED BY <2>1, FeedsGrow
<1>2. "a" \in AllCodes
  BY DEF AllCodes
<1>3. \A k \in Nat : TextLine(text, k) \in E
  BY <1>2, TextLineMore
<1>4. \A t \in E : Fitting(t) \in E
  BY <1>2, FittingMore
<1> HIDE DEF m
<1>5. \A k \in 1 .. m + 1 : drawn(k) \in E
  <2>1. \A k \in 1 .. m + 1 : k - 1 \in Nat
    BY <1>1
  <2> HIDE DEF E
  <2> QED BY <1>3, <1>4, <2>1
<1>6. Current(text) \in E
  <2> HIDE DEF E
  <2> QED BY <1>1, <1>3 DEF Current, m
<1> DEFINE all == [k \in 1 .. m + 1 |-> drawn(k)]
           first == [k \in 1 .. m |-> drawn(k)]
<1> HIDE DEF E, drawn
<1>7. all \in Seq(E) /\ Len(all) = m + 1 /\ first \in Seq(E) /\ Len(first) = m
  BY <1>1, <1>5
<1>8. Append(first, drawn(m + 1)) = all
  <2>1. drawn(m + 1) \in E
    BY <1>1, <1>5
  <2>2. \A k \in 1 .. m : all[k] = first[k]
    BY <1>1
  <2>3. all[m + 1] = drawn(m + 1)
    BY <1>1
  <2> HIDE DEF all, first
  <2>4. Append(first, drawn(m + 1)) \in Seq(E) /\ Len(Append(first, drawn(m + 1))) = m + 1
    BY <1>7, <2>1
  <2>5. \A k \in 1 .. m + 1 : all[k] = Append(first, drawn(m + 1))[k]
    <3> SUFFICES ASSUME NEW k \in 1 .. m + 1 PROVE all[k] = Append(first, drawn(m + 1))[k]
      OBVIOUS
    <3>1. CASE k = m + 1
      BY <1>7, <2>1, <2>3, <3>1
    <3>2. CASE k # m + 1
      <4>1. k \in 1 .. m
        BY <1>1, <3>2
      <4>2. Append(first, drawn(m + 1))[k] = first[k]
        BY <1>7, <2>1, <4>1
      <4> QED BY <2>2, <4>1, <4>2
    <3> QED BY <3>1, <3>2
  <2> QED BY <1>7, <2>4, <2>5, SeqEqual
<1>9. drawn(m + 1) = Fitting(Current(text))
  <2>1. (m + 1) - 1 = m
    BY <1>1
  <2>2. drawn(m + 1) = Fitting(TextLine(text, (m + 1) - 1))
    BY Zenon DEF drawn
  <2>3. Fitting(TextLine(text, (m + 1) - 1)) = Fitting(TextLine(text, m))
    BY <2>1, Zenon
  <2> QED BY <2>2, <2>3, Zenon DEF Current, m
<1>10. LinesOf(text) = all /\ Complete(text) = first
  BY DEF LinesOf, Complete, m, drawn
<1> HIDE DEF all, first
<1> QED BY <1>6, <1>7, <1>8, <1>9, <1>10 DEF E

(* A line feed completes the line; any other character goes on with it.    *)
LEMMA LinesMore ==
  ASSUME NEW text \in Seq(AllCodes), NEW c \in AllCodes
  PROVE  /\ c # "lf" => /\ Complete(Append(text, c)) = Complete(text)
                        /\ Current(Append(text, c)) = Append(Current(text), c)
         /\ c = "lf" => /\ Complete(Append(text, c)) = LinesOf(text)
                        /\ Current(Append(text, c)) = <<>>
<1> DEFINE more == Append(text, c)
           m == LineFeeds(text, Len(text))
           w == LineFeeds(more, Len(more))
<1>1. Len(more) = Len(text) + 1 /\ Len(text) \in Nat /\ more \in Seq(AllCodes)
  OBVIOUS
<1>2. m \in Nat /\ w = m + IF c = "lf" THEN 1 ELSE 0
  <2>1. m \in Nat
    BY FeedsMore
  <2>2. LineFeeds(more, Len(text) + 1) = m + IF c = "lf" THEN 1 ELSE 0
    BY FeedsMore
  <2> HIDE DEF more
  <2> QED BY <1>1, <2>1, <2>2
<1>3. \A k \in Nat : TextLine(more, k) = IF c # "lf" /\ m = k THEN Append(TextLine(text, k), c)
                                         ELSE TextLine(text, k)
  BY TextLineMore
<1> HIDE DEF more, m, w
<1>4. CASE c # "lf"
  <2>1. w = m
    BY <1>2, <1>4
  <2>2. Current(more) = Append(Current(text), c)
    BY <1>2, <1>3, <1>4, <2>1 DEF Current, w, m
  <2>3. \A k \in 1 .. m : Fitting(TextLine(more, k - 1)) = Fitting(TextLine(text, k - 1))
    <3>1. \A k \in 1 .. m : k - 1 \in Nat /\ k - 1 # m
      BY <1>2
    <3> QED BY <1>3, <3>1
  <2>4. Complete(more) = Complete(text)
    BY <2>1, <2>3 DEF Complete, w, m
  <2> QED BY <1>4, <2>2, <2>4 DEF more
<1>5. CASE c = "lf"
  <2>1. w = m + 1
    BY <1>2, <1>5
  <2>2. Current(more) = <<>>
    <3>1. TextLine(more, m + 1) = TextLine(text, m + 1)
      BY <1>2, <1>3, <1>5
    <3>2. TextLine(text, m + 1) = <<>>
      <4>1. m + 1 \in Nat /\ m + 1 > LineFeeds(text, Len(text))
        BY <1>2 DEF m
      <4> QED BY <4>1, TextLineBeyond
    <3> QED BY <2>1, <3>1, <3>2 DEF Current, w
  <2>3. \A k \in 1 .. m + 1 : Fitting(TextLine(more, k - 1)) = Fitting(TextLine(text, k - 1))
    <3>1. \A k \in 1 .. m + 1 : k - 1 \in Nat
      BY <1>2
    <3> QED BY <1>3, <1>5, <3>1
  <2>4. Complete(more) = LinesOf(text)
    BY <2>1, <2>3 DEF Complete, LinesOf, w, m
  <2> QED BY <1>5, <2>2, <2>4 DEF more
<1> QED BY <1>4, <1>5

-----------------------------------------------------------------------------
(* First is the least of a set of places.                                  *)
LEMMA FirstLeast ==
  ASSUME NEW set, set \subseteq Nat, set # {}
  PROVE  First(set) \in set /\ \A j \in set : First(set) <= j
<1>1. \E i \in set : \A j \in set : i <= j
  BY LeastNumber
<1> QED BY <1>1 DEF First

(* Sets with the same least place.                                         *)
LEMMA FirstSame ==
  ASSUME NEW few, NEW many, many \subseteq Nat, few \subseteq many, few # {},
         \A x \in many \ few, y \in few : y < x
  PROVE  First(many) = First(few)
<1>1. First(few) \in few /\ \A j \in few : First(few) <= j
  BY FirstLeast
<1>2. First(many) \in many /\ \A j \in many : First(many) <= j
  BY FirstLeast
<1>3. First(many) \in Nat /\ First(few) \in Nat /\ First(many) <= First(few)
  BY <1>1, <1>2
<1>4. First(many) \in few
  <2> SUFFICES ASSUME First(many) \notin few PROVE FALSE
    OBVIOUS
  <2>1. First(few) < First(many)
    BY <1>1, <1>2
  <2> QED BY <1>3, <2>1
<1>5. First(few) <= First(many)
  BY <1>1, <1>4
<1> QED BY <1>3, <1>5

(* LastOf of sets of one place and of none.                                *)
LEMMA LastOfOne == ASSUME NEW x \in Nat PROVE LastOf({x}) = x
<1>1. First({x}) \in {x}
  <2>1. {x} \subseteq Nat /\ {x} # {}
    OBVIOUS
  <2> QED BY <2>1, FirstLeast
<1> QED BY <1>1 DEF LastOf

LEMMA LastOfNone ==
  ASSUME NEW set, set \subseteq Nat \ {0}
  PROVE  /\ LastOf(set) = 0 <=> set = {}
         /\ set # {} => LastOf(set) = First(set) /\ First(set) \in set
<1>1. CASE set = {}
  BY <1>1 DEF LastOf
<1>2. CASE set # {}
  <2>1. First(set) \in set
    BY <1>2, FirstLeast
  <2> QED BY <1>2, <2>1 DEF LastOf
<1> QED BY <1>1, <1>2

-----------------------------------------------------------------------------
(* A character more of the input.                                          *)
More(c) ==
  /\ process \in BOOLEAN /\ codes \in Seq(AllCodes) /\ c \in AllCodes
  /\ process' = process /\ codes' = Append(codes, c)

(* What the history of the input holds then.                               *)
LEMMA MoreCodes ==
  ASSUME NEW c, More(c)
  PROVE  /\ Len(codes) \in Nat /\ Len(codes') = Len(codes) + 1
         /\ codes'[Len(codes) + 1] = c /\ codes' \in Seq(AllCodes)
         /\ \A j \in 1 .. Len(codes) : codes'[j] = codes[j] /\ codes[j] \in AllCodes
  BY DEF More

TagPlaces(i) == {j \in i + 1 .. Len(codes) : codes[j] \in {"<", ">"} \/ j = i + TAG_BUFSIZE + 1}

(* One character more is one place more, or none.                          *)
LEMMA TagPlacesMore ==
  ASSUME NEW c, More(c), NEW i \in 1 .. Len(codes)
  PROVE  /\ TagPlaces(i) \subseteq i + 1 .. Len(codes)
         /\ TagPlaces(i)' = TagPlaces(i) \union
              IF c \in {"<", ">"} \/ Len(codes) + 1 = i + TAG_BUFSIZE + 1
              THEN {Len(codes) + 1} ELSE {}
<1> DEFINE n == Len(codes)
<1>1. /\ n \in Nat /\ Len(codes') = n + 1 /\ codes'[n + 1] = c
      /\ \A j \in 1 .. n : codes'[j] = codes[j]
  BY MoreCodes
<1>2. i \in Nat /\ 1 <= i /\ i <= n
  BY <1>1
<1>3. \A j : j \in i + 1 .. n + 1 <=> j \in i + 1 .. n \/ j = n + 1
  BY <1>1, <1>2
<1>4. \A j \in i + 1 .. n : codes'[j] = codes[j]
  BY <1>1, <1>2
<1>5. n + 1 \notin i + 1 .. n
  BY <1>1, <1>2
<1>6. TagPlaces(i)' = {j \in i + 1 .. n + 1 : codes'[j] \in {"<", ">"} \/ j = i + TAG_BUFSIZE + 1}
  BY <1>1 DEF TagPlaces
<1> QED BY <1>1, <1>3, <1>4, <1>5, <1>6 DEF TagPlaces

(* The end of a tag is the first of its places.                            *)
LEMMA TagEndIs ==
  ASSUME codes \in Seq(AllCodes), NEW i \in 1 .. Len(codes)
  PROVE  /\ TagEnd(i) = 0 <=> TagPlaces(i) = {}
         /\ TagEnd(i) # 0 => TagEnd(i) = First(TagPlaces(i)) /\ TagEnd(i) \in TagPlaces(i)
<1>1. TagPlaces(i) \subseteq Nat \ {0}
  BY DEF TagPlaces
<1>2. TagEnd(i) = LastOf(TagPlaces(i))
  BY DEF TagEnd, TagPlaces
<1> HIDE DEF TagPlaces
<1> QED BY <1>1, <1>2, LastOfNone

(* The same of the next state.                                             *)
LEMMA TagEndPrime ==
  ASSUME codes' \in Seq(AllCodes), NEW i \in 1 .. Len(codes')
  PROVE  /\ TagEnd(i)' = 0 <=> TagPlaces(i)' = {}
         /\ TagEnd(i)' # 0 => TagEnd(i)' = First(TagPlaces(i)')
<1>1. TagPlaces(i)' \subseteq Nat \ {0}
  BY DEF TagPlaces
<1>2. TagEnd(i)' = LastOf(TagPlaces(i)')
  BY DEF TagEnd, TagPlaces, LastOf, First
<1> QED BY <1>1, <1>2, LastOfNone

(* The end of a tag stays where it is once it is known.                    *)
LEMMA TagEndKept ==
  ASSUME NEW c, More(c), NEW i \in 1 .. Len(codes), TagEnd(i) # 0
  PROVE  TagEnd(i)' = TagEnd(i) /\ TagEnd(i) \in i + 1 .. Len(codes)
<1> DEFINE n == Len(codes)
<1>1. codes \in Seq(AllCodes) /\ codes' \in Seq(AllCodes) /\ i \in 1 .. Len(codes') /\ n \in Nat
  BY MoreCodes DEF More
<1>2. /\ TagPlaces(i) # {} /\ TagEnd(i) = First(TagPlaces(i)) /\ TagEnd(i) \in TagPlaces(i)
  BY <1>1, TagEndIs
<1>3. TagPlaces(i) \subseteq i + 1 .. n /\ TagPlaces(i) \subseteq TagPlaces(i)'
      /\ TagPlaces(i)' \ TagPlaces(i) \subseteq {n + 1}
  BY TagPlacesMore
<1>4. TagPlaces(i)' # {}
  BY <1>2, <1>3
<1>5. First(TagPlaces(i)') = First(TagPlaces(i))
  <2> DEFINE few == TagPlaces(i)  many == TagPlaces(i)'
  <2>1. few # {} /\ few \subseteq many /\ few \subseteq i + 1 .. n /\ many \ few \subseteq {n + 1}
    BY <1>2, <1>3
  <2> HIDE DEF few, many
  <2>2. many \subseteq Nat /\ \A x \in many \ few, y \in few : y < x
    BY <1>1, <2>1
  <2>3. First(many) = First(few)
    BY <2>1, <2>2, FirstSame
  <2> QED BY <2>3 DEF few, many
<1>6. TagEnd(i)' = First(TagPlaces(i)')
  BY <1>1, <1>4, TagEndPrime
<1> QED BY <1>2, <1>3, <1>5, <1>6

(* A tag that has not ended may end with the next character.               *)
LEMMA TagEndNew ==
  ASSUME NEW c, More(c), NEW i \in 1 .. Len(codes), TagEnd(i) = 0
  PROVE  TagEnd(i)' = IF c \in {"<", ">"} \/ Len(codes) = i + TAG_BUFSIZE THEN Len(codes) + 1 ELSE 0
<1> DEFINE n == Len(codes)
<1>1. codes \in Seq(AllCodes) /\ codes' \in Seq(AllCodes) /\ i \in 1 .. Len(codes') /\ n \in Nat
  BY MoreCodes DEF More
<1>2. TagPlaces(i) = {}
  BY <1>1, TagEndIs
<1>3. n + 1 = i + TAG_BUFSIZE + 1 <=> n = i + TAG_BUFSIZE
  BY <1>1, SizesAssumption DEF SizesAssumption
<1>4. TagPlaces(i)' = IF c \in {"<", ">"} \/ n = i + TAG_BUFSIZE THEN {n + 1} ELSE {}
  BY <1>2, <1>3, TagPlacesMore
<1>5. CASE c \in {"<", ">"} \/ n = i + TAG_BUFSIZE
  <2>1. TagPlaces(i)' = {n + 1}
    BY <1>4, <1>5
  <2>2. TagEnd(i)' = First({n + 1})
    BY <1>1, <2>1, TagEndPrime
  <2>3. First({n + 1}) \in {n + 1}
    <3>1. {n + 1} \subseteq Nat /\ {n + 1} # {}
      BY <1>1
    <3> QED BY <3>1, FirstLeast
  <2> QED BY <1>5, <2>2, <2>3
<1>6. CASE ~(c \in {"<", ">"} \/ n = i + TAG_BUFSIZE)
  <2>1. TagPlaces(i)' = {}
    BY <1>4, <1>6
  <2>2. TagEnd(i)' = 0
    BY <1>1, <2>1, TagEndPrime
  <2> QED BY <1>6, <2>2
<1> QED BY <1>5, <1>6

-----------------------------------------------------------------------------
(* Where the header of a QR code breaks off, and where its data end.       *)
OddPlaces(i) == {j \in i + 2 .. i + 1 + HeaderDigits : j <= Len(codes) /\ codes[j] # "5"}
EscPlaces(i) == {j \in i + 2 + HeaderDigits .. Len(codes) : codes[j] = "esc"}

(* One character more is one place more, or none.                          *)
LEMMA QrPlacesMore ==
  ASSUME NEW c, More(c), NEW i \in 1 .. Len(codes)
  PROVE  /\ OddPlaces(i) \subseteq i + 2 .. Len(codes)
         /\ EscPlaces(i) \subseteq i + 2 .. Len(codes)
         /\ OddPlaces(i)' = OddPlaces(i) \union
              IF c # "5" /\ Len(codes) + 1 \in i + 2 .. i + 1 + HeaderDigits
              THEN {Len(codes) + 1} ELSE {}
         /\ EscPlaces(i)' = EscPlaces(i) \union
              IF c = "esc" /\ Len(codes) > i + HeaderDigits THEN {Len(codes) + 1} ELSE {}
<1> DEFINE n == Len(codes)
<1>1. /\ n \in Nat /\ Len(codes') = n + 1 /\ codes'[n + 1] = c
      /\ \A j \in 1 .. n : codes'[j] = codes[j]
  BY MoreCodes
<1>2. i \in Nat /\ 1 <= i /\ i <= n /\ HeaderDigits \in Nat
  BY <1>1, SizesAssumption DEF SizesAssumption
<1>3. \A j \in i + 2 .. i + 1 + HeaderDigits : j <= n + 1 <=> j <= n \/ j = n + 1
  BY <1>1, <1>2
<1>4. \A j \in i + 2 .. i + 1 + HeaderDigits : j <= n => codes'[j] = codes[j]
  BY <1>1, <1>2
<1>5. OddPlaces(i)' = {j \in i + 2 .. i + 1 + HeaderDigits : j <= n + 1 /\ codes'[j] # "5"}
  BY <1>1 DEF OddPlaces
<1>6. OddPlaces(i)' = OddPlaces(i) \union
        IF c # "5" /\ n + 1 \in i + 2 .. i + 1 + HeaderDigits THEN {n + 1} ELSE {}
  BY <1>1, <1>3, <1>4, <1>5 DEF OddPlaces
<1>7. EscPlaces(i)' = {j \in i + 2 + HeaderDigits .. n + 1 : codes'[j] = "esc"}
  BY <1>1 DEF EscPlaces
<1>8. \A j : j \in i + 2 + HeaderDigits .. n + 1
             <=> j \in i + 2 + HeaderDigits .. n \/ (j = n + 1 /\ n > i + HeaderDigits)
  BY <1>1, <1>2
<1>9. \A j \in i + 2 + HeaderDigits .. n : codes'[j] = codes[j]
  BY <1>1, <1>2
<1>10. EscPlaces(i)' = EscPlaces(i) \union
         IF c = "esc" /\ n > i + HeaderDigits THEN {n + 1} ELSE {}
  BY <1>1, <1>7, <1>8, <1>9 DEF EscPlaces
<1>11. OddPlaces(i) \subseteq i + 2 .. n /\ EscPlaces(i) \subseteq i + 2 .. n
  BY <1>1, <1>2 DEF OddPlaces, EscPlaces
<1> QED BY <1>6, <1>10, <1>11

(* The end of a QR code is the first of its places.                        *)
LEMMA QrEndIs ==
  ASSUME codes \in Seq(AllCodes), NEW i \in Nat
  PROVE  /\ QrEnd(i) = IF OddPlaces(i) # {} THEN First(OddPlaces(i)) ELSE LastOf(EscPlaces(i))
         /\ QrEnd(i) = 0 <=> OddPlaces(i) = {} /\ EscPlaces(i) = {}
         /\ QrEnd(i) # 0 => QrEnd(i) \in OddPlaces(i) \union EscPlaces(i)
<1>1. QrEnd(i) = IF OddPlaces(i) # {} THEN First(OddPlaces(i)) ELSE LastOf(EscPlaces(i))
  BY DEF QrEnd, OddPlaces, EscPlaces
<1>2. OddPlaces(i) \subseteq Nat \ {0} /\ EscPlaces(i) \subseteq Nat \ {0}
  BY SizesAssumption DEF OddPlaces, EscPlaces, SizesAssumption
<1>3. CASE OddPlaces(i) # {}
  <2>1. First(OddPlaces(i)) \in OddPlaces(i)
    BY <1>2, <1>3, FirstLeast
  <2>2. First(OddPlaces(i)) # 0
    BY <1>2, <2>1
  <2> QED BY <1>1, <1>3, <2>1, <2>2
<1>4. CASE OddPlaces(i) = {}
  <2>1. QrEnd(i) = LastOf(EscPlaces(i))
    BY <1>1, <1>4
  <2>2. LastOf(EscPlaces(i)) = 0 <=> EscPlaces(i) = {}
    BY <1>2, LastOfNone
  <2>3. EscPlaces(i) # {} => LastOf(EscPlaces(i)) \in EscPlaces(i)
    BY <1>2, LastOfNone
  <2> QED BY <1>1, <1>4, <2>1, <2>2, <2>3
<1> QED BY <1>3, <1>4

(* The same of the next state.                                             *)
LEMMA QrEndPrime ==
  ASSUME codes' \in Seq(AllCodes), NEW i \in Nat
  PROVE  /\ QrEnd(i)' = IF OddPlaces(i)' # {} THEN First(OddPlaces(i)') ELSE LastOf(EscPlaces(i)')
         /\ QrEnd(i)' = 0 <=> OddPlaces(i)' = {} /\ EscPlaces(i)' = {}
<1>1. QrEnd(i)' = IF OddPlaces(i)' # {} THEN First(OddPlaces(i)') ELSE LastOf(EscPlaces(i)')
  BY DEF QrEnd, OddPlaces, EscPlaces, First, LastOf
<1>2. OddPlaces(i)' \subseteq Nat \ {0} /\ EscPlaces(i)' \subseteq Nat \ {0}
  BY SizesAssumption DEF OddPlaces, EscPlaces, SizesAssumption
<1>3. CASE OddPlaces(i)' # {}
  <2>1. First(OddPlaces(i)') \in OddPlaces(i)'
    BY <1>2, <1>3, FirstLeast
  <2>2. First(OddPlaces(i)') # 0
    BY <1>2, <2>1
  <2> QED BY <1>1, <1>3, <2>1, <2>2
<1>4. CASE OddPlaces(i)' = {}
  <2>1. QrEnd(i)' = LastOf(EscPlaces(i)')
    BY <1>1, <1>4
  <2>2. LastOf(EscPlaces(i)') = 0 <=> EscPlaces(i)' = {}
    BY <1>2, LastOfNone
  <2> QED BY <1>1, <1>4, <2>1, <2>2
<1> QED BY <1>3, <1>4

(* The end of a QR code stays where it is once it is known.                *)
LEMMA QrEndKept ==
  ASSUME NEW c, More(c), NEW i \in 1 .. Len(codes), QrEnd(i) # 0
  PROVE  QrEnd(i)' = QrEnd(i) /\ QrEnd(i) \in i + 2 .. Len(codes)
<1> DEFINE n == Len(codes)
<1>1. codes \in Seq(AllCodes) /\ codes' \in Seq(AllCodes) /\ i \in Nat /\ n \in Nat
  BY MoreCodes DEF More
<1>2. /\ OddPlaces(i) \subseteq i + 2 .. n /\ EscPlaces(i) \subseteq i + 2 .. n
      /\ OddPlaces(i) \subseteq OddPlaces(i)' /\ OddPlaces(i)' \ OddPlaces(i) \subseteq {n + 1}
      /\ EscPlaces(i) \subseteq EscPlaces(i)' /\ EscPlaces(i)' \ EscPlaces(i) \subseteq {n + 1}
  BY QrPlacesMore
<1>3. QrEnd(i) \in OddPlaces(i) \union EscPlaces(i)
  BY <1>1, QrEndIs
<1>4. ASSUME NEW few, NEW many, few # {}, few \subseteq i + 2 .. n, few \subseteq many,
             many \ few \subseteq {n + 1}
      PROVE  First(many) = First(few)
  <2>1. many \subseteq Nat /\ \A x \in many \ few, y \in few : y < x
    BY <1>1, <1>4
  <2> QED BY <1>4, <2>1, FirstSame
<1>5. CASE OddPlaces(i) # {}
  <2>1. First(OddPlaces(i)') = First(OddPlaces(i))
    BY <1>2, <1>4, <1>5
  <2>2. OddPlaces(i)' # {}
    BY <1>2, <1>5
  <2>3. QrEnd(i)' = First(OddPlaces(i)')
    BY <1>1, <2>2, QrEndPrime
  <2>4. QrEnd(i) = First(OddPlaces(i))
    BY <1>1, <1>5, QrEndIs
  <2> QED BY <1>2, <1>3, <2>1, <2>3, <2>4
<1>6. CASE OddPlaces(i) = {}
  <2>1. EscPlaces(i) # {} /\ QrEnd(i) \in EscPlaces(i)
    BY <1>3, <1>6
  <2>2. n + 1 \notin i + 2 .. i + 1 + HeaderDigits
    BY <1>1, <2>1, SizesAssumption DEF EscPlaces, SizesAssumption
  <2>3. OddPlaces(i)' = {}
    BY <1>6, <2>2, QrPlacesMore
  <2>4. EscPlaces(i)' # {}
    BY <1>2, <2>1
  <2>5. First(EscPlaces(i)') = First(EscPlaces(i))
    BY <1>2, <1>4, <2>1
  <2>6. QrEnd(i)' = First(EscPlaces(i)')
    BY <1>1, <2>3, <2>4, QrEndPrime DEF LastOf
  <2>7. QrEnd(i) = First(EscPlaces(i))
    BY <1>1, <1>6, <2>1, QrEndIs DEF LastOf
  <2> QED BY <1>2, <2>1, <2>5, <2>6, <2>7
<1> QED BY <1>5, <1>6

(* A QR code that is read ends with c if that is no digit in the header,   *)
(* and ESC behind it.                                                      *)
LEMMA QrEndNew ==
  ASSUME NEW c, More(c), NEW i \in 1 .. Len(codes), QrEnd(i) = 0, Len(codes) >= i + 1
  PROVE  QrEnd(i)' = IF \/ c # "5" /\ Len(codes) <= i + HeaderDigits
                        \/ c = "esc" /\ Len(codes) > i + HeaderDigits
                     THEN Len(codes) + 1 ELSE 0
<1> DEFINE n == Len(codes)
<1>1. /\ codes \in Seq(AllCodes) /\ codes' \in Seq(AllCodes) /\ i \in Nat /\ n \in Nat
      /\ HeaderDigits \in Nat
  BY MoreCodes, SizesAssumption DEF More, SizesAssumption
<1>2. OddPlaces(i) = {} /\ EscPlaces(i) = {}
  BY <1>1, QrEndIs
<1>3. n + 1 \in i + 2 .. i + 1 + HeaderDigits <=> n <= i + HeaderDigits
  BY <1>1
<1>4. /\ OddPlaces(i)' = IF c # "5" /\ n <= i + HeaderDigits THEN {n + 1} ELSE {}
      /\ EscPlaces(i)' = IF c = "esc" /\ n > i + HeaderDigits THEN {n + 1} ELSE {}
  BY <1>2, <1>3, QrPlacesMore
<1>5. First({n + 1}) = n + 1 /\ LastOf({n + 1}) = n + 1
  <2>1. {n + 1} \subseteq Nat /\ {n + 1} # {} /\ n + 1 \in Nat
    BY <1>1
  <2> QED BY <2>1, FirstLeast, LastOfOne
<1>6. QrEnd(i)' = IF OddPlaces(i)' # {} THEN First(OddPlaces(i)') ELSE LastOf(EscPlaces(i)')
  BY <1>1, QrEndPrime
<1>7. LastOf({}) = 0
  BY DEF LastOf
<1>8. CASE c # "5" /\ n <= i + HeaderDigits
  BY <1>4, <1>5, <1>6, <1>8
<1>9. CASE ~(c # "5" /\ n <= i + HeaderDigits)
  <2>1. QrEnd(i)' = LastOf(EscPlaces(i)')
    BY <1>4, <1>6, <1>9
  <2>2. CASE c = "esc" /\ n > i + HeaderDigits
    BY <1>4, <1>5, <2>1, <2>2
  <2>3. CASE ~(c = "esc" /\ n > i + HeaderDigits)
    BY <1>4, <1>7, <1>9, <2>1, <2>3
  <2> QED BY <2>2, <2>3
<1> QED BY <1>8, <1>9

-----------------------------------------------------------------------------
(* Where units end.                                                        *)
LEMMA UnitEndKept ==
  ASSUME NEW c, More(c), NEW i \in 1 .. Len(codes), UnitEnd(i) # 0
  PROVE  /\ UnitEnd(i)' = UnitEnd(i) /\ UnitEnd(i) \in i .. Len(codes)
         /\ process /\ codes[i] = "<" => TagEnd(i)' = TagEnd(i)
<1> DEFINE n == Len(codes)
<1>1. /\ n \in Nat /\ Len(codes') = n + 1 /\ process' = process
      /\ \A j \in 1 .. n : codes'[j] = codes[j]
  BY MoreCodes DEF More
<1>2. codes'[i] = codes[i] /\ i # Len(codes') /\ i \in i .. n
  BY <1>1
<1>3. CASE process /\ codes[i] = "<"
  <2>1. UnitEnd(i) = IF TagEnd(i) # 0 /\ codes[TagEnd(i)] = "<" THEN TagEnd(i) - 1 ELSE TagEnd(i)
    BY <1>3 DEF UnitEnd
  <2>2. TagEnd(i) # 0
    BY <2>1
  <2>3. TagEnd(i)' = TagEnd(i) /\ TagEnd(i) \in i + 1 .. n
    BY <2>2, TagEndKept
  <2>4. UnitEnd(i)' = IF TagEnd(i)' # 0 /\ codes'[TagEnd(i)'] = "<" THEN TagEnd(i)' - 1 ELSE TagEnd(i)'
    BY <1>1, <1>2, <1>3 DEF UnitEnd
  <2>5. codes'[TagEnd(i)] = codes[TagEnd(i)]
    BY <1>1, <2>3
  <2>6. TagEnd(i) - 1 \in i .. n /\ TagEnd(i) \in i .. n
    BY <1>1, <2>3
  <2> QED BY <2>1, <2>3, <2>4, <2>5, <2>6
<1>4. CASE ~process /\ codes[i] = "esc"
  <2>1. UnitEnd(i) = IF i = n THEN 0 ELSE IF codes[i + 1] = "." THEN QrEnd(i) ELSE i + 1
    BY <1>4 DEF UnitEnd
  <2>2. i # n /\ i + 1 \in 1 .. n /\ i + 1 \in i .. n
    BY <1>1, <2>1
  <2>3. UnitEnd(i)' = IF codes'[i + 1] = "." THEN QrEnd(i)' ELSE i + 1
    BY <1>1, <1>2, <1>4 DEF UnitEnd
  <2>4. codes'[i + 1] = codes[i + 1]
    BY <1>1, <2>2
  <2>5. CASE codes[i + 1] = "."
    <3>1. QrEnd(i) # 0
      BY <2>1, <2>2, <2>5
    <3>2. QrEnd(i)' = QrEnd(i) /\ QrEnd(i) \in i + 2 .. n
      BY <3>1, QrEndKept
    <3>3. QrEnd(i) \in i .. n
      BY <1>1, <3>2
    <3> QED BY <1>4, <2>1, <2>2, <2>3, <2>4, <2>5, <3>2, <3>3
  <2>6. CASE codes[i + 1] # "."
    BY <1>4, <2>1, <2>2, <2>3, <2>4, <2>6
  <2> QED BY <2>5, <2>6
<1>5. CASE ~(process /\ codes[i] = "<") /\ ~(~process /\ codes[i] = "esc")
  <2>1. UnitEnd(i) = i
    BY <1>5 DEF UnitEnd
  <2>2. UnitEnd(i)' = i
    BY <1>1, <1>2, <1>5 DEF UnitEnd
  <2> QED BY <1>2, <1>5, <2>1, <2>2
<1> QED BY <1>3, <1>4, <1>5

(* Opens a unit of more than one character.                                *)
Opens(c) == c = IF process THEN "<" ELSE "esc"

(* A unit that has just started.                                           *)
LEMMA UnitEndFirst ==
  ASSUME NEW c, More(c), NEW n, n = Len(codes)
  PROVE  UnitEnd(n + 1)' = IF Opens(c) THEN 0 ELSE n + 1
<1>1. /\ n \in Nat /\ Len(codes') = n + 1 /\ process' = process /\ codes' \in Seq(AllCodes)
      /\ codes'[n + 1] = c /\ process \in BOOLEAN
  BY MoreCodes DEF More
<1>2. CASE process /\ c = "<"
  <2>1. TagPlaces(n + 1)' = {}
    BY <1>1 DEF TagPlaces
  <2>2. n + 1 \in 1 .. Len(codes')
    BY <1>1
  <2>3. TagEnd(n + 1)' = 0
    BY <1>1, <2>1, <2>2, TagEndPrime
  <2> QED BY <1>1, <1>2, <2>3 DEF UnitEnd, Opens
<1>3. CASE ~process /\ c = "esc"
  BY <1>1, <1>3 DEF UnitEnd, Opens
<1>4. CASE ~(process /\ c = "<") /\ ~(~process /\ c = "esc")
  BY <1>1, <1>4 DEF UnitEnd, Opens
<1> QED BY <1>2, <1>3, <1>4

(* A tag that is not complete.                                             *)
LEMMA UnitEndTag ==
  ASSUME NEW c, More(c), NEW i \in 1 .. Len(codes), process, codes[i] = "<", UnitEnd(i) = 0
  PROVE  /\ TagEnd(i) = 0
         /\ UnitEnd(i)' = IF c = "<" THEN Len(codes)
                          ELSE IF c = ">" \/ Len(codes) = i + TAG_BUFSIZE THEN Len(codes) + 1
                          ELSE 0
<1> DEFINE n == Len(codes)
<1>1. /\ n \in Nat /\ Len(codes') = n + 1 /\ process' = process /\ codes \in Seq(AllCodes)
      /\ codes'[n + 1] = c /\ \A j \in 1 .. n : codes'[j] = codes[j]
  BY MoreCodes DEF More
<1>2. UnitEnd(i) = IF TagEnd(i) # 0 /\ codes[TagEnd(i)] = "<" THEN TagEnd(i) - 1 ELSE TagEnd(i)
  BY DEF UnitEnd
<1>3. TagEnd(i) = 0
  <2> SUFFICES ASSUME TagEnd(i) # 0 PROVE FALSE
    OBVIOUS
  <2>1. TagEnd(i) \in i + 1 .. n
    BY TagEndKept
  <2> QED BY <1>1, <1>2, <2>1
<1>4. TagEnd(i)' = IF c \in {"<", ">"} \/ n = i + TAG_BUFSIZE THEN n + 1 ELSE 0
  BY <1>3, TagEndNew
<1>5. codes'[i] = "<"
  BY <1>1
<1>6. UnitEnd(i)' = IF TagEnd(i)' # 0 /\ codes'[TagEnd(i)'] = "<" THEN TagEnd(i)' - 1 ELSE TagEnd(i)'
  BY <1>1, <1>5 DEF UnitEnd
<1>7. n + 1 # 0 /\ (n + 1) - 1 = n
  BY <1>1
<1>8. CASE c \in {"<", ">"} \/ n = i + TAG_BUFSIZE
  <2>1. TagEnd(i)' = n + 1
    BY <1>4, <1>8
  <2>2. UnitEnd(i)' = IF c = "<" THEN (n + 1) - 1 ELSE n + 1
    BY <1>1, <1>6, <1>7, <2>1
  <2> QED BY <1>3, <1>7, <1>8, <2>2
<1>9. CASE ~(c \in {"<", ">"} \/ n = i + TAG_BUFSIZE)
  BY <1>3, <1>4, <1>6, <1>9
<1> QED BY <1>8, <1>9

(* An escape sequence that is not complete.                                *)
LEMMA UnitEndEscape ==
  ASSUME NEW c, More(c), NEW i \in 1 .. Len(codes), ~process, codes[i] = "esc", UnitEnd(i) = 0
  PROVE  /\ i = Len(codes) => UnitEnd(i)' = IF c = "." THEN 0 ELSE Len(codes) + 1
         /\ i # Len(codes) =>
              UnitEnd(i)' = IF \/ c # "5" /\ Len(codes) <= i + HeaderDigits
                               \/ c = "esc" /\ Len(codes) > i + HeaderDigits
                            THEN Len(codes) + 1 ELSE 0
<1> DEFINE n == Len(codes)
<1>1. /\ n \in Nat /\ Len(codes') = n + 1 /\ process' = process /\ codes' \in Seq(AllCodes)
      /\ codes'[n + 1] = c /\ \A j \in 1 .. n : codes'[j] = codes[j]
  BY MoreCodes DEF More
<1>2. codes'[i] = "esc" /\ i # Len(codes')
  BY <1>1
<1>3. UnitEnd(i)' = IF codes'[i + 1] = "." THEN QrEnd(i)' ELSE i + 1
  BY <1>1, <1>2 DEF UnitEnd
<1>4. CASE i = n
  <2>1. OddPlaces(i)' = {} /\ EscPlaces(i)' = {}
    BY <1>1, <1>4, SizesAssumption DEF OddPlaces, EscPlaces, SizesAssumption
  <2>2. QrEnd(i)' = 0
    BY <1>1, <2>1, QrEndPrime
  <2> QED BY <1>1, <1>3, <1>4, <2>2
<1>5. CASE i # n
  <2>1. UnitEnd(i) = IF codes[i + 1] = "." THEN QrEnd(i) ELSE i + 1
    BY <1>5 DEF UnitEnd
  <2>2. codes[i + 1] = "." /\ QrEnd(i) = 0 /\ n >= i + 1 /\ i + 1 \in 1 .. n
    BY <1>1, <1>5, <2>1
  <2>3. codes'[i + 1] = "."
    BY <1>1, <2>2
  <2>4. UnitEnd(i)' = QrEnd(i)'
    BY <1>3, <2>3
  <2>5. QrEnd(i)' = IF (c # "5" /\ n <= i + HeaderDigits) \/ (c = "esc" /\ n > i + HeaderDigits)
                    THEN n + 1 ELSE 0
    BY <2>2, QrEndNew
  <2> QED BY <1>5, <2>4, <2>5
<1> QED BY <1>4, <1>5

-----------------------------------------------------------------------------
(* What units stand for.                                                   *)
(* The characters of a tag.                                                *)
Between(i, e) == [j \in 1 .. e - i - 1 |-> Low(codes[i + j])]

LEMMA BetweenType ==
  ASSUME codes \in Seq(AllCodes), NEW i \in 1 .. Len(codes), NEW e \in i .. Len(codes)
  PROVE  Between(i, e) \in Seq(AllCodes)
<1>0. i \in Nat /\ e \in Nat /\ Len(codes) \in Nat
  OBVIOUS
<1>1. \A x \in AllCodes : Low(x) \in AllCodes
  BY DEF Low, AllCodes
<1>2. CASE e = i
  <2>1. 1 .. e - i - 1 = {}
    BY <1>0, <1>2
  <2>2. Between(i, e) = [j \in 1 .. 0 |-> Low(codes[i + j])]
    BY <2>1 DEF Between
  <2>3. [j \in 1 .. 0 |-> Low(codes[i + j])] \in Seq(AllCodes)
    OBVIOUS
  <2> QED BY <2>2, <2>3
<1>3. CASE e # i
  <2>1. e - i - 1 \in Nat
    BY <1>0, <1>3
  <2>2. \A j \in 1 .. e - i - 1 : i + j \in 1 .. Len(codes)
    BY <1>0
  <2>3. \A j \in 1 .. e - i - 1 : codes[i + j] \in AllCodes
    BY <2>2
  <2>4. \A j \in 1 .. e - i - 1 : Low(codes[i + j]) \in AllCodes
    BY <1>1, <2>3
  <2> DEFINE m == e - i - 1
  <2> HIDE DEF m
  <2>5. [j \in 1 .. m |-> Low(codes[i + j])] \in Seq(AllCodes)
    BY <2>1, <2>4 DEF m
  <2> QED BY <2>5 DEF Between, m
<1> QED BY <1>2, <1>3

LEMMA MeaningType ==
  ASSUME codes \in Seq(AllCodes), NEW i \in 1 .. Len(codes), UnitEnd(i) \in i .. Len(codes)
  PROVE  Meaning(i) \in Seq(OutText) /\ Drawn(i) \in Seq(AllCodes)
<1> DEFINE e == UnitEnd(i)  t == Between(i, e)
<1>1. t \in Seq(AllCodes)
  BY BetweenType
<1>2. Seq(AllCodes) \subseteq Seq(OutText)
  BY DEF OutText
<1>3. codes[i] \in AllCodes /\ "<" \in AllCodes /\ ">" \in AllCodes
  BY DEF AllCodes
<1>4. /\ <<>> \in Seq(AllCodes) /\ <<codes[i]>> \in Seq(AllCodes)
      /\ <<"tag">> \in Seq(OutText) /\ <<"<">> \in Seq(AllCodes)
  BY <1>3 DEF OutText
<1> HIDE DEF t
<1>5. <<"<">> \o t \o <<">">> \in Seq(AllCodes) /\ <<"<">> \o t \in Seq(AllCodes)
  BY <1>1, <1>3
<1>6. Meaning(i) = IF IsText(i) THEN IF font THEN <<>> ELSE <<codes[i]>>
                   ELSE IF ~process THEN <<>>
                   ELSE IF codes[e] = ">"
                        THEN IF IsCharacter(t) THEN <<"tag">> ELSE <<"<">> \o t \o <<">">>
                   ELSE IF TagEnd(i) = e THEN <<"<">> \o t ELSE <<"<">>
  BY DEF Meaning, t, Between
<1> HIDE DEF e
<1>7. Meaning(i) \in Seq(OutText)
  BY <1>2, <1>4, <1>5, <1>6, Zenon
<1>8. Drawn(i) \in Seq(AllCodes)
  BY <1>4 DEF Drawn
<1> QED BY <1>7, <1>8

(* A complete unit goes on to stand for the same.                          *)
LEMMA MeaningKept ==
  ASSUME NEW c, More(c), font' = font, NEW i \in 1 .. Len(codes), UnitEnd(i) # 0
  PROVE  Meaning(i)' = Meaning(i) /\ Drawn(i)' = Drawn(i)
<1> DEFINE n == Len(codes)
<1>1. /\ n \in Nat /\ process' = process /\ \A j \in 1 .. n : codes'[j] = codes[j]
  BY MoreCodes DEF More
<1>0. PICK e : e = UnitEnd(i)
  OBVIOUS
<1>2. UnitEnd(i)' = e /\ e \in i .. n /\ (process /\ codes[i] = "<" => TagEnd(i)' = TagEnd(i))
  BY <1>0, UnitEndKept
<1>3. codes'[i] = codes[i] /\ codes'[e] = codes[e]
  BY <1>1, <1>2
<1>4. Between(i, e)' = Between(i, e)
  <2>1. \A j \in 1 .. e - i - 1 : i + j \in 1 .. n
    BY <1>1, <1>2
  <2>2. \A j \in 1 .. e - i - 1 : codes'[i + j] = codes[i + j]
    BY <1>1, <2>1
  <2>3. Between(i, e)' = [j \in 1 .. e - i - 1 |-> Low(codes'[i + j])]
    BY <1>2 DEF Between
  <2> QED BY <2>2, <2>3 DEF Between
<1>5. IsText(i)' <=> IsText(i)
  BY <1>1, <1>3 DEF IsText
<1>6. Drawn(i)' = Drawn(i)
  BY <1>3, <1>5 DEF Drawn
<1>7. Meaning(i) = IF IsText(i) THEN IF font THEN <<>> ELSE <<codes[i]>>
                   ELSE IF ~process THEN <<>>
                   ELSE IF codes[e] = ">"
                        THEN IF IsCharacter(Between(i, e)) THEN <<"tag">>
                             ELSE <<"<">> \o Between(i, e) \o <<">">>
                   ELSE IF TagEnd(i) = e THEN <<"<">> \o Between(i, e) ELSE <<"<">>
  BY <1>0 DEF Meaning, Between
<1>8. Meaning(i)' = IF IsText(i)' THEN IF font THEN <<>> ELSE <<codes'[i]>>
                    ELSE IF ~process THEN <<>>
                    ELSE IF codes'[e] = ">"
                         THEN IF IsCharacter(Between(i, e)') THEN <<"tag">>
                              ELSE <<"<">> \o Between(i, e)' \o <<">">>
                    ELSE IF TagEnd(i)' = e THEN <<"<">> \o Between(i, e)' ELSE <<"<">>
  BY <1>1, <1>2 DEF Meaning, Between
<1>9. ~IsText(i) /\ process => codes[i] = "<"
  BY DEF IsText
<1>10. Meaning(i)' = Meaning(i)
  <2> DEFINE a == Between(i, e)  b == Between(i, e)'
             open == <<"<">> \o a  both == <<"<">> \o a \o <<">">>
  <2>1. /\ IsCharacter(b) <=> IsCharacter(a)
        /\ <<"<">> \o b = open /\ <<"<">> \o b \o <<">">> = both
    BY <1>4, Zenon
  <2> HIDE DEF a, open, both
  <2>2. Meaning(i) = IF IsText(i) THEN IF font THEN <<>> ELSE <<codes[i]>>
                     ELSE IF ~process THEN <<>>
                     ELSE IF codes[e] = ">" THEN IF IsCharacter(a) THEN <<"tag">> ELSE both
                     ELSE IF TagEnd(i) = e THEN open ELSE <<"<">>
    BY <1>7, Zenon DEF a, open, both
  <2>3. Meaning(i)' = IF IsText(i)' THEN IF font THEN <<>> ELSE <<codes'[i]>>
                      ELSE IF ~process THEN <<>>
                      ELSE IF codes'[e] = ">" THEN IF IsCharacter(a) THEN <<"tag">> ELSE both
                      ELSE IF TagEnd(i)' = e THEN open ELSE <<"<">>
    BY <1>4, <1>8, Zenon DEF a, open, both
  <2> QED BY <1>2, <1>3, <1>5, <1>9, <2>2, <2>3
<1> QED BY <1>6, <1>10

-----------------------------------------------------------------------------
(* A unit that is not complete may end with the next character, or before  *)
(* it.                                                                     *)
LEMMA UnitEndOpen ==
  ASSUME NEW c, More(c), NEW i \in 1 .. Len(codes), UnitEnd(i) = 0
  PROVE  /\ UnitEnd(i)' \in {0, Len(codes), Len(codes) + 1}
         /\ UnitEnd(i)' = Len(codes) => Opens(c)
<1>0. Len(codes) \in Nat /\ i # 0 /\ process \in BOOLEAN /\ Len(codes) # 0
  BY MoreCodes DEF More
<1>1. CASE process /\ codes[i] = "<"
  BY <1>0, <1>1, UnitEndTag DEF Opens
<1>2. CASE ~process /\ codes[i] = "esc"
  BY <1>0, <1>2, UnitEndEscape
<1>3. CASE ~(process /\ codes[i] = "<") /\ ~(~process /\ codes[i] = "esc")
  BY <1>0, <1>3 DEF UnitEnd
<1> QED BY <1>1, <1>2, <1>3

(* One character more reaches one place more, or none.                     *)
LEMMA ReachedStep ==
  ASSUME NEW c, More(c), NEW n, n = Len(codes)
  PROVE  /\ n \in Nat /\ Len(codes') = n + 1
         /\ Reached(Ends) \subseteq 1 .. n /\ Reached(Ends)' \subseteq 1 .. n + 1
         /\ \A i \in 1 .. n : i \in Reached(Ends)' <=> i \in Reached(Ends)
         /\ n + 1 \in Reached(Ends)' <=> n = 0 \/ \E j \in Reached(Ends) : UnitEnd(j)' = n
<1> DEFINE old == Ends  new == Ends'
<1>1. n \in Nat /\ Len(codes') = n + 1
  BY MoreCodes
<1>2. DOMAIN old = 1 .. n /\ \A j \in 1 .. n : old[j] = UnitEnd(j)
  BY DEF Ends
<1>3. DOMAIN new = 1 .. n + 1 /\ \A j \in 1 .. n + 1 : new[j] = UnitEnd(j)'
  BY <1>1 DEF Ends
<1>4. \A j \in 1 .. n, m \in 1 .. n - 1 : UnitEnd(j)' = m <=> UnitEnd(j) = m
  <2> SUFFICES ASSUME NEW j \in 1 .. n, NEW m \in 1 .. n - 1
               PROVE  UnitEnd(j)' = m <=> UnitEnd(j) = m
    OBVIOUS
  <2>1. j \in 1 .. Len(codes)
    OBVIOUS
  <2>2. CASE UnitEnd(j) # 0
    BY <2>1, <2>2, UnitEndKept
  <2>3. CASE UnitEnd(j) = 0
    <3>1. UnitEnd(j)' \in {0, n, n + 1}
      BY <2>1, <2>3, UnitEndOpen
    <3>2. m # 0 /\ m # n /\ m # n + 1
      BY <1>1
    <3> QED BY <2>3, <3>1, <3>2
  <2> QED BY <2>2, <2>3
<1>5. Reached(Ends)' = Reached(new)
  BY DEF Reached
<1>6. \A j \in 1 .. n : j \in 1 .. n + 1
  BY <1>1
<1> HIDE DEF old, new
<1>7. Reached(old) \subseteq 1 .. n /\ Reached(new) \subseteq 1 .. n + 1
  <2>1. n + 1 \in Nat
    BY <1>1
  <2>2. Reached(old) \in SUBSET (1 .. n)
    BY <1>1, <1>2, ReachedThere
  <2>3. Reached(new) \in SUBSET (1 .. n + 1)
    BY <1>3, <2>1, ReachedThere
  <2> QED BY <2>2, <2>3
<1>8. \A j \in 1 .. n, m \in 1 .. n - 1 : new[j] = m <=> old[j] = m
  BY <1>2, <1>3, <1>4, <1>6
<1>9. /\ \A i \in 1 .. n : i \in Reached(new) <=> i \in Reached(old)
      /\ n + 1 \in Reached(new) <=> n = 0 \/ \E j \in Reached(old) : new[j] = n
  <2>1. n \in Nat /\ DOMAIN old = 1 .. n /\ DOMAIN new = 1 .. n + 1
    BY <1>1, <1>2, <1>3
  <2> QED BY <1>8, <2>1, ReachedMore, Zenon
<1>10. \A j \in Reached(old) : new[j] = UnitEnd(j)'
  BY <1>3, <1>6, <1>7
<1>11. n + 1 \in Reached(new) <=> n = 0 \/ \E j \in Reached(old) : UnitEnd(j)' = n
  BY <1>9, <1>10
<1> QED BY <1>1, <1>5, <1>7, <1>9, <1>11 DEF old

-----------------------------------------------------------------------------
(* How far the text is parsed: all units are complete, or only the one at i*)
(* is not.                                                                 *)
Whole ==
  /\ \A j \in Reached(Ends) : UnitEnd(j) # 0
  /\ Len(codes) = 0 \/ \E j \in Reached(Ends) : UnitEnd(j) = Len(codes)

OpenAt(i) ==
  /\ i \in Reached(Ends) /\ UnitEnd(i) = 0
  /\ \A j \in Reached(Ends) \ {i} : j < i /\ UnitEnd(j) \in 1 .. i - 1

(* Units that are complete stay so.                                        *)
LEMMA KeptAll ==
  ASSUME NEW c, More(c)
  PROVE  \A j \in 1 .. Len(codes) : UnitEnd(j) # 0 =>
           UnitEnd(j)' = UnitEnd(j) /\ UnitEnd(j) \in 1 .. Len(codes)
<1> SUFFICES ASSUME NEW j \in 1 .. Len(codes), UnitEnd(j) # 0
             PROVE  UnitEnd(j)' = UnitEnd(j) /\ UnitEnd(j) \in 1 .. Len(codes)
  OBVIOUS
<1>1. UnitEnd(j)' = UnitEnd(j) /\ UnitEnd(j) \in j .. Len(codes)
  BY UnitEndKept
<1>2. Len(codes) \in Nat
  BY MoreCodes
<1> QED BY <1>1, <1>2

(* All is complete: the next character is a unit of its own or opens one.  *)
LEMMA WholeMore ==
  ASSUME NEW c, More(c), Whole, NEW n, n = Len(codes)
  PROVE  /\ Starts \subseteq 1 .. n
         /\ ~Opens(c) => Whole' /\ Starts' = Starts \union {n + 1} /\ UnitEnd(n + 1)' = n + 1
         /\ Opens(c) => OpenAt(n + 1)' /\ Starts' = Starts
<1> DEFINE R == Reached(Ends)  Q == Reached(Ends)'
<1>1. /\ n \in Nat /\ Len(codes') = n + 1 /\ R \subseteq 1 .. n /\ Q \subseteq 1 .. n + 1
      /\ \A i \in 1 .. n : i \in Q <=> i \in R
      /\ n + 1 \in Q <=> n = 0 \/ \E j \in R : UnitEnd(j)' = n
  BY ReachedStep
<1>2. \A j \in R : UnitEnd(j)' = UnitEnd(j) /\ UnitEnd(j) \in 1 .. n /\ UnitEnd(j) # 0
  <2>1. \A j \in R : UnitEnd(j) # 0 /\ j \in 1 .. Len(codes)
    BY <1>1 DEF Whole
  <2> QED BY <2>1, KeptAll
<1>3. n + 1 \in Q
  BY <1>1, <1>2 DEF Whole
<1>4. \A i : i \in Q <=> i \in R \/ i = n + 1
  <2>1. \A i : i \in 1 .. n + 1 <=> i \in 1 .. n \/ i = n + 1
    BY <1>1
  <2> QED BY <1>1, <1>3, <2>1
<1>5. UnitEnd(n + 1)' = IF Opens(c) THEN 0 ELSE n + 1
  BY UnitEndFirst
<1>6. Starts = R
  BY <1>2 DEF Starts
<1>7. Starts' = {i \in Q : UnitEnd(i)' # 0}
  BY DEF Starts
<1>8. \A i \in R : i < n + 1 /\ i # n + 1
  BY <1>1
<1>9. n + 1 # 0 /\ \A i \in 1 .. n : i \in 1 .. (n + 1) - 1
  BY <1>1
<1>10. ASSUME ~Opens(c)
       PROVE  Whole' /\ Starts' = Starts \union {n + 1} /\ UnitEnd(n + 1)' = n + 1
  <2>1. UnitEnd(n + 1)' = n + 1 /\ \A i \in Q : UnitEnd(i)' # 0
    BY <1>2, <1>4, <1>5, <1>9, <1>10
  <2>2. Starts' = Q
    BY <1>7, <2>1
  <2>3. Whole'
    BY <1>1, <1>3, <2>1 DEF Whole
  <2> HIDE DEF R, Q
  <2> QED BY <1>4, <1>6, <2>1, <2>2, <2>3
<1>11. ASSUME Opens(c)
       PROVE  OpenAt(n + 1)' /\ Starts' = Starts
  <2>1. UnitEnd(n + 1)' = 0
    BY <1>5, <1>11
  <2>2. \A i \in Q : UnitEnd(i)' # 0 <=> i \in R
    BY <1>2, <1>4, <1>8, <2>1
  <2>3. Starts' = R
    BY <1>4, <1>7, <2>2
  <2>4. \A j \in Q \ {n + 1} : j < n + 1 /\ UnitEnd(j)' \in 1 .. (n + 1) - 1
    BY <1>2, <1>4, <1>8, <1>9
  <2>5. OpenAt(n + 1)'
    BY <1>3, <2>1, <2>4 DEF OpenAt
  <2> QED BY <1>6, <2>3, <2>5
<1> QED BY <1>1, <1>6, <1>10, <1>11

(* One unit is not complete: it goes on, or ends with or before the next.  *)
LEMMA OpenMore ==
  ASSUME NEW c, More(c), NEW n, n = Len(codes), NEW i \in 1 .. n, OpenAt(i)
  PROVE  /\ Starts \subseteq 1 .. i - 1
         /\ UnitEnd(i)' = 0 => OpenAt(i)' /\ Starts' = Starts
         /\ UnitEnd(i)' = n + 1 => Whole' /\ Starts' = Starts \union {i}
         /\ UnitEnd(i)' = n => OpenAt(n + 1)' /\ Starts' = Starts \union {i}
<1> DEFINE R == Reached(Ends)  Q == Reached(Ends)'
<1>1. /\ n \in Nat /\ Len(codes') = n + 1 /\ R \subseteq 1 .. n /\ Q \subseteq 1 .. n + 1
      /\ \A j \in 1 .. n : j \in Q <=> j \in R
      /\ n + 1 \in Q <=> n = 0 \/ \E j \in R : UnitEnd(j)' = n
  BY ReachedStep
<1>2. i \in R /\ UnitEnd(i) = 0 /\ n # 0 /\ i \in Q /\ i # n + 1
  BY <1>1 DEF OpenAt
<1>3. \A j \in R \ {i} : /\ UnitEnd(j)' = UnitEnd(j) /\ UnitEnd(j) \in 1 .. i - 1 /\ UnitEnd(j) # 0
                         /\ j < i /\ j \in 1 .. i - 1 /\ UnitEnd(j) # n
  <2> SUFFICES ASSUME NEW j \in R \ {i}
               PROVE  /\ UnitEnd(j)' = UnitEnd(j) /\ UnitEnd(j) \in 1 .. i - 1 /\ UnitEnd(j) # 0
                      /\ j < i /\ j \in 1 .. i - 1 /\ UnitEnd(j) # n
    OBVIOUS
  <2>1. j < i /\ UnitEnd(j) \in 1 .. i - 1 /\ j \in 1 .. Len(codes)
    BY <1>1 DEF OpenAt
  <2>2. UnitEnd(j) # 0 /\ UnitEnd(j) # n /\ j \in 1 .. i - 1
    BY <1>1, <2>1
  <2>3. UnitEnd(j)' = UnitEnd(j)
    BY <2>1, <2>2, KeptAll
  <2> QED BY <2>1, <2>2, <2>3
<1>4. n + 1 \in Q <=> UnitEnd(i)' = n
  BY <1>1, <1>2, <1>3
<1>5. \A j : j \in Q <=> j \in R \/ (j = n + 1 /\ UnitEnd(i)' = n)
  <2>1. \A j : j \in 1 .. n + 1 <=> j \in 1 .. n \/ j = n + 1
    BY <1>1
  <2> QED BY <1>1, <1>4, <2>1
<1>6. Starts = R \ {i}
  BY <1>2, <1>3 DEF Starts
<1>7. Starts' = {j \in Q : UnitEnd(j)' # 0}
  BY DEF Starts
<1>8. Starts \subseteq 1 .. i - 1
  BY <1>3, <1>6
<1>9. n + 1 # 0 /\ n + 1 # n
  BY <1>1
<1>10. ASSUME UnitEnd(i)' = 0 PROVE OpenAt(i)' /\ Starts' = Starts
  <2>1. \A j : j \in Q <=> j \in R
    BY <1>2, <1>5, <1>10
  <2>2. Starts' = Starts
    BY <1>3, <1>6, <1>7, <1>10, <2>1
  <2>3. \A j \in Q \ {i} : j < i /\ UnitEnd(j)' \in 1 .. i - 1
    BY <1>3, <2>1
  <2>4. OpenAt(i)'
    BY <1>2, <1>10, <2>3 DEF OpenAt
  <2> QED BY <2>2, <2>4
<1>11. ASSUME UnitEnd(i)' = n + 1 PROVE Whole' /\ Starts' = Starts \union {i}
  <2>1. \A j : j \in Q <=> j \in R
    BY <1>5, <1>9, <1>11
  <2>2. \A j \in Q : UnitEnd(j)' # 0
    BY <1>3, <1>9, <1>11, <2>1
  <2>3. Starts' = Starts \union {i}
    BY <1>2, <1>6, <1>7, <2>1, <2>2
  <2>4. Whole'
    BY <1>1, <1>2, <1>11, <2>2 DEF Whole
  <2> QED BY <2>3, <2>4
<1>12. ASSUME UnitEnd(i)' = n PROVE OpenAt(n + 1)' /\ Starts' = Starts \union {i}
  <2>1. \A j : j \in Q <=> j \in R \/ j = n + 1
    BY <1>5, <1>12
  <2>2. UnitEnd(n + 1)' = 0
    <3>1. UnitEnd(i)' = Len(codes) => Opens(c)
      BY <1>2, UnitEndOpen
    <3>2. UnitEnd(n + 1)' = IF Opens(c) THEN 0 ELSE n + 1
      BY UnitEndFirst
    <3> QED BY <1>12, <3>1, <3>2
  <2>3. \A j \in R : UnitEnd(j)' # 0 /\ UnitEnd(j)' \in 1 .. n /\ j < n + 1 /\ j # n + 1
    <3>1. \A j \in 1 .. i - 1 : j \in 1 .. n
      BY <1>1
    <3>2. n \in 1 .. n /\ \A j \in 1 .. n : j < n + 1 /\ j # n + 1
      BY <1>1, <1>2
    <3> QED BY <1>1, <1>2, <1>3, <1>12, <3>1, <3>2
  <2>4. Starts' = Starts \union {i}
    BY <1>2, <1>6, <1>7, <2>1, <2>2, <2>3
  <2>5. OpenAt(n + 1)'
    <3>1. (n + 1) - 1 = n
      BY <1>1
    <3> QED BY <1>1, <2>1, <2>2, <2>3, <3>1 DEF OpenAt
  <2> QED BY <2>4, <2>5
<1> QED BY <1>8, <1>10, <1>11, <1>12

-----------------------------------------------------------------------------
DirectText == Gather([i \in Starts |-> Meaning(i)], Len(codes))
DrawnText  == Gather([i \in Starts |-> Drawn(i)], Len(codes))

(* The complete units stand for the same, and for texts.                   *)
LEMMA StartsType ==
  ASSUME NEW c, More(c), font' = font, Starts \subseteq 1 .. Len(codes), NEW i \in Starts
  PROVE  /\ Meaning(i)' = Meaning(i) /\ Drawn(i)' = Drawn(i)
         /\ Meaning(i) \in Seq(OutText) /\ Drawn(i) \in Seq(AllCodes)
<1>1. i \in 1 .. Len(codes) /\ UnitEnd(i) # 0 /\ codes \in Seq(AllCodes)
  BY DEF Starts, More
<1>2. UnitEnd(i) \in i .. Len(codes)
  BY <1>1, UnitEndKept
<1> QED BY <1>1, <1>2, MeaningKept, MeaningType

(* No unit is complete that was not.                                       *)
LEMMA GatherStays ==
  ASSUME NEW c, More(c), font' = font, Starts \subseteq 1 .. Len(codes), Starts' = Starts
  PROVE  DirectText' = DirectText /\ DrawnText' = DrawnText
<1> DEFINE direct == [i \in Starts |-> Meaning(i)]
           drawn == [i \in Starts |-> Drawn(i)]
<1>0. PICK n : n = Len(codes)
  OBVIOUS
<1>1. n \in Nat /\ n + 1 \in Nat /\ n <= n + 1 /\ Len(codes') = n + 1
  BY <1>0, MoreCodes
<1>2. direct' = direct /\ drawn' = drawn
  BY StartsType
<1>3. \A i \in n + 1 .. n + 1 : i \notin Starts
  BY <1>0, <1>1
<1>4. Gather(direct, n + 1) = Gather(direct, n)
  <2>1. /\ \A i \in DOMAIN direct : direct[i] \in Seq(OutText)
        /\ \A i \in n + 1 .. n + 1 : i \notin DOMAIN direct
    BY <1>3, StartsType
  <2> HIDE DEF direct
  <2> QED BY <1>1, <2>1, GatherCut, Zenon
<1>5. Gather(drawn, n + 1) = Gather(drawn, n)
  <2>1. /\ \A i \in DOMAIN drawn : drawn[i] \in Seq(OutText)
        /\ \A i \in n + 1 .. n + 1 : i \notin DOMAIN drawn
    <3>1. \A t \in Seq(AllCodes) : t \in Seq(OutText)
      BY DEF OutText
    <3> QED BY <1>3, <3>1, StartsType
  <2> HIDE DEF drawn
  <2> QED BY <1>1, <2>1, GatherCut, Zenon
<1>6. DirectText' = Gather(direct', n + 1) /\ DrawnText' = Gather(drawn', n + 1)
  BY <1>1 DEF DirectText, DrawnText, Gather
<1> QED BY <1>0, <1>2, <1>4, <1>5, <1>6 DEF DirectText, DrawnText

MeaningsTyped ==
  codes \in Seq(AllCodes) =>
    \A i \in 1 .. Len(codes) : UnitEnd(i) \in i .. Len(codes) =>
      Meaning(i) \in Seq(OutText) /\ Drawn(i) \in Seq(AllCodes)

LEMMA MeaningsTypedNow == MeaningsTyped
  BY MeaningType DEF MeaningsTyped

LEMMA MeaningsTypedNext == MeaningsTyped'
  BY MeaningsTypedNow, PTL

(* A unit that is complete now comes last.                                 *)
LEMMA GatherAdds ==
  ASSUME NEW c, More(c), font' = font, NEW n, n = Len(codes), NEW x \in 1 .. n + 1,
         Starts \subseteq 1 .. x - 1, Starts' = Starts \union {x}, UnitEnd(x)' \in x .. n + 1
  PROVE  /\ DirectText' = DirectText \o Meaning(x)' /\ DrawnText' = DrawnText \o Drawn(x)'
         /\ Meaning(x)' \in Seq(OutText) /\ Drawn(x)' \in Seq(AllCodes)
<1> DEFINE oldDirect == [i \in Starts |-> Meaning(i)]
           oldDrawn == [i \in Starts |-> Drawn(i)]
           newDirect == [i \in Starts' |-> Meaning(i)']
           newDrawn == [i \in Starts' |-> Drawn(i)']
<1>1. n \in Nat /\ n + 1 \in Nat /\ n <= n + 1 /\ Len(codes') = n + 1 /\ x - 1 <= n
  BY MoreCodes
<1>2. Starts \subseteq 1 .. Len(codes)
  BY <1>1
<1>3. Meaning(x)' \in Seq(OutText) /\ Drawn(x)' \in Seq(AllCodes)
  <2>1. codes' \in Seq(AllCodes) /\ x \in 1 .. Len(codes') /\ UnitEnd(x)' \in x .. Len(codes')
    BY <1>1, MoreCodes
  <2> QED BY <2>1, MeaningsTypedNext DEF MeaningsTyped
<1>4. \A i \in Starts : /\ Meaning(i)' = Meaning(i) /\ Drawn(i)' = Drawn(i)
                       /\ Meaning(i) \in Seq(OutText) /\ Drawn(i) \in Seq(AllCodes)
  BY <1>2, StartsType
<1>5. /\ DOMAIN oldDirect = Starts /\ DOMAIN newDirect = Starts \union {x}
      /\ DOMAIN oldDrawn = Starts /\ DOMAIN newDrawn = Starts \union {x}
  OBVIOUS
<1>6. /\ \A i \in Starts : newDirect[i] = oldDirect[i] /\ newDrawn[i] = oldDrawn[i]
      /\ \A i \in DOMAIN newDirect : newDirect[i] \in Seq(OutText)
      /\ \A i \in DOMAIN newDrawn : newDrawn[i] \in Seq(AllCodes)
      /\ newDirect[x] = Meaning(x)' /\ newDrawn[x] = Drawn(x)'
  <2>1. \A i \in Starts' : newDirect[i] = Meaning(i)' /\ newDrawn[i] = Drawn(i)'
    OBVIOUS
  <2>2. \A i \in Starts : oldDirect[i] = Meaning(i) /\ oldDrawn[i] = Drawn(i)
    OBVIOUS
  <2> HIDE DEF oldDirect, oldDrawn, newDirect, newDrawn
  <2> QED BY <1>3, <1>4, <1>5, <2>1, <2>2, Zenon
<1>7. DirectText' = Gather(newDirect, n + 1) /\ DrawnText' = Gather(newDrawn, n + 1)
  BY <1>1 DEF DirectText, DrawnText, Gather
<1>8. DirectText = Gather(oldDirect, n) /\ DrawnText = Gather(oldDrawn, n)
  BY DEF DirectText, DrawnText
<1> HIDE DEF oldDirect, oldDrawn, newDirect, newDrawn
<1>11. \A old, new :
         /\ DOMAIN old \subseteq 1 .. x - 1 /\ DOMAIN new = DOMAIN old \union {x}
         /\ \A i \in DOMAIN new : new[i] \in Seq(OutText)
         /\ \A i \in DOMAIN old : new[i] = old[i]
         => Gather(new, n + 1) = Gather(old, n) \o new[x]
  <2>1. n \in Nat
    BY <1>1
  <2> QED BY <2>1, GatherLast, Zenon
<1>9. Gather(newDirect, n + 1) = Gather(oldDirect, n) \o newDirect[x]
  <2>1. /\ DOMAIN oldDirect \subseteq 1 .. x - 1
        /\ DOMAIN newDirect = DOMAIN oldDirect \union {x}
        /\ \A i \in DOMAIN oldDirect : newDirect[i] = oldDirect[i]
        /\ \A i \in DOMAIN newDirect : newDirect[i] \in Seq(OutText)
    BY <1>5, <1>6
  <2> QED BY <1>11, <2>1
<1>10. Gather(newDrawn, n + 1) = Gather(oldDrawn, n) \o newDrawn[x]
  <2>1. /\ DOMAIN oldDrawn \subseteq 1 .. x - 1
        /\ DOMAIN newDrawn = DOMAIN oldDrawn \union {x}
        /\ \A i \in DOMAIN oldDrawn : newDrawn[i] = oldDrawn[i]
        /\ \A i \in DOMAIN newDrawn : newDrawn[i] \in Seq(OutText)
    <3>1. \A t \in Seq(AllCodes) : t \in Seq(OutText)
      BY DEF OutText
    <3> QED BY <1>5, <1>6, <3>1
  <2> QED BY <1>11, <2>1
<1> QED BY <1>3, <1>6, <1>7, <1>8, <1>9, <1>10, Zenon

-----------------------------------------------------------------------------
(* What is on standard output.                                             *)
Items == [kind : {"byte", "line", "qr", "raw mode", "prolog", "epilog"}, text : Seq(OutText)]

Bytes(items) == FlattenSeq(Texts(items, "byte"))

(* The texts of output behind output.                                      *)
LEMMA TextsConcat ==
  ASSUME NEW a \in Seq(Items), NEW b \in Seq(Items), NEW k
  PROVE  /\ Texts(a, k) \in Seq(Seq(OutText))
         /\ Texts(a \o b, k) = Texts(a, k) \o Texts(b, k)
<1> DEFINE E == Seq(OutText)
           part(item) == IF item.kind = k THEN <<item.text>> ELSE <<>>
           parts(q) == [i \in 1 .. Len(q) |-> part(q[i])]
<1>1. \A item \in Items : part(item) \in Seq(E)
  <2>1. \A item \in Items : item.text \in E
    BY DEF Items
  <2> HIDE DEF E
  <2>2. \A e \in E : <<e>> \in Seq(E) /\ <<>> \in Seq(E)
    OBVIOUS
  <2> QED BY <2>1, <2>2, Zenon
<1> HIDE DEF E, part
<1>2. \A q \in Seq(Items) : parts(q) \in Seq(Seq(E)) /\ Len(parts(q)) = Len(q)
  <2> SUFFICES ASSUME NEW q \in Seq(Items)
               PROVE  parts(q) \in Seq(Seq(E)) /\ Len(parts(q)) = Len(q)
    OBVIOUS
  <2>1. \A i \in 1 .. Len(q) : part(q[i]) \in Seq(E)
    <3>1. \A i \in 1 .. Len(q) : q[i] \in Items
      OBVIOUS
    <3> QED BY <1>1, <3>1
  <2>2. Len(q) \in Nat
    OBVIOUS
  <2> DEFINE F == Seq(E)  m == Len(q)
  <2> HIDE DEF F, m
  <2>3. [i \in 1 .. m |-> part(q[i])] \in Seq(F) /\ Len([i \in 1 .. m |-> part(q[i])]) = m
    BY <2>1, <2>2 DEF F, m
  <2> QED BY <2>3 DEF F, m
<1>3. parts(a \o b) = parts(a) \o parts(b)
  <2> DEFINE F == Seq(E)  ab == a \o b
  <2>0. ab \in Seq(Items) /\ Len(ab) = Len(a) + Len(b)
    OBVIOUS
  <2>1. /\ parts(a) \in Seq(F) /\ parts(b) \in Seq(F) /\ parts(ab) \in Seq(F)
        /\ Len(parts(a)) = Len(a) /\ Len(parts(b)) = Len(b) /\ Len(parts(ab)) = Len(a) + Len(b)
    BY <1>2, <2>0
  <2>2. /\ Len(a) \in Nat /\ Len(b) \in Nat
        /\ \A i \in 1 .. Len(a) : ab[i] = a[i]
        /\ \A i \in Len(a) + 1 .. Len(a) + Len(b) : ab[i] = b[i - Len(a)]
    OBVIOUS
  <2>3. /\ \A i \in 1 .. Len(a) : parts(a)[i] = part(a[i])
        /\ \A i \in 1 .. Len(b) : parts(b)[i] = part(b[i])
        /\ \A i \in 1 .. Len(a) + Len(b) : parts(ab)[i] = part(ab[i])
    BY <2>0
  <2> DEFINE pa == parts(a)  pb == parts(b)  pab == parts(ab)  m == Len(a)  l == Len(b)
  <2>4. /\ pa \in Seq(F) /\ pb \in Seq(F) /\ pab \in Seq(F) /\ m \in Nat /\ l \in Nat
        /\ Len(pa) = m /\ Len(pb) = l /\ Len(pab) = m + l
        /\ \A i \in 1 .. m : pab[i] = pa[i]
        /\ \A i \in m + 1 .. m + l : pab[i] = pb[i - m]
    <3>1. \A i \in 1 .. m : i \in 1 .. m + l
      BY <2>2
    <3>2. \A i \in m + 1 .. m + l : i \in 1 .. m + l /\ i - m \in 1 .. l
      BY <2>2
    <3> HIDE DEF ab, F, parts
    <3> QED BY <2>1, <2>2, <2>3, <3>1, <3>2
  <2> HIDE DEF pa, pb, pab, m, l, F, ab
  <2>7. pab = pa \o pb
    BY <2>4, ConcatIs
  <2> QED BY <2>7 DEF pa, pb, pab, ab
<1>4. \A q \in Seq(Items) : Texts(q, k) = FlattenSeq(parts(q))
  BY DEF Texts, part
<1>5. a \o b \in Seq(Items)
  OBVIOUS
<1>6. parts(a) \in Seq(Seq(E)) /\ parts(b) \in Seq(Seq(E))
  BY <1>2
<1> HIDE DEF parts
<1>7. FlattenSeq(parts(a) \o parts(b)) = FlattenSeq(parts(a)) \o FlattenSeq(parts(b))
  BY <1>6, FlattenConcat
<1>8. FlattenSeq(parts(a)) \in Seq(E)
  BY <1>6, FlattenType
<1> QED BY <1>3, <1>4, <1>5, <1>7, <1>8 DEF E

(* The text of one item.                                                   *)
LEMMA TextsOne ==
  ASSUME NEW item \in Items, NEW k
  PROVE  Texts(<<item>>, k) = IF item.kind = k THEN <<item.text>> ELSE <<>>
<1> DEFINE E == Seq(OutText)
           part == IF item.kind = k THEN <<item.text>> ELSE <<>>
<1>1. part \in Seq(E)
  <2>1. item.text \in E
    BY DEF Items
  <2> HIDE DEF E
  <2> QED BY <2>1
<1>2. Texts(<<item>>, k) = FlattenSeq(<<part>>)
  <2>1. [i \in 1 .. Len(<<item>>) |-> IF <<item>>[i].kind = k THEN <<<<item>>[i].text>> ELSE <<>>]
        = <<part>>
    OBVIOUS
  <2> QED BY <2>1 DEF Texts
<1> HIDE DEF E, part
<1>3. <<part>> = Append(<<>>, part) /\ <<>> \in Seq(Seq(E))
  BY <1>1
<1>4. FlattenSeq(Append(<<>>, part)) = FlattenSeq(<<>>) \o part
  BY <1>1, <1>3, FlattenAppend
<1>5. <<>> \o part = part
  BY <1>1
<1> QED BY <1>2, <1>3, <1>4, <1>5, FlattenEmpty DEF part

(* The bytes of output behind output.                                      *)
LEMMA BytesConcat ==
  ASSUME NEW a \in Seq(Items), NEW b \in Seq(Items)
  PROVE  Bytes(a) \in Seq(OutText) /\ Bytes(a \o b) = Bytes(a) \o Bytes(b)
<1>1. /\ Texts(a, "byte") \in Seq(Seq(OutText)) /\ Texts(b, "byte") \in Seq(Seq(OutText))
      /\ Texts(a \o b, "byte") = Texts(a, "byte") \o Texts(b, "byte")
  BY TextsConcat
<1>2. FlattenSeq(Texts(a, "byte") \o Texts(b, "byte"))
      = FlattenSeq(Texts(a, "byte")) \o FlattenSeq(Texts(b, "byte"))
  BY <1>1, FlattenConcat
<1>3. FlattenSeq(Texts(a, "byte")) \in Seq(OutText)
  BY <1>1, FlattenType
<1> QED BY <1>1, <1>2, <1>3 DEF Bytes

(* Characters come out as they are.                                        *)
LEMMA CharsOut ==
  ASSUME NEW t \in Seq(OutText)
  PROVE  Chars(t) \in Seq(Items) /\ Bytes(Chars(t)) = t /\ Texts(Chars(t), "line") = <<>>
<1> DEFINE T == {q \in Seq(OutText) : /\ Chars(q) \in Seq(Items) /\ Bytes(Chars(q)) = q
                                     /\ Texts(Chars(q), "line") = <<>>}
<1>1. <<>> \in T
  <2>1. Chars(<<>>) = <<>>
    BY DEF Chars
  <2>2. \A k : Texts(<<>>, k) = FlattenSeq(<<>>)
    <3> SUFFICES ASSUME NEW k PROVE Texts(<<>>, k) = FlattenSeq(<<>>)
      OBVIOUS
    <3>1. [i \in 1 .. Len(<<>>) |-> IF <<>>[i].kind = k THEN <<<<>>[i].text>> ELSE <<>>] = <<>>
      OBVIOUS
    <3> QED BY <3>1 DEF Texts
  <2>3. <<>> \in Seq(Items) /\ <<>> \in Seq(OutText)
    OBVIOUS
  <2> QED BY <2>1, <2>2, <2>3, FlattenEmpty, Zenon DEF Bytes
<1>2. ASSUME NEW q \in Seq(OutText), NEW x \in OutText, q \in T PROVE Append(q, x) \in T
  <2> DEFINE item == Item("byte", <<x>>)
  <2>1. item \in Items /\ item.kind = "byte" /\ item.text = <<x>>
    BY DEF Items, Item
  <2> DEFINE m == Len(q)  r == Append(q, x)  byte(y) == Item("byte", <<y>>)
             new == [i \in 1 .. m + 1 |-> byte(r[i])]
  <2>2. m \in Nat /\ Len(r) = m + 1 /\ r[m + 1] = x /\ r \in Seq(OutText)
        /\ \A i \in 1 .. m : r[i] = q[i] /\ q[i] \in OutText
    OBVIOUS
  <2>3. Chars(r) = new /\ Chars(q) = [i \in 1 .. m |-> byte(q[i])]
    <3> HIDE DEF r
    <3> QED BY <2>2 DEF Chars
  <2>4. \A y \in OutText : byte(y) \in Items
    BY DEF Items, Item
  <2>5. Chars(q) \in Seq(Items) /\ Len(Chars(q)) = m /\ Bytes(Chars(q)) = q
        /\ Texts(Chars(q), "line") = <<>> /\ \A i \in 1 .. m : Chars(q)[i] = byte(q[i])
    <3>1. Len(Chars(q)) = m
      <4> HIDE DEF m
      <4> QED BY <2>2, <2>3
    <3> QED BY <1>2, <2>3, <3>1
  <2> HIDE DEF byte, m
  <2>6. new \in Seq(Items) /\ Len(new) = m + 1 /\ new[m + 1] = item
        /\ \A i \in 1 .. m : new[i] = Chars(q)[i]
    <3> HIDE DEF r
    <3>1. \A i \in 1 .. m + 1 : i \in 1 .. m \/ i = m + 1
      BY <2>2
    <3>2. \A i \in 1 .. m + 1 : byte(r[i]) \in Items
      BY <2>2, <2>4, <3>1
    <3>3. new \in Seq(Items) /\ Len(new) = m + 1
      BY <2>2, <3>2
    <3>4. new[m + 1] = byte(x) /\ \A i \in 1 .. m : new[i] = byte(q[i])
      BY <2>2
    <3> QED BY <2>5, <3>3, <3>4 DEF byte
  <2>7. new = Chars(q) \o <<item>>
    <3>1. <<item>> \in Seq(Items) /\ Len(<<item>>) = 1 /\ <<item>>[1] = item
      BY <2>1
    <3>2. \A i \in m + 1 .. m + 1 : new[i] = <<item>>[i - m]
      BY <2>2, <2>6, <3>1
    <3> HIDE DEF new, item
    <3> QED BY <2>2, <2>5, <2>6, <3>1, <3>2, ConcatIs
  <2>8. <<item>> \in Seq(Items) /\ Bytes(<<item>>) = <<x>> /\ Texts(<<item>>, "line") = <<>>
    <3>1. Texts(<<item>>, "byte") = <<<<x>>>> /\ Texts(<<item>>, "line") = <<>>
      BY <2>1, TextsOne
    <3>2. FlattenSeq(<<<<x>>>>) = <<x>>
      <4>1. <<<<x>>>> = Append(<<>>, <<x>>) /\ <<>> \in Seq(Seq(OutText)) /\ <<x>> \in Seq(OutText)
        OBVIOUS
      <4>2. FlattenSeq(Append(<<>>, <<x>>)) = FlattenSeq(<<>>) \o <<x>>
        BY <4>1, FlattenAppend
      <4>3. <<>> \o <<x>> = <<x>>
        OBVIOUS
      <4> QED BY <4>1, <4>2, <4>3, FlattenEmpty, Zenon
    <3> QED BY <2>1, <3>1, <3>2 DEF Bytes
  <2>9. Bytes(Chars(q) \o <<item>>) = q \o <<x>>
    BY <2>5, <2>8, BytesConcat
  <2>10. Texts(Chars(q) \o <<item>>, "line") = <<>> \o <<>>
    <3>1. Texts(Chars(q) \o <<item>>, "line")
          = Texts(Chars(q), "line") \o Texts(<<item>>, "line")
      BY <2>5, <2>8, TextsConcat
    <3> QED BY <2>5, <2>8, <3>1, Zenon
  <2>11. q \o <<x>> = r /\ <<>> \o <<>> = <<>>
    OBVIOUS
  <2> HIDE DEF r, new, item
  <2>12. Chars(r) \in Seq(Items) /\ Bytes(Chars(r)) = r /\ Texts(Chars(r), "line") = <<>>
    BY <2>3, <2>6, <2>7, <2>9, <2>10, <2>11
  <2> QED BY <2>2, <2>12 DEF r
<1>3. Seq(OutText) \subseteq T
  <2> HIDE DEF T
  <2> QED BY <1>1, <1>2, SequenceInduction
<1> QED BY <1>3

-----------------------------------------------------------------------------
(* The line that is being drawn is as long as its dots say, or full.       *)
Drawing ==
  LET dots == Dots(Current(DrawnText), Len(Current(DrawnText)))
  IN pix_pos = dots \/ (Full(pix_pos) /\ pix_pos <= dots)

OutputKept ==
  /\ Bytes(out) = DirectText
  /\ DrawnText \in Seq(AllCodes)
  /\ Texts(out, "line") = Complete(DrawnText)
  /\ line = Fitting(Current(DrawnText))
  /\ Drawing

OutputTypes == out \in Seq(Items) /\ line \in Seq(AllCodes) /\ pix_pos \in Nat

(* A step that completes no unit, or one that stands for nothing or for    *)
(* bytes.                                                                  *)
LEMMA NothingOut ==
  ASSUME OutputKept, DirectText' = DirectText, DrawnText' = DrawnText, UNCHANGED lineVars,
         Bytes(out') = Bytes(out), Texts(out', "line") = Texts(out, "line")
  PROVE  OutputKept'
<1>1. Drawing' <=> Drawing
  BY DEF Drawing, lineVars
<1> QED BY <1>1 DEF OutputKept, lineVars

(* A unit that stands for bytes.                                           *)
LEMMA BytesOut ==
  ASSUME OutputKept, OutputTypes, NEW t \in Seq(OutText), Puts(Chars(t)), UNCHANGED lineVars,
         DirectText' = DirectText \o t, DrawnText' = DrawnText
  PROVE  OutputKept' /\ OutputTypes'
<1>1. Chars(t) \in Seq(Items) /\ Bytes(Chars(t)) = t /\ Texts(Chars(t), "line") = <<>>
  BY CharsOut
<1>2. out \in Seq(Items) /\ out' = out \o Chars(t)
  BY DEF OutputTypes, Puts
<1>3. Bytes(out') = Bytes(out) \o t
  BY <1>1, <1>2, BytesConcat
<1>4. Texts(out', "line") = Texts(out, "line")
  <2>1. /\ Texts(out, "line") \in Seq(Seq(OutText))
        /\ Texts(out \o Chars(t), "line") = Texts(out, "line") \o Texts(Chars(t), "line")
    BY <1>1, <1>2, TextsConcat
  <2>2. \A q \in Seq(Seq(OutText)) : q \o <<>> = q
    OBVIOUS
  <2> QED BY <1>1, <1>2, <2>1, <2>2
<1>5. Drawing' <=> Drawing
  BY DEF Drawing, lineVars
<1>6. OutputKept'
  BY <1>3, <1>4, <1>5 DEF OutputKept, lineVars
<1>7. out' \in Seq(Items)
  BY <1>1, <1>2
<1> QED BY <1>6, <1>7 DEF OutputTypes, lineVars

(* Items of other kinds.                                                   *)
LEMMA OthersOut ==
  ASSUME NEW items \in Seq(Items), NEW item \in Items, item.kind \notin {"byte", "line"}
  PROVE  /\ items \o <<item>> \in Seq(Items)
         /\ Bytes(items \o <<item>>) = Bytes(items)
         /\ Texts(items \o <<item>>, "line") = Texts(items, "line")
<1>1. <<item>> \in Seq(Items)
  OBVIOUS
<1>2. Texts(<<item>>, "byte") = <<>> /\ Texts(<<item>>, "line") = <<>>
  BY TextsOne
<1>3. Bytes(<<item>>) = <<>>
  BY <1>2, FlattenEmpty DEF Bytes
<1>4. Bytes(items) \in Seq(OutText) /\ Bytes(items \o <<item>>) = Bytes(items) \o <<>>
  BY <1>1, <1>3, BytesConcat
<1>5. /\ Texts(items, "line") \in Seq(Seq(OutText))
      /\ Texts(items \o <<item>>, "line") = Texts(items, "line") \o <<>>
  <2>1. /\ Texts(items, "line") \in Seq(Seq(OutText))
        /\ Texts(items \o <<item>>, "line") = Texts(items, "line") \o Texts(<<item>>, "line")
    BY <1>1, TextsConcat
  <2> QED BY <1>2, <2>1, Zenon
<1>6. \A q \in Seq(OutText) : q \o <<>> = q
  OBVIOUS
<1>7. \A q \in Seq(Seq(OutText)) : q \o <<>> = q
  OBVIOUS
<1>8. items \o <<item>> \in Seq(Items)
  BY <1>1
<1> QED BY <1>4, <1>5, <1>6, <1>7, <1>8, Zenon

(* No text.                                                                *)
LEMMA NothingFits == Fitting(<<>>) = <<>> /\ Dots(<<>>, 0) = 0
<1>1. [j \in 1 .. Len(<<>>) |-> IF InFont((<<>>)[j]) /\ Dots(<<>>, j - 1) + CharWidth < LineWidth
                                THEN <<(<<>>)[j]>> ELSE <<>>] = <<>>
  OBVIOUS
<1>2. {i \in 1 .. 0 : InFont((<<>>)[i])} = {}
  OBVIOUS
<1>3. 0 * charspacing = 0 /\ CharWidth * 0 = 0
  BY SizesAssumption DEF SizesAssumption
<1> QED BY <1>1, <1>2, <1>3, FlattenEmpty, FS_EmptySet DEF Fitting, Dots

(* A character that is drawn.                                              *)
LEMMA CharacterDrawn ==
  ASSUME OutputKept, OutputTypes, NEW c \in AllCodes, text_putc(c),
         DirectText' = DirectText \o <<>>, DrawnText' = DrawnText \o <<c>>
  PROVE  OutputKept' /\ OutputTypes'
<1> DEFINE text == DrawnText  cur == Current(text)  dots == Dots(cur, Len(cur))
<1>0. /\ charspacing \in Nat /\ CharWidth \in Nat /\ LineWidth \in Nat
  BY SizesAssumption DEF SizesAssumption
<1>1. text \in Seq(AllCodes) /\ DrawnText' = Append(text, c)
  BY DEF OutputKept
<1>2. DirectText' = DirectText
  <2>1. Bytes(out) \in Seq(OutText)
    BY BytesConcat DEF OutputTypes
  <2>2. \A q \in Seq(OutText) : q \o <<>> = q
    OBVIOUS
  <2> QED BY <2>1, <2>2 DEF OutputKept
<1>3. cur \in Seq(AllCodes) /\ Complete(text) \in Seq(Seq(AllCodes))
      /\ LinesOf(text) = Append(Complete(text), Fitting(cur))
  BY <1>1, LinesSplit
<1>4. dots \in Nat
  BY <1>3, DotsMore
<1>5. CASE c = "lf"
  <2>1. Complete(DrawnText') = LinesOf(text) /\ Current(DrawnText') = <<>>
    BY <1>1, <1>5, LinesMore
  <2>2. do_new_line
    BY <1>5 DEF text_putc
  <2> DEFINE item == Item("line", line)
  <2>3. item \in Items /\ item.kind = "line" /\ item.text = line
    <3>1. line \in Seq(OutText)
      BY DEF OutputTypes, OutText
    <3> QED BY <3>1 DEF Item, Items
  <2>4. out \in Seq(Items) /\ <<item>> \in Seq(Items) /\ out' = out \o <<item>>
    BY <2>2, <2>3 DEF OutputTypes, do_new_line, Puts
  <2>5. Texts(<<item>>, "byte") = <<>> /\ Texts(<<item>>, "line") = <<line>>
    BY <2>3, TextsOne
  <2> HIDE DEF item
  <2>6. Bytes(out') = Bytes(out)
    <3>1. Bytes(<<item>>) = <<>>
      BY <2>5, FlattenEmpty DEF Bytes
    <3>2. Bytes(out) \in Seq(OutText) /\ Bytes(out \o <<item>>) = Bytes(out) \o Bytes(<<item>>)
      BY <2>4, BytesConcat
    <3>3. \A q \in Seq(OutText) : q \o <<>> = q
      OBVIOUS
    <3> QED BY <2>4, <3>1, <3>2, <3>3
  <2>7. Texts(out', "line") = Complete(DrawnText')
    <3>1. Texts(out \o <<item>>, "line") = Texts(out, "line") \o Texts(<<item>>, "line")
      BY <2>4, TextsConcat
    <3>2. \A q \in Seq(Seq(AllCodes)), t \in Seq(AllCodes) : q \o <<t>> = Append(q, t)
      OBVIOUS
    <3>3. line \in Seq(AllCodes) /\ line = Fitting(cur) /\ Texts(out, "line") = Complete(text)
      BY DEF OutputTypes, OutputKept
    <3>4. Complete(text) \o <<line>> = Append(Complete(text), line)
      BY <1>3, <3>2, <3>3
    <3> QED BY <1>3, <2>1, <2>4, <2>5, <3>1, <3>3, <3>4, Zenon
  <2>8. line' = <<>> /\ pix_pos' = 0
    BY <2>2 DEF do_new_line
  <2>9. Fitting(<<>>) = <<>> /\ Dots(<<>>, 0) = 0
    BY NothingFits
  <2>10. Drawing'
    BY <2>1, <2>8, <2>9 DEF Drawing
  <2>11. DrawnText' \in Seq(AllCodes)
    BY <1>1
  <2>12. OutputKept'
    BY <1>2, <2>1, <2>6, <2>7, <2>8, <2>9, <2>10, <2>11 DEF OutputKept
  <2>13. OutputTypes'
    BY <2>4, <2>8 DEF OutputTypes
  <2> QED BY <2>12, <2>13
<1>6. CASE c # "lf"
  <2>1. Complete(DrawnText') = Complete(text) /\ Current(DrawnText') = Append(cur, c)
    BY <1>1, <1>6, LinesMore
  <2>2. /\ Fitting(Append(cur, c)) = IF InFont(c) /\ dots + CharWidth < LineWidth
                                     THEN Append(Fitting(cur), c) ELSE Fitting(cur)
    BY <1>3, FittingMore
  <2>3. /\ Len(Append(cur, c)) = Len(cur) + 1
        /\ Dots(Append(cur, c), Len(cur) + 1) = dots + charspacing + IF InFont(c) THEN CharWidth ELSE 0
    BY <1>3, DotsMore
  <2>4. pix_pos \in Nat /\ line = Fitting(cur) /\ line \in Seq(AllCodes)
        /\ (pix_pos = dots \/ (CharWidth + pix_pos >= LineWidth /\ pix_pos <= dots))
    BY DEF OutputKept, OutputTypes, Drawing, Full
  <2>5. /\ out' = out
        /\ IF ~Full(pix_pos) /\ InFont(c)
           THEN line' = Append(line, c) /\ pix_pos' = pix_pos + CharWidth + charspacing
           ELSE line' = line /\ pix_pos' = pix_pos + charspacing
    BY <1>6 DEF text_putc, do_new_line
  <2> DEFINE new == Dots(Current(DrawnText'), Len(Current(DrawnText')))
  <2>6. new = dots + charspacing + IF InFont(c) THEN CharWidth ELSE 0
    BY <2>1, <2>3
  <2> HIDE DEF new, dots, cur
  <2>7. Full(pix_pos) <=> ~(dots + CharWidth < LineWidth)
    BY <1>0, <1>4, <2>4 DEF Full
  <2>14. pix_pos' = pix_pos + charspacing + IF ~Full(pix_pos) /\ InFont(c) THEN CharWidth ELSE 0
    <3>1. CASE ~Full(pix_pos) /\ InFont(c)
      BY <1>0, <2>4, <2>5, <3>1
    <3>2. CASE ~(~Full(pix_pos) /\ InFont(c))
      BY <1>0, <2>4, <2>5, <3>2
    <3> QED BY <3>1, <3>2
  <2>15. line' = IF ~Full(pix_pos) /\ InFont(c) THEN Append(line, c) ELSE line
    BY <2>5
  <2>16. Append(line, c) \in Seq(AllCodes)
    BY <2>4
  <2>8. /\ line' = Fitting(Append(cur, c)) /\ pix_pos' \in Nat /\ line' \in Seq(AllCodes)
    <3>1. pix_pos' \in Nat
      BY <1>0, <2>4, <2>14
    <3>2. CASE ~Full(pix_pos) /\ InFont(c)
      BY <2>2, <2>4, <2>7, <2>15, <2>16, <3>1, <3>2
    <3>3. CASE ~(~Full(pix_pos) /\ InFont(c))
      BY <2>2, <2>4, <2>7, <2>15, <3>1, <3>3
    <3> QED BY <3>2, <3>3
  <2>9. pix_pos' = new \/ (CharWidth + pix_pos' >= LineWidth /\ pix_pos' <= new)
    <3>1. CASE pix_pos = dots /\ (~InFont(c) \/ ~Full(pix_pos))
      BY <1>0, <1>4, <2>4, <2>6, <2>14, <3>1
    <3>2. CASE CharWidth + pix_pos >= LineWidth /\ pix_pos <= dots
      <4>1. pix_pos' = pix_pos + charspacing
        BY <1>0, <2>4, <2>14, <3>2 DEF Full
      <4> QED BY <1>0, <1>4, <2>4, <2>6, <3>2, <4>1
    <3> QED BY <1>4, <2>4, <3>1, <3>2 DEF Full
  <2>10. Drawing'
    BY <2>9 DEF Drawing, new, Full
  <2>11. DrawnText' \in Seq(AllCodes)
    BY <1>1
  <2>12. OutputKept'
    BY <1>2, <2>1, <2>5, <2>8, <2>10, <2>11 DEF OutputKept
  <2>13. OutputTypes'
    BY <2>5, <2>8 DEF OutputTypes
  <2> QED BY <2>12, <2>13
<1> QED BY <1>5, <1>6

-----------------------------------------------------------------------------
(* What the filter knows of the unit at i that is not complete.            *)
Unfinished(i) ==
  \/ /\ process /\ state = "TAG" /\ codes[i] = "<"
     /\ tag_buf = Between(i, Len(codes) + 1)
  \/ /\ ~process /\ codes[i] = "esc"
     /\ \/ state = "TAG" /\ i = Len(codes)
        \/ state = "HEADER" /\ Len(codes) = i + 1 + digits /\ digits < HeaderDigits
        \/ state = "DATA" /\ Len(codes) > i + HeaderDigits

Parsed ==
  \/ state = "IDLE" /\ Whole
  \/ \E i \in 1 .. Len(codes) : OpenAt(i) /\ Unfinished(i)

KeptTypes == OutputTypes /\ codes \in Seq(AllCodes) /\ font \in BOOLEAN /\ digits \in Nat

Kept == KeptTypes /\ Parsed /\ OutputKept

KeptInv == ~nomem => Kept

(* The unit that was not complete ends here.                               *)
LEMMA UnitDone ==
  ASSUME NEW c, More(c), font' = font, NEW n, n = Len(codes), NEW i \in 1 .. n, OpenAt(i),
         ~IsText(i), DrawnText \in Seq(AllCodes), UnitEnd(i)' \in {n, n + 1}
  PROVE  /\ DirectText' = DirectText \o Meaning(i)' /\ DrawnText' = DrawnText
         /\ Meaning(i)' \in Seq(OutText)
         /\ UnitEnd(i)' = n + 1 => Whole'
         /\ UnitEnd(i)' = n => OpenAt(n + 1)'
<1>1. n \in Nat /\ i \in 1 .. n + 1 /\ UnitEnd(i)' \in i .. n + 1
  BY MoreCodes
<1>2. /\ Starts \subseteq 1 .. i - 1 /\ Starts' = Starts \union {i}
      /\ UnitEnd(i)' = n + 1 => Whole'
      /\ UnitEnd(i)' = n => OpenAt(n + 1)'
  BY OpenMore
<1>3. /\ DirectText' = DirectText \o Meaning(i)' /\ DrawnText' = DrawnText \o Drawn(i)'
      /\ Meaning(i)' \in Seq(OutText)
  BY <1>1, <1>2, GatherAdds
<1>4. Drawn(i)' = <<>>
  <2>1. codes'[i] = codes[i] /\ process' = process
    BY MoreCodes DEF More
  <2>2. ~IsText(i)'
    BY <2>1 DEF IsText
  <2> QED BY <2>2 DEF Drawn
<1>5. \A q \in Seq(AllCodes) : q \o <<>> = q
  OBVIOUS
<1> QED BY <1>2, <1>3, <1>4, <1>5

(* The tag with one character more.                                        *)
LEMMA BetweenMore ==
  ASSUME NEW c, More(c), NEW n, n = Len(codes), NEW i \in 1 .. n
  PROVE  /\ Between(i, n + 1)' = Between(i, n + 1)
         /\ Between(i, n + 2)' = Append(Between(i, n + 1), Low(c))
         /\ Len(Between(i, n + 1)) = n - i
         /\ Between(n + 1, n + 2)' = <<>>
<1>1. /\ n \in Nat /\ codes'[n + 1] = c
      /\ \A j \in 1 .. n : codes'[j] = codes[j] /\ codes[j] \in AllCodes
  BY MoreCodes
<1> DEFINE m == n - i
           old == [j \in 1 .. m |-> Low(codes[i + j])]
           new == [j \in 1 .. m + 1 |-> Low(codes'[i + j])]
<1>2. m \in Nat /\ i + (m + 1) = n + 1 /\ \A j \in 1 .. m : i + j \in 1 .. n
  BY <1>1
<1>3. (n + 1) - i - 1 = m /\ (n + 2) - i - 1 = m + 1 /\ (n + 2) - (n + 1) - 1 = 0
  BY <1>1
<1>4. Between(i, n + 1) = old
  BY <1>3 DEF Between
<1>5. Between(i, n + 1)' = old
  <2>1. Between(i, n + 1)' = [j \in 1 .. m |-> Low(codes'[i + j])]
    BY <1>3 DEF Between
  <2> QED BY <1>1, <1>2, <2>1
<1>6. Between(i, n + 2)' = new
  BY <1>3 DEF Between
<1>7. \A x \in AllCodes : Low(x) \in AllCodes
  BY DEF Low, AllCodes
<1>8. c \in AllCodes
  BY DEF More
<1> HIDE DEF m
<1>9. old \in Seq(AllCodes) /\ Len(old) = m /\ \A j \in 1 .. m : old[j] = Low(codes[i + j])
  BY <1>1, <1>2, <1>7
<1>10. \A j \in 1 .. m + 1 : j \in 1 .. m \/ j = m + 1
  BY <1>2
<1>11. \A j \in 1 .. m : Low(codes'[i + j]) = Low(codes[i + j])
  BY <1>1, <1>2
<1>12. Low(codes'[i + (m + 1)]) = Low(c)
  BY <1>1, <1>2
<1>13. new \in Seq(AllCodes) /\ Len(new) = m + 1 /\ new[m + 1] = Low(c)
       /\ \A j \in 1 .. m : new[j] = old[j]
  <2>1. \A j \in 1 .. m + 1 : Low(codes'[i + j]) \in AllCodes
    BY <1>1, <1>2, <1>7, <1>8, <1>10, <1>11, <1>12
  <2>2. new \in Seq(AllCodes) /\ Len(new) = m + 1
    BY <1>2, <2>1
  <2>3. new[m + 1] = Low(codes'[i + (m + 1)])
    BY <1>2
  <2>4. \A j \in 1 .. m : new[j] = Low(codes'[i + j])
    BY <1>2
  <2> QED BY <1>9, <1>11, <1>12, <2>2, <2>3, <2>4
<1> HIDE DEF old, new
<1>14. Append(old, Low(c)) \in Seq(AllCodes) /\ Len(Append(old, Low(c))) = m + 1
       /\ Append(old, Low(c))[m + 1] = Low(c)
       /\ \A j \in 1 .. m : Append(old, Low(c))[j] = old[j]
  BY <1>7, <1>8, <1>9
<1>15. new = Append(old, Low(c))
  BY <1>10, <1>13, <1>14, SeqEqual
<1>16. Between(n + 1, n + 2)' = <<>>
  <2>1. Between(n + 1, n + 2)' = [j \in 1 .. 0 |-> Low(codes'[(n + 1) + j])]
    BY <1>3 DEF Between
  <2> QED BY <2>1
<1> QED BY <1>4, <1>5, <1>6, <1>9, <1>15, <1>16 DEF m

-----------------------------------------------------------------------------
(* The next unit opens, whichever it is.                                   *)
LEMMA UnitOpens ==
  ASSUME Kept, NEW c, More(c), Whole, Opens(c), font' = font, NEW n, n = Len(codes),
         UNCHANGED <<lineVars, out>>
  PROVE  OpenAt(n + 1)' /\ OutputKept' /\ OutputTypes' /\ codes'[n + 1] = c /\ Len(codes') = n + 1
<1>1. Starts \subseteq 1 .. Len(codes) /\ Starts' = Starts /\ OpenAt(n + 1)'
  BY WholeMore
<1>2. DirectText' = DirectText /\ DrawnText' = DrawnText
  BY <1>1, GatherStays
<1>3. OutputKept'
  BY <1>2, NothingOut DEF Kept
<1>4. OutputTypes'
  BY DEF Kept, KeptTypes, OutputTypes, lineVars
<1> QED BY <1>1, <1>3, <1>4, MoreCodes

(* The unit that is not complete goes on.                                  *)
LEMMA UnitGoesOn ==
  ASSUME Kept, NEW c, More(c), font' = font, NEW n, n = Len(codes), NEW i \in 1 .. n, OpenAt(i),
         UnitEnd(i)' = 0, UNCHANGED <<lineVars, out>>
  PROVE  OpenAt(i)' /\ OutputKept' /\ OutputTypes'
<1>1. Starts \subseteq 1 .. i - 1 /\ Starts' = Starts /\ OpenAt(i)' /\ n \in Nat
  BY OpenMore, MoreCodes
<1>2. Starts \subseteq 1 .. Len(codes)
  BY <1>1
<1>3. DirectText' = DirectText /\ DrawnText' = DrawnText
  BY <1>1, <1>2, GatherStays
<1>4. OutputKept'
  BY <1>3, NothingOut DEF Kept
<1>5. OutputTypes'
  BY DEF Kept, KeptTypes, OutputTypes, lineVars
<1> QED BY <1>1, <1>4, <1>5

(* A character that stands for itself.                                     *)
LEMMA TextOut ==
  ASSUME Kept, NEW c, More(c), Whole, ~Opens(c), font' = font, Prints(c)
  PROVE  Whole' /\ OutputKept' /\ OutputTypes'
<1>0. PICK n : n = Len(codes)
  OBVIOUS
<1>1. /\ n \in Nat /\ Len(codes') = n + 1 /\ codes'[n + 1] = c /\ c \in AllCodes
      /\ process' = process
  BY <1>0, MoreCodes DEF More
<1>2. /\ Starts \subseteq 1 .. n /\ Whole' /\ Starts' = Starts \union {n + 1}
      /\ UnitEnd(n + 1)' = n + 1
  BY <1>0, WholeMore
<1>3. /\ DirectText' = DirectText \o Meaning(n + 1)'
      /\ DrawnText' = DrawnText \o Drawn(n + 1)'
  <2>1. n + 1 \in 1 .. n + 1 /\ Starts \subseteq 1 .. (n + 1) - 1 /\ UnitEnd(n + 1)' \in n + 1 .. n + 1
    BY <1>1, <1>2
  <2> QED BY <1>0, <1>2, <2>1, GatherAdds
<1>4. IsText(n + 1)'
  BY <1>1 DEF IsText, Opens
<1>5. Meaning(n + 1)' = IF font THEN <<>> ELSE <<c>>
  BY <1>1, <1>4 DEF Meaning
<1>6. Drawn(n + 1)' = IF font THEN <<c>> ELSE <<>>
  BY <1>1, <1>4 DEF Drawn
<1>7. OutputKept /\ OutputTypes
  BY DEF Kept, KeptTypes
<1>8. CASE font
  <2>1. text_putc(c) /\ DirectText' = DirectText \o <<>> /\ DrawnText' = DrawnText \o <<c>>
    BY <1>3, <1>5, <1>6, <1>8 DEF Prints
  <2> QED BY <1>1, <1>2, <1>7, <2>1, CharacterDrawn
<1>9. CASE ~font
  <2>1. Puts(Chars(<<c>>)) /\ UNCHANGED lineVars
    BY <1>9 DEF Prints
  <2>2. <<c>> \in Seq(OutText)
    BY <1>1 DEF OutText
  <2>3. \A q \in Seq(AllCodes) : q \o <<>> = q
    OBVIOUS
  <2>4. DrawnText' = DrawnText
    BY <1>3, <1>6, <1>7, <1>9, <2>3 DEF OutputKept
  <2>5. DirectText' = DirectText \o <<c>>
    BY <1>3, <1>5, <1>9
  <2> QED BY <1>2, <1>7, <2>1, <2>2, <2>4, <2>5, BytesOut
<1> QED BY <1>8, <1>9

-----------------------------------------------------------------------------
(* The unit that is not complete when a tag is being read.                 *)
LEMMA TagUnit ==
  ASSUME Kept, process, state = "TAG"
  PROVE  \E i \in 1 .. Len(codes) : OpenAt(i) /\ codes[i] = "<" /\ tag_buf = Between(i, Len(codes) + 1)
  BY DEF Kept, Parsed, Unfinished

(* What a tag that ends at e stands for.                                   *)
LEMMA TagMeaning ==
  ASSUME process', NEW i \in 1 .. Len(codes'), codes'[i] = "<", NEW e, UnitEnd(i)' = e
  PROVE  Meaning(i)' = IF codes'[e] = ">"
                       THEN IF IsCharacter(Between(i, e)') THEN <<"tag">>
                            ELSE <<"<">> \o Between(i, e)' \o <<">">>
                       ELSE IF TagEnd(i)' = e THEN <<"<">> \o Between(i, e)' ELSE <<"<">>
<1>1. ~IsText(i)'
  BY DEF IsText
<1> QED BY <1>1 DEF Meaning, Between

(* The handler for tags keeps the invariant.                               *)
LEMMA TagsKept ==
  ASSUME IInv, Kept, process, NEW c \in AllCodes, process_and_write(c),
         codes' = Append(codes, c), UNCHANGED options
  PROVE  Kept'
<1>0. PICK n : n = Len(codes)
  OBVIOUS
<1>1. More(c) /\ font' = font /\ process' /\ digits' = digits
  BY DEF More, IInv, BufferTypes, Kept, KeptTypes, options, process_and_write, qrVars
<1>2. /\ n \in Nat /\ Len(codes') = n + 1 /\ codes'[n + 1] = c /\ codes' \in Seq(AllCodes)
      /\ \A j \in 1 .. n : codes'[j] = codes[j]
  BY <1>0, <1>1, MoreCodes
<1>3. font' \in BOOLEAN /\ digits' \in Nat /\ codes' \in Seq(AllCodes)
  BY <1>1, <1>2 DEF Kept, KeptTypes
<1>4. SUFFICES Parsed' /\ OutputKept' /\ OutputTypes'
  BY <1>3 DEF Kept, KeptTypes
<1>5. state = "IDLE" => Whole
  BY DEF Kept, Parsed, Unfinished
<1>6. OutputKept /\ OutputTypes /\ DrawnText \in Seq(AllCodes)
  BY DEF Kept, KeptTypes, OutputKept
<1>7. CASE OpenTag(c)
  <2>1. Whole /\ Opens(c) /\ UNCHANGED <<lineVars, out>> /\ c = "<"
    BY <1>5, <1>7 DEF OpenTag, Opens
  <2>2. OpenAt(n + 1)' /\ OutputKept' /\ OutputTypes'
    BY <1>0, <1>1, <2>1, UnitOpens
  <2>3. Between(n + 1, n + 2)' = <<>>
    <3>1. (n + 2) - (n + 1) - 1 = 0
      BY <1>2
    <3>2. Between(n + 1, n + 2)' = [j \in 1 .. 0 |-> Low(codes'[(n + 1) + j])]
      BY <3>1 DEF Between
    <3> QED BY <3>2
  <2>4. Unfinished(n + 1)'
    <3>1. (n + 1) + 1 = n + 2
      BY <1>2
    <3>2. tag_buf' = <<>> /\ state' = "TAG"
      BY <1>7 DEF OpenTag
    <3> QED BY <1>1, <1>2, <2>1, <2>3, <3>1, <3>2 DEF Unfinished
  <2>5. n + 1 \in 1 .. Len(codes')
    BY <1>2
  <2> QED BY <2>2, <2>4, <2>5 DEF Parsed
<1>8. CASE Plain(c)
  <2>1. Whole /\ ~Opens(c) /\ Prints(c) /\ state' = "IDLE"
    BY <1>5, <1>8 DEF Plain, Opens
  <2> QED BY <1>1, <2>1, TextOut DEF Parsed
<1>9. CASE CloseTag(c) \/ Reopen(c) \/ Collect(c) \/ Overflow(c)
  <2>1. state = "TAG"
    BY <1>9 DEF CloseTag, Reopen, Collect, Overflow
  <2>2. PICK i \in 1 .. n : OpenAt(i) /\ codes[i] = "<" /\ tag_buf = Between(i, n + 1)
    BY <1>0, <2>1, TagUnit
  <2>3. /\ UnitEnd(i) = 0 /\ TagEnd(i) = 0
        /\ UnitEnd(i)' = IF c = "<" THEN n
                         ELSE IF c = ">" \/ n = i + TAG_BUFSIZE THEN n + 1 ELSE 0
    <3>1. UnitEnd(i) = 0
      BY <2>2 DEF OpenAt
    <3> QED BY <1>0, <1>1, <2>2, <3>1, UnitEndTag
  <2>4. /\ Between(i, n + 1)' = tag_buf /\ Between(i, n + 2)' = Append(tag_buf, Low(c))
        /\ Len(tag_buf) = n - i
    BY <1>0, <1>1, <2>2, BetweenMore
  <2>5. Len(tag_buf) = TAG_BUFSIZE <=> n = i + TAG_BUFSIZE
    BY <1>2, <2>4, SizesAssumption DEF SizesAssumption
  <2>6. ~IsText(i) /\ codes'[i] = "<" /\ i \in 1 .. Len(codes') /\ n # n + 1 /\ n + 1 # 0 /\ n # 0
    BY <1>2, <2>2 DEF IsText
  <2>7. TagEnd(i)' = IF c \in {"<", ">"} \/ n = i + TAG_BUFSIZE THEN n + 1 ELSE 0
    BY <1>0, <1>1, <2>3, TagEndNew
  <2>8. ASSUME UnitEnd(i)' \in {n, n + 1}
        PROVE  /\ DirectText' = DirectText \o Meaning(i)' /\ DrawnText' = DrawnText
               /\ Meaning(i)' \in Seq(OutText)
               /\ UnitEnd(i)' = n + 1 => Whole'
               /\ UnitEnd(i)' = n => OpenAt(n + 1)'
    BY <1>0, <1>1, <1>6, <2>2, <2>6, <2>8, UnitDone
  <2>9. CASE CloseTag(c)
    <3>1. c = ">" /\ UnitEnd(i)' = n + 1 /\ codes'[n + 1] = ">"
      BY <1>2, <2>3, <2>9 DEF CloseTag
    <3>2. Meaning(i)' = IF IsCharacter(tag_buf) THEN <<"tag">> ELSE <<"<">> \o tag_buf \o <<">">>
      BY <1>1, <2>4, <2>6, <3>1, TagMeaning
    <3>3. Puts(Chars(Meaning(i)')) /\ UNCHANGED lineVars /\ state' = "IDLE"
      BY <2>9, <3>2 DEF CloseTag
    <3>4. OutputKept' /\ OutputTypes'
      BY <1>6, <2>8, <3>1, <3>3, BytesOut
    <3> QED BY <2>8, <3>1, <3>3, <3>4 DEF Parsed
  <2>10. CASE Reopen(c)
    <3>1. c = "<" /\ UnitEnd(i)' = n /\ TagEnd(i)' = n + 1
      BY <2>3, <2>7, <2>10 DEF Reopen
    <3>2. codes'[n] # ">"
      <4>1. CASE n = i
        BY <2>6, <4>1
      <4>2. CASE n # i
        <5>1. n \in i + 1 .. Len(codes) /\ codes'[n] = codes[n] /\ i \in 1 .. Len(codes)
          BY <1>0, <1>2, <4>2
        <5>2. TagPlaces(i) = {}
          BY <2>3, <5>1, TagEndIs DEF Kept, KeptTypes
        <5> QED BY <5>1, <5>2 DEF TagPlaces
      <4> QED BY <4>1, <4>2
    <3>3. Meaning(i)' = <<"<">>
      BY <1>1, <2>6, <3>1, <3>2, TagMeaning
    <3>4. Puts(Chars(<<"<">>)) /\ UNCHANGED lineVars /\ state' = "TAG" /\ tag_buf' = <<>>
      BY <2>10 DEF Reopen
    <3>5. OutputKept' /\ OutputTypes'
      BY <1>6, <2>8, <3>1, <3>3, <3>4, BytesOut
    <3>6. Between(n + 1, n + 2)' = <<>>
      BY <1>0, <1>1, <2>2, BetweenMore
    <3>7. Unfinished(n + 1)'
      <4>1. (n + 1) + 1 = n + 2
        BY <1>2
      <4> QED BY <1>1, <1>2, <3>1, <3>4, <3>6, <4>1 DEF Unfinished
    <3>8. n + 1 \in 1 .. Len(codes') /\ OpenAt(n + 1)'
      BY <1>2, <2>8, <3>1
    <3> QED BY <3>5, <3>7, <3>8 DEF Parsed
  <2>11. CASE Collect(c)
    <3>1. UnitEnd(i)' = 0 /\ UNCHANGED <<lineVars, out>>
      BY <2>3, <2>5, <2>11 DEF Collect
    <3>2. OpenAt(i)' /\ OutputKept' /\ OutputTypes'
      BY <1>0, <1>1, <2>2, <3>1, UnitGoesOn
    <3>3. Unfinished(i)'
      <4>1. (n + 1) + 1 = n + 2
        BY <1>2
      <4>2. tag_buf' = Append(tag_buf, Low(c)) /\ state' = "TAG"
        BY <2>11 DEF Collect
      <4> QED BY <1>1, <1>2, <2>4, <2>6, <4>1, <4>2 DEF Unfinished
    <3> QED BY <2>6, <3>2, <3>3 DEF Parsed
  <2>12. CASE Overflow(c)
    <3>1. UnitEnd(i)' = n + 1 /\ TagEnd(i)' = n + 1 /\ codes'[n + 1] # ">"
      BY <1>2, <2>3, <2>5, <2>7, <2>12 DEF Overflow
    <3>2. Meaning(i)' = <<"<">> \o tag_buf
      BY <1>1, <2>4, <2>6, <3>1, TagMeaning
    <3>3. Puts(Chars(Meaning(i)')) /\ UNCHANGED lineVars /\ state' = "IDLE"
      BY <2>12, <3>2 DEF Overflow
    <3>4. OutputKept' /\ OutputTypes'
      BY <1>6, <2>8, <3>1, <3>3, BytesOut
    <3> QED BY <2>8, <3>1, <3>3, <3>4 DEF Parsed
  <2> QED BY <1>9, <2>9, <2>10, <2>11, <2>12
<1> QED BY <1>7, <1>8, <1>9 DEF process_and_write

-----------------------------------------------------------------------------
(* The unit that is not complete behind ESC.                               *)
LEMMA QrUnit ==
  ASSUME Kept, ~process, state # "IDLE"
  PROVE  \E i \in 1 .. Len(codes) : OpenAt(i) /\ Unfinished(i)
  BY DEF Kept, Parsed

(* The handler for QR codes keeps the invariant, as long as memory lasts.  *)
LEMMA QrKept ==
  ASSUME IInv, Kept, ~process, NEW c \in AllCodes, noprocess_and_write(c), ~nomem',
         codes' = Append(codes, c), UNCHANGED options
  PROVE  Kept'
<1>0. PICK n : n = Len(codes)
  OBVIOUS
<1>1. More(c) /\ font' = font /\ ~process'
  BY DEF More, IInv, BufferTypes, Kept, KeptTypes, options
<1>2. /\ n \in Nat /\ Len(codes') = n + 1 /\ codes'[n + 1] = c /\ codes' \in Seq(AllCodes)
      /\ \A j \in 1 .. n : codes'[j] = codes[j]
  BY <1>0, <1>1, MoreCodes
<1>3. font' \in BOOLEAN /\ digits' \in Nat /\ codes' \in Seq(AllCodes)
  <2>1. digits \in Nat /\ (digits' = digits \/ digits' = digits + 1 \/ digits' = 0)
    BY DEF Kept, KeptTypes, noprocess_and_write, Escape, Copy, OtherEscape, Digit, NoDigit,
           PrintQr, StartQr, Keep, qrVars
  <2>2. digits' \in Nat
    BY <2>1
  <2> QED BY <1>1, <1>2, <2>2 DEF Kept, KeptTypes
<1>4. SUFFICES Parsed' /\ OutputKept' /\ OutputTypes'
  BY <1>3 DEF Kept, KeptTypes
<1>5. state = "IDLE" => Whole
  BY DEF Kept, Parsed, Unfinished
<1>6. OutputKept /\ OutputTypes /\ DrawnText \in Seq(AllCodes)
  BY DEF Kept, KeptTypes, OutputKept
<1>7. CASE Escape(c)
  <2>1. Whole /\ Opens(c) /\ UNCHANGED <<lineVars, out>> /\ c = "esc" /\ state' = "TAG"
    BY <1>5, <1>7 DEF Escape, Opens
  <2>2. OpenAt(n + 1)' /\ OutputKept' /\ OutputTypes'
    BY <1>0, <1>1, <2>1, UnitOpens
  <2>3. Unfinished(n + 1)' /\ n + 1 \in 1 .. Len(codes')
    BY <1>1, <1>2, <2>1 DEF Unfinished
  <2> QED BY <2>2, <2>3 DEF Parsed
<1>8. CASE Copy(c)
  <2>1. Whole /\ ~Opens(c) /\ Prints(c) /\ state' = "IDLE"
    BY <1>5, <1>8 DEF Copy, Opens
  <2> QED BY <1>1, <2>1, TextOut DEF Parsed
<1>9. CASE state # "IDLE"
  <2>1. PICK i \in 1 .. n : OpenAt(i) /\ Unfinished(i)
    BY <1>0, <1>9, QrUnit
  <2>2. codes[i] = "esc" /\ UnitEnd(i) = 0 /\ ~IsText(i)
    BY <2>1 DEF Unfinished, OpenAt, IsText
  <2>3. /\ i = n => UnitEnd(i)' = IF c = "." THEN 0 ELSE n + 1
        /\ i # n => UnitEnd(i)' = IF \/ c # "5" /\ n <= i + HeaderDigits
                                     \/ c = "esc" /\ n > i + HeaderDigits
                                  THEN n + 1 ELSE 0
    BY <1>0, <1>1, <2>2, UnitEndEscape
  <2>4. HeaderDigits \in Nat \ {0} /\ digits \in Nat
    BY SizesAssumption DEF SizesAssumption, Kept, KeptTypes
  <2>5. codes'[i] = "esc" /\ i \in 1 .. Len(codes') /\ n + 1 # 0 /\ i \in 1 .. Len(codes)
    BY <1>0, <1>2, <2>2
  <2>6. /\ state = "TAG" => i = n
        /\ state = "HEADER" => n = i + 1 + digits /\ digits < HeaderDigits
        /\ state = "DATA" => n > i + HeaderDigits
    BY <1>0, <2>1 DEF Unfinished
  <2>7. Meaning(i)' = <<>>
    <3>1. ~IsText(i)'
      BY <1>1, <2>5 DEF IsText
    <3> QED BY <1>1, <3>1 DEF Meaning
  <2>8. ASSUME UnitEnd(i)' = n + 1, UNCHANGED lineVars, state' = "IDLE",
               Bytes(out') = Bytes(out), Texts(out', "line") = Texts(out, "line"),
               out' \in Seq(Items)
        PROVE  Parsed' /\ OutputKept' /\ OutputTypes'
    <3>1. /\ DirectText' = DirectText \o <<>> /\ DrawnText' = DrawnText /\ Whole'
      BY <1>0, <1>1, <1>6, <2>1, <2>2, <2>7, <2>8, UnitDone
    <3>2. DirectText' = DirectText
      <4>1. Bytes(out) \in Seq(OutText)
        BY <1>6, BytesConcat DEF OutputTypes
      <4>2. \A q \in Seq(OutText) : q \o <<>> = q
        OBVIOUS
      <4> QED BY <1>6, <3>1, <4>1, <4>2 DEF OutputKept
    <3>3. OutputKept'
      BY <1>6, <2>8, <3>1, <3>2, NothingOut
    <3>4. OutputTypes'
      BY <1>6, <2>8 DEF OutputTypes, lineVars
    <3> QED BY <2>8, <3>1, <3>3, <3>4 DEF Parsed
  <2>9. ASSUME UnitEnd(i)' = 0, UNCHANGED <<lineVars, out>>, Unfinished(i)'
        PROVE  Parsed' /\ OutputKept' /\ OutputTypes'
    <3>1. OpenAt(i)' /\ OutputKept' /\ OutputTypes'
      BY <1>0, <1>1, <2>1, <2>9, UnitGoesOn
    <3> QED BY <2>5, <2>9, <3>1 DEF Parsed
  <2>10. out \in Seq(Items)
    BY <1>6 DEF OutputTypes
  <2>11. CASE StartQr(c)
    <3>1. /\ state = "TAG" /\ c = "." /\ state' = "HEADER" /\ digits' = 0
          /\ UNCHANGED <<lineVars, out>>
      BY <2>11 DEF StartQr
    <3>2. UnitEnd(i)' = 0
      BY <2>3, <2>6, <3>1
    <3>3. Unfinished(i)'
      BY <1>1, <1>2, <2>4, <2>5, <2>6, <3>1 DEF Unfinished
    <3> QED BY <2>9, <3>1, <3>2, <3>3
  <2>12. CASE OtherEscape(c)
    <3>1. state = "TAG" /\ c # "." /\ state' = "IDLE" /\ UNCHANGED <<lineVars, out>>
      BY <2>12 DEF OtherEscape
    <3>2. UnitEnd(i)' = n + 1
      BY <2>3, <2>6, <3>1
    <3> QED BY <2>8, <2>10, <3>1, <3>2
  <2>13. CASE Digit(c)
    <3>1. /\ state = "HEADER" /\ c = "5" /\ digits' = digits + 1 /\ UNCHANGED <<lineVars, out>>
          /\ state' = IF digits' = HeaderDigits THEN "DATA" ELSE "HEADER"
      BY <2>13 DEF Digit
    <3>2. i # n
      BY <1>2, <2>4, <2>6, <3>1
    <3>3. UnitEnd(i)' = 0
      BY <2>3, <3>1, <3>2
    <3>4. Unfinished(i)'
      <4>1. CASE digits' = HeaderDigits
        <5>1. Len(codes') > i + HeaderDigits
          BY <1>2, <2>4, <2>6, <3>1, <4>1
        <5> QED BY <1>1, <2>5, <3>1, <4>1, <5>1 DEF Unfinished
      <4>2. CASE digits' # HeaderDigits
        <5>1. Len(codes') = i + 1 + digits' /\ digits' < HeaderDigits
          BY <1>2, <2>4, <2>6, <3>1, <4>2
        <5> QED BY <1>1, <2>5, <3>1, <4>2, <5>1 DEF Unfinished
      <4> QED BY <4>1, <4>2
    <3> QED BY <2>9, <3>1, <3>3, <3>4
  <2>14. CASE NoDigit(c)
    <3>1. state = "HEADER" /\ c # "5" /\ state' = "IDLE" /\ UNCHANGED <<lineVars, out>>
      BY <2>14 DEF NoDigit
    <3>2. i # n /\ n <= i + HeaderDigits
      BY <1>2, <2>4, <2>6, <3>1
    <3>3. UnitEnd(i)' = n + 1
      BY <2>3, <3>1, <3>2
    <3> QED BY <2>8, <2>10, <3>1, <3>3
  <2>15. CASE Keep(c)
    <3>1. state = "DATA" /\ c # "esc" /\ state' = "DATA" /\ UNCHANGED <<lineVars, out>>
      BY <2>15 DEF Keep
    <3>2. i # n /\ n > i + HeaderDigits /\ ~(n <= i + HeaderDigits)
      BY <1>2, <2>4, <2>6, <3>1
    <3>3. UnitEnd(i)' = 0
      BY <2>3, <3>1, <3>2
    <3>4. Len(codes') > i + HeaderDigits
      BY <1>2, <2>4, <3>2
    <3>5. Unfinished(i)'
      BY <1>1, <2>5, <3>1, <3>4 DEF Unfinished
    <3> QED BY <2>9, <3>1, <3>3, <3>5
  <2>16. CASE PrintQr(c)
    <3>1. /\ state = "DATA" /\ c = "esc" /\ state' = "IDLE" /\ UNCHANGED lineVars
          /\ out' = out \o <<Item("qr", <<>>)>> \/ out' = out
      BY <2>16 DEF PrintQr, Puts
    <3>2. i # n /\ n > i + HeaderDigits
      BY <1>2, <2>4, <2>6, <3>1
    <3>3. UnitEnd(i)' = n + 1
      BY <2>3, <3>1, <3>2
    <3>4. /\ Bytes(out') = Bytes(out) /\ Texts(out', "line") = Texts(out, "line")
          /\ out' \in Seq(Items)
      <4> DEFINE item == Item("qr", <<>>)
      <4>1. item \in Items /\ item.kind \notin {"byte", "line"}
        BY DEF Item, Items
      <4> HIDE DEF item
      <4>2. CASE out' = out \o <<item>>
        BY <2>10, <4>1, <4>2, OthersOut
      <4>3. CASE out' = out
        BY <2>10, <4>3
      <4> QED BY <3>1, <4>2, <4>3 DEF item
    <3> QED BY <2>8, <3>1, <3>3, <3>4
  <2>17. ~Escape(c) /\ ~Copy(c)
    BY <1>9 DEF Escape, Copy
  <2> QED BY <2>11, <2>12, <2>13, <2>14, <2>15, <2>16, <2>17 DEF noprocess_and_write
<1>10. state = "IDLE" => Escape(c) \/ Copy(c)
  BY DEF noprocess_and_write, OtherEscape, Digit, NoDigit, PrintQr, StartQr, Keep
<1> QED BY <1>7, <1>8, <1>9, <1>10

-----------------------------------------------------------------------------
(* A step that takes no character.                                         *)
LEMMA NothingTaken ==
  ASSUME KeptInv, UNCHANGED <<process, font, codes, state, tag_buf, digits, lineVars, nomem>>,
         out \in Seq(Items) => /\ out' \in Seq(Items) /\ Bytes(out') = Bytes(out)
                               /\ Texts(out', "line") = Texts(out, "line")
  PROVE  KeptInv'
<1> SUFFICES ASSUME ~nomem' PROVE Kept'
  BY DEF KeptInv
<1>1. Kept
  BY DEF KeptInv
<1>2. /\ out' \in Seq(Items) /\ Bytes(out') = Bytes(out) /\ Texts(out', "line") = Texts(out, "line")
  BY <1>1 DEF Kept, KeptTypes, OutputTypes
<1>3. \A i : UnitEnd(i)' = UnitEnd(i)
  BY DEF UnitEnd, TagEnd, QrEnd, First, LastOf
<1>4. Ends' = Ends
  BY <1>3 DEF Ends
<1>5. Starts' = Starts
  BY <1>3, <1>4 DEF Starts
<1>6. \A i : Meaning(i)' = Meaning(i) /\ Drawn(i)' = Drawn(i)
  <2> SUFFICES ASSUME NEW i PROVE Meaning(i)' = Meaning(i) /\ Drawn(i)' = Drawn(i)
    OBVIOUS
  <2>1. TagEnd(i)' = TagEnd(i)
    BY DEF TagEnd, First, LastOf
  <2>2. IsText(i)' <=> IsText(i)
    BY DEF IsText
  <2>3. Drawn(i)' = Drawn(i)
    BY <2>2 DEF Drawn
  <2>4. UnitEnd(i)' = UnitEnd(i)
    BY <1>3
  <2>5. /\ process' = process /\ font' = font /\ codes' = codes
    OBVIOUS
  <2>6. Meaning(i)' = Meaning(i)
    <3>1. PICK e : e = UnitEnd(i)
      OBVIOUS
    <3>2. Between(i, e)' = Between(i, e)
      <4>1. UnitEnd(i)' = e
        BY <2>4, <3>1
      <4>2. Between(i, e)' = [j \in 1 .. e - i - 1 |-> Low(codes'[i + j])]
        BY DEF Between
      <4> QED BY <2>5, <4>2, Zenon DEF Between
    <3>3. Meaning(i) = IF IsText(i) THEN IF font THEN <<>> ELSE <<codes[i]>>
                       ELSE IF ~process THEN <<>>
                       ELSE IF codes[e] = ">"
                            THEN IF IsCharacter(Between(i, e)) THEN <<"tag">>
                                 ELSE <<"<">> \o Between(i, e) \o <<">">>
                       ELSE IF TagEnd(i) = e THEN <<"<">> \o Between(i, e) ELSE <<"<">>
      BY <3>1 DEF Meaning, Between
    <3>4. Meaning(i)' = IF IsText(i)' THEN IF font' THEN <<>> ELSE <<codes'[i]>>
                        ELSE IF ~process' THEN <<>>
                        ELSE IF codes'[e] = ">"
                             THEN IF IsCharacter(Between(i, e)') THEN <<"tag">>
                                  ELSE <<"<">> \o Between(i, e)' \o <<">">>
                        ELSE IF TagEnd(i)' = e THEN <<"<">> \o Between(i, e)' ELSE <<"<">>
      BY <2>4, <3>1 DEF Meaning, Between
    <3> DEFINE a == Between(i, e)  open == <<"<">> \o a  both == <<"<">> \o a \o <<">">>
    <3> HIDE DEF a, open, both
    <3>5. Meaning(i) = IF IsText(i) THEN IF font THEN <<>> ELSE <<codes[i]>>
                       ELSE IF ~process THEN <<>>
                       ELSE IF codes[e] = ">" THEN IF IsCharacter(a) THEN <<"tag">> ELSE both
                       ELSE IF TagEnd(i) = e THEN open ELSE <<"<">>
      BY <3>3, Zenon DEF a, open, both
    <3>6. Meaning(i)' = IF IsText(i)' THEN IF font' THEN <<>> ELSE <<codes'[i]>>
                        ELSE IF ~process' THEN <<>>
                        ELSE IF codes'[e] = ">" THEN IF IsCharacter(a) THEN <<"tag">> ELSE both
                        ELSE IF TagEnd(i)' = e THEN open ELSE <<"<">>
      BY <3>2, <3>4, Zenon DEF a, open, both
    <3> QED BY <2>1, <2>2, <2>5, <3>5, <3>6
  <2> QED BY <2>3, <2>6
<1>7. DirectText' = DirectText /\ DrawnText' = DrawnText
  BY <1>5, <1>6 DEF DirectText, DrawnText
<1>8. OutputKept'
  BY <1>1, <1>2, <1>7, NothingOut DEF Kept
<1>9. Whole' <=> Whole
  BY <1>3, <1>4 DEF Whole
<1>10. \A i : (OpenAt(i)' <=> OpenAt(i)) /\ (Unfinished(i)' <=> Unfinished(i))
  BY <1>3, <1>4 DEF OpenAt, Unfinished, Between
<1>11. Parsed'
  BY <1>1, <1>9, <1>10 DEF Kept, Parsed
<1>12. KeptTypes'
  BY <1>1, <1>2 DEF Kept, KeptTypes, OutputTypes, lineVars
<1> QED BY <1>8, <1>11, <1>12 DEF Kept

-----------------------------------------------------------------------------
(* Before the first character.                                             *)
LEMMA KeptInitially == Init => KeptInv
<1> SUFFICES ASSUME Init PROVE Kept
  BY DEF KeptInv
<1>1. /\ codes = <<>> /\ out = <<>> /\ line = <<>> /\ pix_pos = 0 /\ digits = 0
      /\ state = "IDLE" /\ font \in BOOLEAN
  BY DEF Init
<1>2. Len(codes) = 0 /\ 1 .. Len(codes) = {}
  BY <1>1
<1>3. Ends = <<>> /\ DOMAIN Ends = 1 .. 0
  BY <1>2 DEF Ends
<1>4. Reached(Ends) = {}
  <2>1. Reached(Ends) \in SUBSET (1 .. 0)
    BY <1>3, ReachedThere, 0 \in Nat, Zenon
  <2> QED BY <2>1
<1>5. Whole /\ Starts = {}
  BY <1>2, <1>4 DEF Whole, Starts
<1>6. DirectText = <<>> /\ DrawnText = <<>>
  <2>1. \A parts : Gather(parts, 0) = <<>>
    <3>1. \A parts : [i \in 1 .. 0 |-> IF i \in DOMAIN parts THEN parts[i] ELSE <<>>] = <<>>
      OBVIOUS
    <3> QED BY <3>1, FlattenEmpty DEF Gather
  <2> QED BY <1>2, <2>1 DEF DirectText, DrawnText
<1>7. \A k : Texts(<<>>, k) = <<>>
  <2>1. \A k : [i \in 1 .. Len(<<>>) |-> IF <<>>[i].kind = k THEN <<(<<>>[i]).text>> ELSE <<>>] = <<>>
    OBVIOUS
  <2> QED BY <2>1, FlattenEmpty DEF Texts
<1>8. Bytes(out) = <<>>
  BY <1>1, <1>7, FlattenEmpty DEF Bytes
<1>9. LineFeeds(<<>>, Len(<<>>)) = 0
  <2>1. {i \in 1 .. Len(<<>>) : (<<>>)[i] = "lf"} = {}
    OBVIOUS
  <2> QED BY <2>1, FS_EmptySet DEF LineFeeds
<1>10. Complete(<<>>) = <<>>
  BY <1>9 DEF Complete
<1>11. Current(<<>>) = <<>>
  <2>1. \A k : [i \in 1 .. Len(<<>>) |->
                  IF (<<>>)[i] # "lf" /\ LineFeeds(<<>>, i) = k THEN <<(<<>>)[i]>> ELSE <<>>] = <<>>
    OBVIOUS
  <2> QED BY <2>1, FlattenEmpty DEF Current, TextLine
<1>12. Fitting(<<>>) = <<>> /\ Dots(<<>>, 0) = 0
  BY NothingFits
<1>13. OutputKept
  BY <1>1, <1>6, <1>7, <1>8, <1>10, <1>11, <1>12 DEF OutputKept, Drawing
<1>14. KeptTypes
  BY <1>1 DEF KeptTypes, OutputTypes
<1> QED BY <1>1, <1>5, <1>13, <1>14 DEF Kept, Parsed

(* Steps that write other items, or none.                                  *)
LEMMA FinishKeeps ==
  ASSUME KeptInv, Finish
  PROVE  KeptInv'
<1> DEFINE item == Item("epilog", <<>>)
<1>1. UNCHANGED <<process, font, codes, state, tag_buf, digits, lineVars, nomem>>
  BY DEF Finish, options, qrVars
<1>2. out' = out \/ out' = out \o <<item>>
  BY DEF Finish, Puts
<1>3. item \in Items /\ item.kind \notin {"byte", "line"}
  BY DEF Item, Items
<1> HIDE DEF item
<1>4. out \in Seq(Items) => /\ out' \in Seq(Items) /\ Bytes(out') = Bytes(out)
                            /\ Texts(out', "line") = Texts(out, "line")
  <2>1. CASE out' = out
    BY <2>1
  <2>2. CASE out' = out \o <<item>>
    BY <1>3, <2>2, OthersOut
  <2> QED BY <1>2, <2>1, <2>2
<1> QED BY <1>1, <1>4, NothingTaken

LEMMA StartKeeps ==
  ASSUME KeptInv, Start
  PROVE  KeptInv'
<1> DEFINE raw == Item("raw mode", <<>>)  prolog == Item("prolog", <<>>)
<1>1. UNCHANGED <<process, font, codes, state, tag_buf, digits, lineVars, nomem>>
  BY DEF Start, options, qrVars
<1>2. out' = out \o <<raw, prolog>>
  BY DEF Start, Puts
<1>3. /\ raw \in Items /\ raw.kind \notin {"byte", "line"}
      /\ prolog \in Items /\ prolog.kind \notin {"byte", "line"}
  BY DEF Item, Items
<1> HIDE DEF raw, prolog
<1>4. ASSUME out \in Seq(Items)
      PROVE  /\ out' \in Seq(Items) /\ Bytes(out') = Bytes(out)
             /\ Texts(out', "line") = Texts(out, "line")
  <2>1. out \o <<raw, prolog>> = (out \o <<raw>>) \o <<prolog>>
    <3> DEFINE q == out \o <<raw, prolog>>  a == out \o <<raw>>  b == <<prolog>>  n == Len(out)
    <3>1. /\ q \in Seq(Items) /\ Len(q) = n + 2 /\ q[n + 1] = raw /\ q[n + 2] = prolog
          /\ \A i \in 1 .. n : q[i] = out[i]
      BY <1>3, <1>4
    <3>2. /\ a \in Seq(Items) /\ Len(a) = n + 1 /\ a[n + 1] = raw
          /\ \A i \in 1 .. n : a[i] = out[i]
      BY <1>3, <1>4
    <3>3. b \in Seq(Items) /\ Len(b) = 1 /\ b[1] = prolog /\ n \in Nat
      BY <1>3, <1>4
    <3> HIDE DEF q, a, b, n
    <3>4. Len(q) = Len(a) + Len(b)
      BY <3>1, <3>2, <3>3
    <3>5. \A i \in 1 .. Len(a) : q[i] = a[i]
      BY <3>1, <3>2, <3>3
    <3>6. \A i \in Len(a) + 1 .. Len(a) + Len(b) : q[i] = b[i - Len(a)]
      BY <3>1, <3>2, <3>3
    <3>7. q = a \o b
      BY <3>1, <3>2, <3>3, <3>4, <3>5, <3>6, ConcatIs
    <3> QED BY <3>7 DEF q, a, b
  <2>2. /\ out \o <<raw>> \in Seq(Items) /\ Bytes(out \o <<raw>>) = Bytes(out)
        /\ Texts(out \o <<raw>>, "line") = Texts(out, "line")
    BY <1>3, <1>4, OthersOut
  <2> DEFINE first == out \o <<raw>>
  <2> HIDE DEF first
  <2>3. /\ first \o <<prolog>> \in Seq(Items) /\ Bytes(first \o <<prolog>>) = Bytes(first)
        /\ Texts(first \o <<prolog>>, "line") = Texts(first, "line")
    BY <1>3, <2>2, OthersOut DEF first
  <2> QED BY <1>2, <2>1, <2>2, <2>3 DEF first
<1> QED BY <1>1, <1>4, NothingTaken

(* The next character.                                                     *)
LEMMA HandleKept ==
  ASSUME IInv, KeptInv, NEW c \in Codes \union Alphabet, Handle(c)
  PROVE  KeptInv'
<1>1. CASE cancel_flag
  BY <1>1, FinishKeeps DEF Handle
<1>2. CASE ~cancel_flag
  <2> SUFFICES ASSUME ~nomem' PROVE Kept'
    BY DEF KeptInv
  <2>1. c \in AllCodes
    BY DEF AllCodes, Codes, Alphabet, Characters
  <2>2. /\ IF process THEN process_and_write(c) ELSE noprocess_and_write(c)
        /\ codes' = Append(codes, c) /\ UNCHANGED options
    BY <1>2 DEF Handle
  <2>3. ~nomem
    BY <2>2 DEF process_and_write, noprocess_and_write, StartQr, Keep
  <2>4. Kept
    BY <2>3 DEF KeptInv
  <2>5. CASE process
    BY <2>1, <2>2, <2>4, <2>5, TagsKept
  <2>6. CASE ~process
    BY <2>1, <2>2, <2>4, <2>6, QrKept
  <2> QED BY <2>5, <2>6
<1> QED BY <1>1, <1>2

LEMMA KeptInductive == IInv /\ KeptInv /\ [Next]_vars => KeptInv'
<1> SUFFICES ASSUME IInv, KeptInv, [Next]_vars PROVE KeptInv'
  OBVIOUS
<1>1. CASE Start
  BY <1>1, StartKeeps
<1>2. CASE GetCode
  <2>1. CASE FirstByte
    BY <2>1, NothingTaken DEF FirstByte, options, qrVars
  <2>2. CASE \E c \in Codes \union Alphabet : Handle(c)
    BY <2>2, HandleKept
  <2> QED BY <1>2, <2>1, <2>2 DEF GetCode
<1>3. CASE EndOfInput
  BY <1>3, FinishKeeps DEF EndOfInput
<1>4. CASE Sigterm
  BY <1>4, NothingTaken DEF Sigterm, options, qrVars
<1>5. CASE UNCHANGED vars
  BY <1>5, NothingTaken DEF vars, options, qrVars
<1> QED BY <1>1, <1>2, <1>3, <1>4, <1>5 DEF Next, Terminated

(* The invariant says what the reference definitions ask for.              *)
LEMMA KeptIsText == KeptInv => TextKept
<1> SUFFICES ASSUME KeptInv, ~nomem PROVE TextKept
  BY DEF TextKept
<1>1. OutputKept
  BY DEF KeptInv, Kept
<1>2. /\ Complete(DrawnText) \in Seq(Seq(AllCodes))
      /\ LinesOf(DrawnText) = Append(Complete(DrawnText), Fitting(Current(DrawnText)))
  BY <1>1, LinesSplit DEF OutputKept
<1>3. Append(Texts(out, "line"), line) = LinesOf(DrawnText)
  BY <1>1, <1>2 DEF OutputKept
<1> QED BY <1>1, <1>3 DEF TextKept, OutputKept, Bytes, DirectText, DrawnText

(* What is written is what the input stands for: with tags and QR codes    *)
(* replaced, broken ones as the code passes them on, and the text that is  *)
(* drawn cut to lines, whatever the input, as long as memory lasts.        *)
THEOREM TextIsKept == Spec => []TextKept
<1> QED BY Initially, Inductive, KeptInitially, KeptInductive, KeptIsText, PTL DEF Spec

=============================================================================
