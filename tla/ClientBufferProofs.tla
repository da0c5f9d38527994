------------------------- MODULE ClientBufferProofs -------------------------
(***************************************************************************)
(* What the operations of ClientBuffer do to a buffer.  The provers have   *)
(* the facts about Len, Append and SubSeq built in; that a non-empty set   *)
(* of natural numbers has a least element comes from WellFoundedInduction, *)
(* which is LOCAL to keep it out of the proofs that use these lemmas.      *)
(***************************************************************************)
EXTENDS ClientBuffer, TLAPS
LOCAL INSTANCE WellFoundedInduction

(* A non-empty set of natural numbers has a least element.                 *)
LEMMA LeastNumber ==
    ASSUME NEW T, T \subseteq Nat, T # {}
    PROVE  \E x \in T : \A y \in T : x <= y
<1>1. PICK x \in T : \A y \in T : ~ (<<y, x>> \in OpToRel(<, Nat))
    BY NatLessThanWellFounded, WFMin
<1>2. \A y \in T : x <= y
    <2> TAKE y \in T
    <2>1. <<y, x>> \in Nat \X Nat OBVIOUS
    <2>2. ~(y < x) BY <1>1, <2>1 DEF OpToRel
    <2> QED BY <2>2
<1> QED BY <1>2

(* processRead takes a run of the pages that are in the buffer.            *)
LEMMA ReadLengthInRange ==
    ASSUME NEW ps \in Seq(Page), NEW maxBytes \in Nat
    PROVE  ReadLength(ps, maxBytes) \in 0 .. Len(ps)
<1> DEFINE Fits(n) == n <= 1 \/ Bytes(SubSeq(ps, 1, n)) <= maxBytes
           Stops(n) == n = Len(ps) \/ (n >= 1 /\ ~(Bytes(SubSeq(ps, 1, n + 1)) <= maxBytes))
           T == {n \in 0 .. Len(ps) : Stops(n)}
<1>0. Len(ps) \in Nat OBVIOUS
<1>1. T \subseteq Nat /\ T # {}
    <2>1. Len(ps) \in T BY <1>0
    <2> QED BY <2>1
<1>2. PICK n \in T : \A m \in T : n <= m
    <2> HIDE DEF T
    <2> QED BY ZenonT(30), <1>1, LeastNumber
<1>3. n \in 0 .. Len(ps) /\ Stops(n) BY <1>2
<1>4. Fits(n)
    <2>1. SUFFICES ASSUME n > 1 PROVE Bytes(SubSeq(ps, 1, n)) <= maxBytes
        BY <1>3
    <2>2. n - 1 \in 0 .. Len(ps) /\ n - 1 >= 1 /\ n - 1 # Len(ps) /\ n - 1 + 1 = n
        BY <1>0, <1>3, <2>1
    <2>3. n - 1 \notin T
        <3> HIDE DEF T, Stops, Fits
        <3>1. SUFFICES ASSUME n - 1 \in T PROVE FALSE OBVIOUS
        <3>2. n <= n - 1 BY <1>2, <3>1
        <3> QED BY <1>3, <3>2
    <2> QED BY <2>2, <2>3
<1> HIDE DEF Fits, Stops
<1>5. \E m \in 0 .. Len(ps) : Fits(m) /\ Stops(m) BY <1>3, <1>4
<1>6. ReadLength(ps, maxBytes) = CHOOSE m \in 0 .. Len(ps) : Fits(m) /\ Stops(m)
    BY DEF ReadLength, Fits, Stops
<1> QED BY <1>5, <1>6

IsBuffer(b) == b \in Buffer(b.bufferedBytes)

(* A new buffer, and what the methods return for a buffer, is a buffer.    *)
LEMMA NewBufferType == IsBuffer(NewBuffer)
    BY DEF IsBuffer, Buffer, NewBuffer

LEMMA EnqueueFacts ==
    ASSUME NEW b, IsBuffer(b), NEW p \in Page
    PROVE  LET a == EnqueuePages(b, <<p>>) IN
           /\ IsBuffer(a)
           /\ a.currentSequenceId = b.currentSequenceId
           /\ a.noMorePages = b.noMorePages
           /\ a.destroyed = b.destroyed
           /\ b.noMorePages => a = b
           /\ ~b.noMorePages => a.pages = Append(b.pages, p) /\ a.pendingRead = NoRead
<1>1. <<p>> \in Seq(Page) /\ b.pages \in Seq(Page) BY DEF IsBuffer, Buffer
<1>2. b.pages \o <<p>> = Append(b.pages, p) /\ Append(b.pages, p) \in Seq(Page)
    BY <1>1
<1>3. CASE b.noMorePages BY ZenonT(30), <1>3 DEF EnqueuePages
<1>4. CASE ~b.noMorePages
    <2> DEFINE bytes == b.bufferedBytes + Bytes(<<p>>)
    <2>1. EnqueuePages(b, <<p>>) = [b EXCEPT !.pages = Append(b.pages, p),
                                             !.bufferedBytes = bytes, !.pendingRead = NoRead]
        BY ZenonT(30), <1>2, <1>4 DEF EnqueuePages, AddPages, IsBuffer, Buffer
    <2> HIDE DEF bytes
    <2> QED BY ZenonT(30), <1>2, <1>4, <2>1 DEF IsBuffer, Buffer
<1> QED BY <1>3, <1>4

LEMMA NoMoreFacts ==
    ASSUME NEW b, IsBuffer(b)
    PROVE  LET a == SetNoMorePages(b) IN
           /\ IsBuffer(a)
           /\ a.pages = b.pages
           /\ a.currentSequenceId = b.currentSequenceId
           /\ a.noMorePages
           /\ a.destroyed = b.destroyed
           /\ a.pendingRead \in {b.pendingRead, NoRead}
    BY ZenonT(30) DEF SetNoMorePages, IsBuffer, Buffer

LEMMA DestroyFacts ==
    ASSUME NEW b, IsBuffer(b)
    PROVE  LET a == Destroy(b) IN
           /\ IsBuffer(a)
           /\ a.pages = << >>
           /\ a.currentSequenceId = b.currentSequenceId
           /\ a.noMorePages
           /\ a.destroyed
           /\ a.pendingRead = NoRead
<1>1. << >> \in Seq(Page) OBVIOUS
<1>2. b \in Buffer(b.bufferedBytes) BY DEF IsBuffer
<1>3. Destroy(b) \in Buffer(0) BY ZenonT(30), <1>1, <1>2 DEF Destroy, Buffer
<1>4. Destroy(b).pages = << >> BY <1>2 DEF Destroy, Buffer
<1>5. /\ Destroy(b).currentSequenceId = b.currentSequenceId
      /\ Destroy(b).noMorePages
      /\ Destroy(b).destroyed
      /\ Destroy(b).pendingRead = NoRead
      /\ Destroy(b).bufferedBytes = 0
    BY <1>2 DEF Destroy, Buffer
<1> QED BY <1>3, <1>4, <1>5 DEF IsBuffer

(* Acknowledging moves the position and drops as many pages.               *)
LEMMA AcknowledgeFacts ==
    ASSUME NEW b, IsBuffer(b), NEW s \in Nat, ~InvalidAcknowledge(b, s)
    PROVE  LET a == AcknowledgePages(b, s) IN
           /\ IsBuffer(a)
           /\ a.noMorePages = b.noMorePages
           /\ a.destroyed = b.destroyed
           /\ a.pendingRead = b.pendingRead
           /\ b.destroyed => a = b
           /\ a.currentSequenceId \in {b.currentSequenceId, s}
           /\ a.currentSequenceId >= b.currentSequenceId
           /\ ~b.destroyed => a.currentSequenceId >= s
           /\ Len(a.pages) + a.currentSequenceId = Len(b.pages) + b.currentSequenceId
           /\ \A i \in 1 .. Len(a.pages) :
                 a.pages[i] = b.pages[i + a.currentSequenceId - b.currentSequenceId]
<1>1. /\ b.pages \in Seq(Page) /\ Len(b.pages) \in Nat
      /\ b.currentSequenceId \in Nat
    BY DEF IsBuffer, Buffer
<1>2. CASE b.destroyed \/ s < b.currentSequenceId
    BY <1>1, <1>2 DEF AcknowledgePages
<1>3. CASE ~b.destroyed /\ ~(s < b.currentSequenceId)
    <2> DEFINE n == s - b.currentSequenceId
               rest == SubSeq(b.pages, n + 1, Len(b.pages))
               bytes == b.bufferedBytes - Bytes(SubSeq(b.pages, 1, n))
    <2>1. n \in 0 .. Len(b.pages) BY <1>1, <1>3 DEF InvalidAcknowledge
    <2>2. AcknowledgePages(b, s) = [b EXCEPT !.pages = rest, !.currentSequenceId = s,
                                             !.bufferedBytes = bytes]
        BY <1>3 DEF AcknowledgePages, IsBuffer, Buffer
    <2>3. \A i \in n + 1 .. Len(b.pages) : b.pages[i] \in Page
        BY <1>1, <2>1
    <2>4. /\ rest \in Seq(Page)
          /\ Len(rest) = Len(b.pages) - n
          /\ \A i \in 1 .. Len(b.pages) - n : rest[i] = b.pages[i + n]
        <3>1. /\ rest \in Seq(Page)
              /\ Len(rest) = IF n + 1 <= Len(b.pages) THEN Len(b.pages) - (n + 1) + 1 ELSE 0
              /\ \A i \in 1 .. Len(b.pages) - (n + 1) + 1 : rest[i] = b.pages[n + 1 + i - 1]
            <4>1. n + 1 \in Int /\ Len(b.pages) \in Int BY <1>1, <2>1
            <4> HIDE DEF n
            <4> QED BY <4>1, <2>3
        <3> HIDE DEF rest, n
        <3>2. \A i \in 1 .. Len(b.pages) - n : n + 1 + i - 1 = i + n BY <1>1, <2>1
        <3>3. Len(b.pages) - (n + 1) + 1 = Len(b.pages) - n BY <1>1, <2>1
        <3> QED BY <1>1, <2>1, <3>1, <3>2, <3>3
    <2> HIDE DEF rest, bytes
    <2> DEFINE a == AcknowledgePages(b, s)
    <2>5. /\ IsBuffer(a) /\ a.pages = rest /\ a.currentSequenceId = s
          /\ a.noMorePages = b.noMorePages /\ a.destroyed = b.destroyed
          /\ a.pendingRead = b.pendingRead
        BY ZenonT(30), <2>2, <2>4 DEF IsBuffer, Buffer
    <2>6. Len(a.pages) + a.currentSequenceId = Len(b.pages) + b.currentSequenceId
        <3> HIDE DEF a
        <3>1. Len(a.pages) = Len(b.pages) - n BY <2>4, <2>5
        <3>2. a.currentSequenceId = b.currentSequenceId + n BY <1>1, <2>5
        <3> HIDE DEF n
        <3> QED BY <1>1, <2>1, <3>1, <3>2
    <2>7. \A i \in 1 .. Len(rest) : rest[i] = b.pages[i + s - b.currentSequenceId]
        <3>1. \A i \in 1 .. Len(rest) : i + n = i + s - b.currentSequenceId BY <1>1
        <3> QED BY <2>4, <3>1
    <2> HIDE DEF a, n
    <2> QED BY <1>1, <1>3, <2>5, <2>6, <2>7 DEF a
<1> QED BY <1>2, <1>3

LEMMA GetPagesFacts ==
    ASSUME NEW b, IsBuffer(b), NEW s \in Nat, NEW r \in Read
    PROVE  LET a == GetPages(b, s, r) IN
           /\ IsBuffer(a)
           /\ a = [b EXCEPT !.pendingRead = a.pendingRead]
           /\ a.pendingRead = IF CanReadNow(b, s) THEN NoRead ELSE r
    BY DEF GetPages, IsBuffer, Buffer
=============================================================================
