---------------------------- MODULE LfqueueProofs ----------------------------
(***************************************************************************)
(* The ring with wrapping counters implements the bounded FIFO queue, for     *)
(* every size of the ring and every range of the counters.                  *)
(***************************************************************************)
EXTENDS Lfqueue, SequenceTheorems, Arithmetic, TLAPS

-----------------------------------------------------------------------------
(* Counters                                                                *)

(* What is left of K elements of which (a - b) % W are taken.                *)
LEMMA RoomLeft ==
  ASSUME NEW a \in Int, NEW b \in Int, (a - b) % W <= K
  PROVE  (b + K - a) % W = K - ((a - b) % W)
<1>1. K \in Nat \ {0} /\ W \in Nat \ {0} /\ 2 * K <= W
  BY LfqueueParams
<1>2. PICK q \in Int, f \in 0..(W - 1) : f = (a - b) % W /\ a - b = W * q + f
  <2>1. a - b \in Int
    OBVIOUS
  <2>2. (a - b) \div W \in Int /\ a - b = W * ((a - b) \div W) + ((a - b) % W)
        /\ (a - b) % W \in 0..(W - 1)
    BY <1>1, <2>1, Remainder
  <2>. QED
    BY <2>2
<1>3. W * (-q) = -(W * q) /\ W * q \in Int
  BY <1>1, <1>2
<1>4. b + K - a = W * (-q) + (K - f)
  BY <1>1, <1>2, <1>3
<1>5. K - f \in 0..(W - 1)
  BY <1>1, <1>2
<1>6. (W * (-q) + (K - f)) % W = K - f
  <2>1. -q \in Int /\ K - f \in 0..(W - 1)
    BY <1>1, <1>2
  <2>. QED
    BY <2>1, <1>1, <1>2, <1>5, RemainderUnique
<1>. QED
  BY <1>2, <1>4, <1>6

(* The writer counts.                                                       *)
LEMMA OneMore ==
  ASSUME NEW a \in Int, NEW b \in Int, (a - b) % W < K
  PROVE  (((a + 1) % W) - b) % W = ((a - b) % W) + 1
<1>1. K \in Nat \ {0} /\ W \in Nat \ {0} /\ 2 * K <= W
  BY LfqueueParams
<1>2. (a - b) % W \in 0..(W - 1) /\ (a + 1) % W \in Int
  BY <1>1, Remainder
<1>3. (((a + 1) % W) + (-b)) % W = (a + 1 + (-b)) % W
  <2>1. a + 1 \in Int /\ -b \in Int
    OBVIOUS
  <2>. QED
    BY <2>1, <1>1, RemainderOfSum
<1>4. (((a - b) % W) + 1) % W = (a - b + 1) % W
  <2>1. \A x, y \in Int : ((x % W) + y) % W = (x + y) % W
    BY <1>1, RemainderOfSum
  <2>2. a - b \in Int /\ 1 \in Int
    OBVIOUS
  <2>. QED
    BY <2>1, <2>2, Zenon
<1>5. (((a - b) % W) + 1) % W = ((a - b) % W) + 1
  BY <1>1, <1>2, SmallRemainder
<1>6. ((a + 1) % W) + (-b) = ((a + 1) % W) - b /\ a + 1 + (-b) = a - b + 1
  BY <1>2
<1>. QED
  BY <1>3, <1>4, <1>5, <1>6

(* The reader counts.                                                       *)
LEMMA OneLess ==
  ASSUME NEW a \in Int, NEW b \in 0..(W - 1), (a - b) % W > 0
  PROVE  (a - ((b + 1) % W)) % W = ((a - b) % W) - 1
<1>1. W \in Nat \ {0}
  BY LfqueueParams
<1>2. (a - b) % W \in 0..(W - 1) /\ a - b \in Int
  BY <1>1, Remainder
<1>3. (a - ((b + 1) % W)) % W = (a - b - 1) % W
  <2>1. CASE b + 1 < W
    <3>1. (b + 1) % W = b + 1
      BY <1>1, <2>1, SmallRemainder
    <3>2. a - (b + 1) = a - b - 1
      BY <1>1
    <3>. QED
      BY <3>1, <3>2
  <2>2. CASE b + 1 = W
    <3>1. (W * 1 + 0) % W = 0
      BY <1>1, RemainderUnique
    <3>2. W * 1 + 0 = W
      BY <1>1
    <3>3. (b + 1) % W = 0
      BY <2>2, <3>1, <3>2
    <3>4. (W * 1 + (a - b - 1)) % W = (a - b - 1) % W
      <4>1. a - b - 1 \in Int /\ 1 \in Int
        BY <1>1
      <4>. QED
        BY <4>1, <1>1, RemainderShift
    <3>5. W * 1 + (a - b - 1) = a - 0
      BY <1>1, <2>2
    <3>. QED
      BY <3>3, <3>4, <3>5
  <2>. QED
    BY <1>1, <2>1, <2>2
<1>4. (((a - b) % W) + (-1)) % W = (a - b + (-1)) % W
  <2>1. a - b \in Int /\ -1 \in Int
    OBVIOUS
  <2>. QED
    BY <2>1, <1>1, <1>2, RemainderOfSum
<1>5. (((a - b) % W) - 1) % W = ((a - b) % W) - 1
  BY <1>1, <1>2, SmallRemainder
<1>6. ((a - b) % W) + (-1) = ((a - b) % W) - 1 /\ a - b + (-1) = a - b - 1
  BY <1>2
<1>. QED
  BY <1>3, <1>4, <1>5, <1>6

(* The writer's slot is the one behind the last element.                    *)
LEMMA NextSlot ==
  ASSUME NEW a \in Int, NEW b \in Int
  PROVE  a % K = (b + ((a - b) % W)) % K
<1>1. K \in Nat \ {0} /\ W \in Nat \ {0} /\ W % K = 0
  BY LfqueueParams
<1>2. (b + ((a - b) % W)) % W = a % W
  <2>1. a - b \in Int /\ (a - b) % W \in Int /\ a - b + b = a
    BY <1>1, Remainder
  <2>2. (((a - b) % W) + b) % W = (a - b + b) % W
    BY <1>1, <2>1, RemainderOfSum
  <2>3. ((a - b) % W) + b = b + ((a - b) % W)
    BY <2>1
  <2>. QED
    BY <2>1, <2>2, <2>3
<1>3. (a % W) % K = a % K
  BY <1>1, RemainderOfRemainder
<1>4. b + ((a - b) % W) \in Int
  BY <1>1, Remainder
<1>5. ((b + ((a - b) % W)) % W) % K = (b + ((a - b) % W)) % K
  BY <1>1, <1>4, RemainderOfRemainder
<1>. QED
  BY <1>2, <1>3, <1>5

(* The slots seen from a reader that has counted.                           *)
LEMMA SlotShift ==
  ASSUME NEW b \in Int, NEW i \in Int
  PROVE  (((b + 1) % W) + i) % K = (b + 1 + i) % K
<1>1. K \in Nat \ {0} /\ W \in Nat \ {0} /\ W % K = 0
  BY LfqueueParams
<1>2. (b + 1) % W \in Int
  BY <1>1, Remainder
<1>3. ((((b + 1) % W) % K) + i) % K = (((b + 1) % W) + i) % K
  BY <1>1, <1>2, RemainderOfSum
<1>4. ((b + 1) % W) % K = (b + 1) % K
  <2>1. b + 1 \in Int
    OBVIOUS
  <2>. QED
    BY <2>1, <1>1, RemainderOfRemainder
<1>5. (((b + 1) % K) + i) % K = (b + 1 + i) % K
  <2>1. b + 1 \in Int
    OBVIOUS
  <2>. QED
    BY <2>1, <1>1, RemainderOfSum
<1>. QED
  BY <1>3, <1>4, <1>5

-----------------------------------------------------------------------------
(* The invariant                                                           *)

LfqueueTypeOK ==
  /\ data \in [0..(K - 1) -> Elements]
  /\ nwr \in 0..(W - 1)
  /\ nrd \in 0..(W - 1)
  /\ wpc \in {"idle", "stored"}
  /\ rpc \in {"idle", "loaded"}
  /\ got \in Elements
  /\ taken \in Elements

(* The difference of the counters is the number of elements; a writer that    *)
(* has stored has a free slot, and a reader that has loaded an element.     *)
Sound ==
  /\ LfqueueTypeOK
  /\ rd_avail <= K
  /\ wpc = "stored" => rd_avail < K
  /\ rpc = "loaded" => rd_avail > 0 /\ got = data[nrd % K]

LEMMA Ranges ==
  ASSUME LfqueueTypeOK
  PROVE  /\ K \in Nat \ {0} /\ W \in Nat \ {0} /\ 2 * K <= W
         /\ nwr \in Int /\ nrd \in Int
         /\ rd_avail \in Nat
         /\ nwr % K \in 0..(K - 1) /\ nrd % K \in 0..(K - 1)
<1>1. K \in Nat \ {0} /\ W \in Nat \ {0} /\ 2 * K <= W
  BY LfqueueParams
<1>2. nwr \in Int /\ nrd \in Int /\ nwr - nrd \in Int
  BY <1>1 DEF LfqueueTypeOK
<1>3. (nwr - nrd) % W \in 0..(W - 1)
  BY <1>1, <1>2, Remainder
<1>4. nwr % K \in 0..(K - 1) /\ nrd % K \in 0..(K - 1)
  BY <1>1, <1>2, Remainder
<1>. QED
  BY <1>1, <1>2, <1>3, <1>4 DEF rd_avail

LEMMA InitSound == Init => Sound /\ rd_avail = 0
<1> SUFFICES ASSUME Init PROVE Sound /\ rd_avail = 0
  OBVIOUS
<1>1. K \in Nat \ {0} /\ W \in Nat \ {0}
  BY LfqueueParams
<1>2. 0 % W = 0 /\ nwr - nrd = 0
  BY <1>1, SmallRemainder DEF Init
<1>3. rd_avail = 0
  BY <1>2 DEF rd_avail
<1>. QED
  BY <1>1, <1>3 DEF Init, Sound, LfqueueTypeOK

(* The slot the writer stores to is not one of those that are taken.         *)
LEMMA SlotFree ==
  ASSUME LfqueueTypeOK, rd_avail < K, NEW i \in 0..(rd_avail - 1)
  PROVE  (nrd + i) % K # nwr % K
<1>1. K \in Nat \ {0} /\ nrd \in Int /\ nwr \in Int /\ rd_avail \in Nat
  BY Ranges
<1>2. nwr % K = (nrd + rd_avail) % K
  BY <1>1, NextSlot DEF rd_avail
<1> SUFFICES ASSUME (nrd + i) % K = (nrd + rd_avail) % K PROVE FALSE
  BY <1>2
<1>3. nrd + i \in Int /\ nrd + rd_avail \in Int
      /\ (nrd + i) - (nrd + rd_avail) < K /\ (nrd + rd_avail) - (nrd + i) < K
  BY <1>1
<1>4. nrd + i = nrd + rd_avail
  BY <1>1, <1>3, NearRemainders
<1>. QED
  BY <1>1, <1>4

LEMMA StoreSound ==
  ASSUME Sound, NEW x \in Elements, Store(x)
  PROVE  Sound' /\ rd_avail < K /\ rd_avail' = rd_avail
<1>0. LfqueueTypeOK
  BY DEF Sound
<1>1. /\ K \in Nat \ {0} /\ nrd \in Int /\ nwr \in Int /\ rd_avail \in Nat
      /\ nwr % K \in 0..(K - 1) /\ nrd % K \in 0..(K - 1)
  BY <1>0, Ranges
<1>2. rd_avail < K
  <2>1. wr_avail = K - rd_avail
    BY <1>1, RoomLeft DEF Sound, wr_avail, rd_avail
  <2>. QED
    BY <2>1, <1>1 DEF Store
<1>3. rd_avail' = rd_avail
  BY DEF Store, rd_avail
<1>4. LfqueueTypeOK'
  BY <1>0, <1>1 DEF LfqueueTypeOK, Store
<1>5. ASSUME rpc' = "loaded" PROVE rd_avail' > 0 /\ got' = data'[nrd' % K]
  <2>1. rd_avail > 0 /\ got = data[nrd % K] /\ got' = got /\ nrd' = nrd
    BY <1>5 DEF Store, Sound
  <2>2. (nrd + 0) % K # nwr % K /\ nrd + 0 = nrd
    BY <1>0, <1>1, <1>2, <2>1, SlotFree
  <2>3. data'[nrd % K] = data[nrd % K]
    BY <2>2, <1>0, <1>1 DEF LfqueueTypeOK, Store
  <2>. QED
    BY <2>1, <2>3, <1>3
<1>6. rd_avail' <= K /\ rd_avail' < K
  BY <1>1, <1>2, <1>3
<1>. QED
  BY <1>2, <1>3, <1>4, <1>5, <1>6 DEF Sound

LEMMA WriterCommits ==
  ASSUME Sound, wr_commit
  PROVE  Sound' /\ rd_avail < K /\ rd_avail' = rd_avail + 1
<1>0. LfqueueTypeOK /\ rd_avail < K
  BY DEF Sound, wr_commit
<1>1. /\ K \in Nat \ {0} /\ W \in Nat \ {0} /\ nrd \in Int /\ nwr \in Int
      /\ rd_avail \in Nat
  BY <1>0, Ranges
<1>2. rd_avail' = rd_avail + 1
  BY <1>0, <1>1, OneMore DEF wr_commit, rd_avail
<1>3. nwr' \in 0..(W - 1)
  <2>1. nwr + 1 \in Int
    BY <1>1
  <2>. QED
    BY <1>1, <2>1, Remainder DEF wr_commit
<1>4. LfqueueTypeOK'
  BY <1>0, <1>3 DEF LfqueueTypeOK, wr_commit
<1>. QED
  BY <1>0, <1>1, <1>2, <1>4 DEF Sound, wr_commit

LEMMA LoadSound == Sound /\ Load => Sound' /\ rd_avail' = rd_avail
<1> SUFFICES ASSUME Sound, Load PROVE Sound' /\ rd_avail' = rd_avail
  OBVIOUS
<1>1. LfqueueTypeOK /\ nrd % K \in 0..(K - 1)
  BY Ranges DEF Sound
<1>2. rd_avail' = rd_avail
  BY DEF Load, rd_avail
<1>. QED
  BY <1>1, <1>2 DEF Sound, LfqueueTypeOK, Load

LEMMA ReaderCommits ==
  ASSUME Sound, rd_commit
  PROVE  Sound' /\ rd_avail > 0 /\ rd_avail' = rd_avail - 1
<1>0. LfqueueTypeOK /\ rd_avail > 0 /\ rd_avail <= K
  BY DEF Sound, rd_commit
<1>1. /\ K \in Nat \ {0} /\ W \in Nat \ {0} /\ nrd \in Int /\ nwr \in Int
      /\ rd_avail \in Nat /\ nrd \in 0..(W - 1)
  BY <1>0, Ranges DEF LfqueueTypeOK
<1>2. rd_avail' = rd_avail - 1
  BY <1>0, <1>1, OneLess DEF rd_commit, rd_avail
<1>3. nrd' \in 0..(W - 1)
  <2>1. nrd + 1 \in Int
    BY <1>1
  <2>. QED
    BY <1>1, <2>1, Remainder DEF rd_commit
<1>4. LfqueueTypeOK'
  BY <1>0, <1>3 DEF LfqueueTypeOK, rd_commit
<1>. QED
  BY <1>0, <1>1, <1>2, <1>4 DEF Sound, rd_commit

LEMMA ResetSound == Sound /\ reset => Sound' /\ rd_avail' = 0
<1> SUFFICES ASSUME Sound, reset PROVE Sound' /\ rd_avail' = 0
  OBVIOUS
<1>1. K \in Nat \ {0} /\ W \in Nat \ {0}
  BY LfqueueParams
<1>2. 0 % W = 0 /\ nwr' - nrd' = 0
  BY <1>1, SmallRemainder DEF reset
<1>3. rd_avail' = 0
  BY <1>2 DEF rd_avail
<1>. QED
  BY <1>1, <1>3 DEF reset, Sound, LfqueueTypeOK

LEMMA NextKeepsSound ==
  ASSUME Sound, [Next]_vars
  PROVE  Sound'
<1>1. CASE \E x \in Elements : Store(x)
  BY <1>1, StoreSound
<1>2. CASE wr_commit
  BY <1>2, WriterCommits
<1>3. CASE Load
  BY <1>3, LoadSound
<1>4. CASE rd_commit
  BY <1>4, ReaderCommits
<1>5. CASE reset
  BY <1>5, ResetSound
<1>6. CASE UNCHANGED vars
  BY <1>6 DEF vars, Sound, LfqueueTypeOK, rd_avail
<1>. QED
  BY <1>1, <1>2, <1>3, <1>4, <1>5, <1>6 DEF Next

LEMMA AlwaysSound == Spec => []Sound
<1>1. Sound /\ [Next]_vars => Sound'
  BY NextKeepsSound
<1>. QED
  BY InitSound, <1>1, PTL DEF Spec

-----------------------------------------------------------------------------
(* The refinement                                                          *)

(* Whatever is counted, a slot holds an element.                            *)
LEMMA Slot ==
  ASSUME NEW d \in [0..(K - 1) -> Elements], NEW b \in Int, NEW i \in Int
  PROVE  d[(b + i - 1) % K] \in Elements
<1>1. b + i - 1 \in Int /\ K \in Nat \ {0}
  BY LfqueueParams
<1>2. (b + i - 1) % K \in 0..(K - 1)
  BY <1>1, Remainder
<1>. QED
  BY <1>2

LEMMA ContentsSeq ==
  ASSUME LfqueueTypeOK
  PROVE  Contents \in Seq(Elements) /\ Len(Contents) = rd_avail
<1>1. nrd \in Int /\ rd_avail \in Nat
  BY Ranges
<1>2. data \in [0..(K - 1) -> Elements]
  BY DEF LfqueueTypeOK
<1>3. ASSUME NEW i \in 1..rd_avail
      PROVE  data[(nrd + i - 1) % K] \in Elements
  <2>1. i \in Int
    BY <1>1
  <2>. QED
    BY <2>1, <1>1, <1>2, Slot, Zenon
<1>4. Contents \in [1..rd_avail -> Elements]
  BY <1>3 DEF Contents
<1>. QED
  BY <1>1, <1>4

LEMMA InitRefines == Init => Abstract!Init
<1> SUFFICES ASSUME Init PROVE Abstract!Init
  OBVIOUS
<1>1. LfqueueTypeOK /\ rd_avail = 0
  BY InitSound DEF Sound
<1>2. Contents = <<>>
  BY <1>1, ContentsSeq, EmptySeq
<1>. QED
  BY <1>1, <1>2 DEF Abstract!Init, LfqueueTypeOK

(* The element stored is behind those that count.                           *)
LEMMA StoreRefines ==
  ASSUME Sound, NEW x \in Elements, Store(x)
  PROVE  UNCHANGED <<Contents, taken>>
<1>1. LfqueueTypeOK /\ rd_avail < K /\ rd_avail' = rd_avail
  BY StoreSound DEF Sound
<1>2. nrd \in Int /\ rd_avail \in Nat /\ K \in Nat \ {0}
  BY <1>1, Ranges
<1>3. ASSUME NEW i \in 1..rd_avail
      PROVE  data'[(nrd + i - 1) % K] = data[(nrd + i - 1) % K]
  <2>1. i - 1 \in 0..(rd_avail - 1) /\ nrd + (i - 1) = nrd + i - 1
        /\ nrd + i - 1 \in Int
    BY <1>2
  <2>2. (nrd + i - 1) % K # nwr % K
    BY <1>1, <2>1, SlotFree
  <2>3. (nrd + i - 1) % K \in 0..(K - 1)
    BY <1>2, <2>1, Remainder
  <2>. QED
    BY <1>1, <2>2, <2>3 DEF LfqueueTypeOK, Store
<1>. QED
  BY <1>1, <1>3 DEF Contents, Store

(* The commit makes it the last one.                                        *)
LEMMA CommitRefines ==
  ASSUME Sound, wr_commit
  PROVE  Abstract!Put
<1> DEFINE x == data[(nrd + rd_avail) % K]
<1>1. LfqueueTypeOK /\ rd_avail < K /\ rd_avail' = rd_avail + 1
  BY WriterCommits DEF Sound
<1>2. nrd \in Int /\ rd_avail \in Nat /\ K \in Nat \ {0}
      /\ data \in [0..(K - 1) -> Elements]
  BY <1>1, Ranges DEF LfqueueTypeOK
<1>3. x \in Elements
  <2>1. nrd + rd_avail \in Int
    BY <1>2
  <2>2. (nrd + rd_avail) % K \in 0..(K - 1)
    BY <1>2, <2>1, Remainder
  <2>. QED
    BY <1>2, <2>2
<1>4. Contents \in Seq(Elements) /\ Len(Contents) = rd_avail
  BY <1>1, ContentsSeq
<1>5. Contents' = [i \in 1..(rd_avail + 1) |-> data[(nrd + i - 1) % K]]
  BY <1>1 DEF Contents, wr_commit
<1>6. Contents' \in Seq(Elements) /\ Len(Contents') = rd_avail + 1
  <2>1. rd_avail + 1 \in Nat
    BY <1>2
  <2>2. \A i \in 1..(rd_avail + 1) : data[(nrd + i - 1) % K] \in Elements
    BY <1>2, Slot
  <2>. QED
    BY <2>1, <2>2, <1>5
<1>7. /\ Append(Contents, x) \in Seq(Elements)
      /\ Len(Append(Contents, x)) = rd_avail + 1
      /\ \A i \in 1..rd_avail : Append(Contents, x)[i] = Contents[i]
      /\ Append(Contents, x)[rd_avail + 1] = x
  BY <1>3, <1>4, AppendProperties
<1>8. ASSUME NEW i \in 1..(rd_avail + 1)
      PROVE  Contents'[i] = Append(Contents, x)[i]
  <2>1. Contents'[i] = data[(nrd + i - 1) % K]
    BY <1>5
  <2>2. CASE i \in 1..rd_avail
    <3>1. Contents[i] = data[(nrd + i - 1) % K]
      BY <2>2 DEF Contents
    <3>. QED
      BY <2>1, <2>2, <3>1, <1>7
  <2>3. CASE i = rd_avail + 1
    <3>1. nrd + i - 1 = nrd + rd_avail
      BY <2>3, <1>2
    <3>. QED
      BY <2>1, <2>3, <3>1, <1>7
  <2>4. i \in 1..rd_avail \/ i = rd_avail + 1
    BY <1>2
  <2>. QED
    BY <2>2, <2>3, <2>4, Zenon
<1>9. Contents' = Append(Contents, x)
  BY <1>6, <1>7, <1>8, SeqEqual
<1>. QED
  BY <1>1, <1>3, <1>4, <1>9 DEF Abstract!Put, wr_commit

(* The reader's commit removes the first, which it has.                     *)
LEMMA TakeRefines ==
  ASSUME Sound, rd_commit
  PROVE  Abstract!Get
<1>1. LfqueueTypeOK /\ rd_avail > 0 /\ rd_avail' = rd_avail - 1
      /\ got = data[nrd % K] /\ LfqueueTypeOK'
  BY ReaderCommits DEF Sound, rd_commit
<1>2. nrd \in Int /\ rd_avail \in Nat /\ K \in Nat \ {0}
      /\ data \in [0..(K - 1) -> Elements] /\ nrd' \in Int
      /\ rd_avail - 1 \in Nat
  <2>1. /\ nrd \in Int /\ rd_avail \in Nat
        /\ K \in Nat \ {0} /\ W \in Nat \ {0}
    BY <1>1, Ranges
  <2>2. data \in [0..(K - 1) -> Elements] /\ nrd' \in 0..(W - 1)
    BY <1>1 DEF LfqueueTypeOK
  <2>. QED
    BY <1>1, <2>1, <2>2
<1>3. Contents \in Seq(Elements) /\ Len(Contents) = rd_avail
  BY <1>1, ContentsSeq
<1>4. Contents # <<>>
  BY <1>1, <1>3, EmptySeq
<1>5. Head(Contents) = got
  <2>1. Head(Contents) = Contents[1]
    BY <1>3, <1>4
  <2>2. Contents[1] = data[(nrd + 1 - 1) % K]
    BY <1>1, <1>2 DEF Contents
  <2>. QED
    BY <2>1, <2>2, <1>1, <1>2
<1>6. Contents' = [i \in 1..(rd_avail - 1) |-> data[(nrd' + i - 1) % K]]
  BY <1>1 DEF Contents, rd_commit
<1>7. Contents' \in Seq(Elements) /\ Len(Contents') = rd_avail - 1
  <2>1. ASSUME NEW i \in 1..(rd_avail - 1)
        PROVE  data[(nrd' + i - 1) % K] \in Elements
    <3>1. i \in Int
      BY <1>2
    <3>. QED
      BY <3>1, <1>2, Slot, Zenon
  <2>2. Contents' \in [1..(rd_avail - 1) -> Elements]
    BY <2>1, <1>6
  <2>. QED
    BY <2>2, <1>2
<1>8. /\ Tail(Contents) \in Seq(Elements)
      /\ Len(Tail(Contents)) = rd_avail - 1
      /\ \A i \in 1..(rd_avail - 1) : Tail(Contents)[i] = Contents[i + 1]
  BY <1>3, <1>4, HeadTailProperties
<1>9. ASSUME NEW i \in 1..(rd_avail - 1)
      PROVE  Contents'[i] = Tail(Contents)[i]
  <2>1. Contents'[i] = data[(nrd' + i - 1) % K]
    BY <1>6
  <2>2. Contents[i + 1] = data[(nrd + (i + 1) - 1) % K]
    BY <1>2 DEF Contents
  <2>3. i - 1 \in Int /\ nrd' = (nrd + 1) % W
    BY DEF rd_commit
  <2>4. (((nrd + 1) % W) + (i - 1)) % K = (nrd + 1 + (i - 1)) % K
    BY <1>2, <2>3, SlotShift
  <2>5. nrd' + i - 1 = nrd' + (i - 1)
        /\ nrd + (i + 1) - 1 = nrd + 1 + (i - 1)
    BY <1>2
  <2>. QED
    BY <1>8, <2>1, <2>2, <2>3, <2>4, <2>5
<1>10. Contents' = Tail(Contents)
  BY <1>7, <1>8, <1>9, SeqEqual
<1>. QED
  BY <1>4, <1>5, <1>10 DEF Abstract!Get, rd_commit

LEMMA ResetRefines ==
  ASSUME Sound, reset
  PROVE  Abstract!Reset
<1>1. rd_avail' = 0
  BY ResetSound
<1>2. Contents' = [i \in 1..0 |-> data[(nrd' + i - 1) % K]]
  BY <1>1 DEF Contents, reset
<1>3. Contents' = <<>>
  BY <1>2
<1>. QED
  BY <1>3 DEF Abstract!Reset, reset

(* The rings of lfqueue.h implement the bounded FIFO queues the other         *)
(* modules use, whatever the size, and with counters that wrap.             *)
THEOREM Implements == Spec => ImplementsFifo
<1>1. Sound /\ [Next]_vars => [Abstract!Next]_<<Contents, taken>>
  <2> SUFFICES ASSUME Sound, [Next]_vars
               PROVE  [Abstract!Next]_<<Contents, taken>>
    OBVIOUS
  <2>1. CASE \E x \in Elements : Store(x)
    BY <2>1, StoreRefines
  <2>2. CASE wr_commit
    BY <2>2, CommitRefines DEF Abstract!Next
  <2>3. CASE Load
    BY <2>3 DEF Load, Contents, rd_avail
  <2>4. CASE rd_commit
    BY <2>4, TakeRefines DEF Abstract!Next
  <2>5. CASE reset
    BY <2>5, ResetRefines DEF Abstract!Next
  <2>6. CASE UNCHANGED vars
    BY <2>6 DEF vars, Contents, rd_avail
  <2>. QED
    BY <2>1, <2>2, <2>3, <2>4, <2>5, <2>6 DEF Next
<1>. QED
  BY InitRefines, AlwaysSound, <1>1, PTL DEF Spec, ImplementsFifo, Abstract!Spec
=============================================================================
