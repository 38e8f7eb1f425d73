------------------------------ MODULE PathProofs ------------------------------
(***************************************************************************)
(* The list of channels, the samples' formats, the division into packets, the *)
(* sockets, the times of the periods, the delay and the sound that is heard, for *)
(* every text, sample and session and whatever is asked for.                  *)
(***************************************************************************)
EXTENDS Path, PacketizeProofs, SequenceTheorems

-----------------------------------------------------------------------------
(* The list of channels                                                      *)

(* The n-th item may stand where it does.                                    *)
Fine(n) ==
  /\ given[n].num \in 1..MAXCHAN
  /\ given[n].sep \in {COMMA, DASH}
  /\ n > 1 => given[n - 1].num < given[n].num

(* The channels the first m items name.                                      *)
NamedBy(m) == UNION {Names(n) : n \in 1..m}

ListSound ==
  /\ given \in Texts
  /\ nread \in 0..Len(given)
  /\ last = IF nread = 0 THEN 0 ELSE given[nread].num
  /\ verdict \in {"reading", "good", "bad"}
  /\ verdict = "good" => nread = Len(given)
  /\ verdict = "bad" => ~WellFormed
  /\ \A n \in 1..nread : Fine(n)
  /\ chlist \in Seq(0..(MAXCHAN - 1))
  /\ Len(chlist) <= last
  /\ \A a \in DOMAIN chlist : chlist[a] < last
  /\ \A a, b \in DOMAIN chlist : a < b => chlist[a] < chlist[b]
  /\ {chlist[a] + 1 : a \in DOMAIN chlist} = NamedBy(nread)

LEMMA GivenText ==
  ASSUME given \in Texts
  PROVE  /\ given \in Seq([sep : STRING, num : Nat \cup {NOTNUM}])
         /\ Len(given) \in Nat \ {0} /\ DOMAIN given = 1..Len(given)
         /\ given[1].sep = COMMA
         /\ \A n \in 1..Len(given) : given[n].num \in Nat \cup {NOTNUM}
<1>. DEFINE Items == [sep : STRING, num : Nat \cup {NOTNUM}]
<1>1. given \in Seq(Items) /\ given # <<>> /\ given[1].sep = COMMA
  BY ChanListParams
<1>2. \A n \in 1..Len(given) : given[n].num \in Nat \cup {NOTNUM}
  <2>1. \A n \in 1..Len(given) : given[n] \in Items
    <3>. HIDE DEF Items
    <3>. QED
      BY <1>1, ElementOfSeq
  <2>2. \A i \in Items : i.num \in Nat \cup {NOTNUM}
    OBVIOUS
  <2>. QED
    BY <2>1, <2>2, Zenon
<1>3. Len(given) \in Nat /\ Len(given) # 0 /\ DOMAIN given = 1..Len(given)
  BY <1>1
<1>. HIDE DEF Items
<1>4. Len(given) \in Nat \ {0}
  BY <1>3
<1>. QED
  BY <1>1, <1>2, <1>3, <1>4 DEF Items

LEMMA ListStarts == ListInit => ListSound
<1> SUFFICES ASSUME ListInit PROVE ListSound
  OBVIOUS
<1>1. Len(given) \in Nat /\ 0 \in 0..Len(given) /\ 1..0 = {}
  BY GivenText DEF ListInit
<1>2. chlist \in Seq(0..(MAXCHAN - 1)) /\ Len(chlist) = 0 /\ DOMAIN chlist = {}
  BY DEF ListInit
<1>3. {chlist[a] + 1 : a \in DOMAIN chlist} = NamedBy(nread)
  BY <1>1, <1>2 DEF ListInit, NamedBy
<1>. QED
  BY <1>1, <1>2, <1>3 DEF ListInit, ListSound

(* The channels an item adds to the list: those behind the last one.          *)
Added ==
  IF Item.sep = COMMA THEN <<Item.num - 1>>
  ELSE [k \in 1..(Item.num - last) |-> last + k - 1]

LEMMA WhatIsAdded ==
  ASSUME ListSound, ~AtEnd, Acceptable
  PROVE  /\ nread + 1 \in 1..Len(given) /\ last \in Nat /\ Item.num \in 1..MAXCHAN /\ last < Item.num
         /\ Added \in Seq(0..(MAXCHAN - 1))
         /\ Len(Added) <= Item.num - last /\ Len(Added) > 0
         /\ \A k \in 1..Len(Added) : last <= Added[k] /\ Added[k] < Item.num
         /\ \A k, m \in 1..Len(Added) : k < m => Added[k] < Added[m]
         /\ {Added[k] + 1 : k \in 1..Len(Added)} =
              IF Item.sep = COMMA THEN {Item.num} ELSE (last + 1)..Item.num
<1>1. nread \in Nat /\ Len(given) \in Nat /\ nread + 1 \in 1..Len(given)
  <2>1. Len(given) \in Nat /\ nread \in 0..Len(given) /\ nread # Len(given)
    BY GivenText, Zenon DEF ListSound, AtEnd
  <2>. QED
    BY <2>1
<1>2. MAXCHAN \in Nat
  BY ChanListParams
<1>3. last \in 0..MAXCHAN
  <2>1. CASE nread = 0
    BY <1>2, <2>1 DEF ListSound
  <2>2. CASE nread # 0
    <3>1. nread \in 1..nread /\ last = given[nread].num /\ \A n \in 1..nread : Fine(n)
      BY <1>1, <2>2 DEF ListSound
    <3>2. Fine(nread)
      BY <3>1, Zenon
    <3>. QED
      BY <1>2, <3>1, <3>2 DEF Fine
  <2>. QED
    BY <2>1, <2>2
<1>4. Item.num \in Nat /\ Item.num > last /\ Item.num <= MAXCHAN
  BY <1>1, GivenText DEF Acceptable, Item, ListSound
<1>5. CASE Item.sep = COMMA
  <2>1. Added = <<Item.num - 1>>
    BY <1>5 DEF Added
  <2>. QED
    BY <1>1, <1>2, <1>3, <1>4, <1>5, <2>1
<1>6. CASE Item.sep # COMMA
  <2>1. Added = [k \in 1..(Item.num - last) |-> last + k - 1]
    BY <1>6 DEF Added
  <2>2. Item.num - last \in Nat \ {0}
    BY <1>3, <1>4
  <2>3. Added \in Seq(0..(MAXCHAN - 1)) /\ Len(Added) = Item.num - last
    <3>1. \A k \in 1..(Item.num - last) : last + k - 1 \in 0..(MAXCHAN - 1)
      BY <1>2, <1>3, <1>4
    <3>2. \A k \in 1..(Item.num - last) : Added[k] = last + k - 1
      BY <2>1, Zenon
    <3>3. DOMAIN Added = 1..(Item.num - last)
      BY <2>1, Zenon
    <3>4. Added \in [1..(Item.num - last) -> 0..(MAXCHAN - 1)]
      BY <2>1, <3>1
    <3>5. Added \in Seq(0..(MAXCHAN - 1))
      BY <2>2, <3>4, SeqDef
    <3>6. Len(Added) \in Nat /\ DOMAIN Added = 1..Len(Added)
      BY <3>5, LenProperties
    <3>. QED
      BY <2>2, <3>3, <3>5, <3>6
  <2>4. {Added[k] + 1 : k \in 1..Len(Added)} = (last + 1)..Item.num
    <3>1. \A k \in 1..(Item.num - last) : Added[k] + 1 = last + k
      BY <1>3, <1>4, <2>1
    <3>2. \A c \in (last + 1)..Item.num : c - last \in 1..(Item.num - last) /\ c = last + (c - last)
      BY <1>3, <1>4
    <3>3. \A k \in 1..(Item.num - last) : last + k \in (last + 1)..Item.num
      BY <1>3, <1>4
    <3>4. Len(Added) = Item.num - last
      BY <2>3
    <3>5. ASSUME NEW c \in (last + 1)..Item.num
          PROVE  \E k \in 1..(Item.num - last) : c = Added[k] + 1
      <4>1. c - last \in 1..(Item.num - last) /\ c = last + (c - last)
        BY <3>2, Zenon
      <4>2. Added[c - last] + 1 = last + (c - last)
        BY <3>1, <4>1, Zenon
      <4>. QED
        BY <4>1, <4>2, Zenon
    <3>6. ASSUME NEW k \in 1..(Item.num - last)
          PROVE  Added[k] + 1 \in (last + 1)..Item.num
      BY <3>1, <3>3, Zenon
    <3>. QED
      BY <3>4, <3>5, <3>6, Zenon
  <2>5. \A k \in 1..(Item.num - last) : Added[k] = last + k - 1
    BY <2>1, Zenon
  <2>. HIDE DEF Added
  <2>6. \A k \in 1..Len(Added) : last <= Added[k] /\ Added[k] < Item.num
    BY <1>3, <1>4, <2>2, <2>3, <2>5
  <2>7. \A k, m \in 1..Len(Added) : k < m => Added[k] < Added[m]
    BY <1>3, <1>4, <2>2, <2>3, <2>5
  <2>8. Len(Added) <= Item.num - last /\ Len(Added) > 0
    BY <2>2, <2>3
  <2>9. last \in Nat /\ Item.num \in 1..MAXCHAN /\ last < Item.num
    BY <1>2, <1>3, <1>4
  <2>. QED
    BY <1>1, <1>6, <2>3, <2>4, <2>6, <2>7, <2>8, <2>9
<1>. QED
  BY <1>5, <1>6, Zenon

(* An item that is taken is well placed, and names the channels it adds and    *)
(* perhaps the last one.                                                     *)
LEMMA WhatIsNamed ==
  ASSUME ListSound, ~AtEnd, Acceptable
  PROVE  /\ Fine(nread + 1)
         /\ NamedBy(nread + 1) =
              NamedBy(nread) \cup {Added[k] + 1 : k \in 1..Len(Added)}
<1>1. nread \in Nat /\ nread + 1 \in 1..Len(given) /\ last \in Nat /\ Item.num \in 1..MAXCHAN /\ last < Item.num
  BY WhatIsAdded DEF ListSound
<1>2. Item = given[nread + 1] /\ Item.sep \in {COMMA, DASH} /\ COMMA # DASH
  BY DEF Item, Acceptable, COMMA, DASH
<1>3. nread > 0 => last = given[nread].num
  BY <1>1 DEF ListSound
<1>4. Fine(nread + 1)
  <2>1. nread + 1 > 1 => nread > 0 /\ given[nread + 1 - 1] = given[nread]
    BY <1>1
  <2>. QED
    BY <1>1, <1>2, <1>3, <2>1 DEF Fine
<1>5. NamedBy(nread + 1) = NamedBy(nread) \cup Names(nread + 1)
  <2>1. \A n : n \in 1..(nread + 1) <=> n \in 1..nread \/ n = nread + 1
    BY <1>1
  <2>2. \A c : c \in NamedBy(nread + 1) <=>
               \E n \in 1..(nread + 1) : c \in Names(n)
    BY DEF NamedBy
  <2>3. \A c : c \in NamedBy(nread) <=> \E n \in 1..nread : c \in Names(n)
    BY DEF NamedBy
  <2>4. \A c : (\E n \in 1..(nread + 1) : c \in Names(n))
                <=> (\E n \in 1..nread : c \in Names(n)) \/ c \in Names(nread + 1)
    BY <2>1, Zenon
  <2>5. \A c : c \in NamedBy(nread + 1) <=>
               c \in NamedBy(nread) \/ c \in Names(nread + 1)
    BY <2>2, <2>3, <2>4, Zenon
  <2>. QED
    BY <2>5, Zenon
<1>6. CASE Item.sep = COMMA
  <2>1. Names(nread + 1) = {Item.num}
    BY <1>2, <1>6 DEF Names
  <2>2. {Added[k] + 1 : k \in 1..Len(Added)} = Names(nread + 1)
    BY <1>6, <2>1, WhatIsAdded
  <2>. QED
    BY <1>4, <1>5, <2>2, Zenon
<1>7. CASE Item.sep = DASH
  <2>1. nread > 0
    <3>1. nread = 0 => nread + 1 = 1
      OBVIOUS
    <3>2. given[1].sep = COMMA
      BY GivenText, Zenon DEF ListSound
    <3>3. nread # 0
      BY <1>2, <1>7, <3>1, <3>2
    <3>. QED
      BY <1>1, <3>3
  <2>2. nread \in 1..nread /\ Fine(nread) /\ last \in Names(nread)
    <3>1. nread \in 1..nread /\ Fine(nread)
      BY <1>1, <2>1 DEF ListSound
    <3>2. CASE given[nread].sep = DASH
      <4>1. nread > 1
        <5>1. given[1].sep = COMMA
          BY GivenText DEF ListSound
        <5>2. nread # 1
          BY <1>2, <3>2, <5>1
        <5>. QED
          BY <1>1, <2>1, <5>2
      <4>2. given[nread - 1].num \in 1..MAXCHAN
        <5>1. nread - 1 \in 1..nread
          BY <1>1, <4>1
        <5>. QED
          BY <5>1 DEF ListSound, Fine
      <4>3. given[nread].num \in 1..MAXCHAN /\ given[nread - 1].num < given[nread].num
        BY <3>1, <4>1 DEF Fine
      <4>4. Names(nread) = given[nread - 1].num .. given[nread].num
        BY <3>2 DEF Names
      <4>5. MAXCHAN \in Int
        BY ChanListParams
      <4>. QED
        BY <1>3, <2>1, <3>1, <4>2, <4>3, <4>4, <4>5
    <3>3. CASE given[nread].sep # DASH
      BY <1>3, <2>1, <3>1, <3>3 DEF Names
    <3>. QED
      BY <3>1, <3>2, <3>3 DEF ListSound
  <2>3. Names(nread + 1) = last..Item.num
    <3>1. nread + 1 - 1 = nread
      BY <1>1
    <3>2. given[nread + 1].sep = DASH
      BY <1>2, <1>7
    <3>3. Names(nread + 1) = given[nread].num .. given[nread + 1].num
      BY <1>1, <3>1, <3>2 DEF Names
    <3>. QED
      BY <1>2, <1>3, <2>1, <3>3
  <2>4. last..Item.num = {last} \cup (last + 1)..Item.num
    BY <1>1
  <2>5. {Added[k] + 1 : k \in 1..Len(Added)} = (last + 1)..Item.num
    BY <1>2, <1>7, WhatIsAdded
  <2>6. last \in NamedBy(nread)
    BY <2>2 DEF NamedBy
  <2>. QED
    BY <1>4, <1>5, <2>3, <2>4, <2>5, <2>6, Zenon
<1>. QED
  BY <1>2, <1>6, <1>7

LEMMA ReadKeeps ==
  ASSUME ListSound, ReadItem
  PROVE  ListSound'
<1>. DEFINE more == Added
<1>0. /\ verdict = "reading" /\ ~AtEnd /\ Acceptable /\ chlist' = chlist \o more
      /\ last' = Item.num /\ nread' = nread + 1 /\ UNCHANGED <<given, verdict>>
  BY DEF ReadItem, Added
<1>1. /\ nread + 1 \in 1..Len(given) /\ nread \in Nat /\ last \in Nat
      /\ Item.num \in 1..MAXCHAN /\ last < Item.num /\ Item.num \in Nat
  BY <1>0, WhatIsAdded DEF ListSound
<1>2. more \in Seq(0..(MAXCHAN - 1)) /\ Len(more) <= Item.num - last /\ Len(more) > 0 /\ Len(more) \in Nat
  BY <1>0, WhatIsAdded, LenProperties
<1>3. \A k \in 1..Len(more) : last <= more[k] /\ more[k] < Item.num
  BY <1>0, WhatIsAdded
<1>4. \A k, m \in 1..Len(more) : k < m => more[k] < more[m]
  BY <1>0, WhatIsAdded
<1>. HIDE DEF more
<1>5. /\ chlist \in Seq(0..(MAXCHAN - 1)) /\ Len(chlist) \in Nat /\ Len(chlist) <= last
      /\ DOMAIN chlist = 1..Len(chlist)
      /\ \A a \in 1..Len(chlist) : chlist[a] < last
      /\ \A a, b \in 1..Len(chlist) : a < b => chlist[a] < chlist[b]
  BY LenProperties DEF ListSound
<1>6. /\ chlist' \in Seq(0..(MAXCHAN - 1)) /\ Len(chlist') = Len(chlist) + Len(more)
      /\ \A i \in 1..(Len(chlist) + Len(more)) :
           chlist'[i] = IF i <= Len(chlist) THEN chlist[i] ELSE more[i - Len(chlist)]
  BY <1>0, <1>2, <1>5, ConcatProperties
<1>7. DOMAIN chlist' = 1..(Len(chlist) + Len(more))
  BY <1>2, <1>5, <1>6, LenProperties
<1>8. \A i \in 1..Len(chlist) : i \in DOMAIN chlist' /\ chlist'[i] = chlist[i]
  BY <1>2, <1>5, <1>6, <1>7
<1>9. \A k \in 1..Len(more) : Len(chlist) + k \in DOMAIN chlist' /\ chlist'[Len(chlist) + k] = more[k]
  BY <1>2, <1>5, <1>6, <1>7, SMTT(30)
<1>10. \A i \in DOMAIN chlist' :
         \/ i \in 1..Len(chlist)
         \/ i - Len(chlist) \in 1..Len(more) /\ i = Len(chlist) + (i - Len(chlist))
  BY <1>2, <1>5, <1>7
<1>12. \A k \in 1..Len(more) : more[k] \in Int
  <2>1. \A k \in 1..Len(more) : more[k] \in 0..(MAXCHAN - 1)
    BY <1>2, ElementOfSeq
  <2>. QED
    BY <2>1, ChanListParams
<1>13. \A k \in 1..Len(chlist) : chlist[k] \in Int
  <2>1. \A k \in 1..Len(chlist) : chlist[k] \in 0..(MAXCHAN - 1)
    BY <1>5, ElementOfSeq
  <2>. QED
    BY <2>1, ChanListParams
<1>14. \A i \in DOMAIN chlist' : chlist'[i] < last'
  <2> SUFFICES ASSUME NEW i \in DOMAIN chlist' PROVE chlist'[i] < Item.num
    BY <1>0
  <2>1. CASE i \in 1..Len(chlist)
    BY <1>1, <1>5, <1>8, <1>13, <2>1
  <2>2. CASE i - Len(chlist) \in 1..Len(more) /\ i = Len(chlist) + (i - Len(chlist))
    BY <1>3, <1>9, <2>2
  <2>. QED
    BY <1>10, <2>1, <2>2
<1>15. \A a, b \in DOMAIN chlist' : a < b => chlist'[a] < chlist'[b]
  <2> SUFFICES ASSUME NEW a \in DOMAIN chlist', NEW b \in DOMAIN chlist', a < b
               PROVE  chlist'[a] < chlist'[b]
    OBVIOUS
  <2>. DEFINE k == a - Len(chlist)
              m == b - Len(chlist)
  <2>0. a \in Int /\ b \in Int
    BY <1>2, <1>5, <1>7
  <2>1. CASE a \in 1..Len(chlist) /\ b \in 1..Len(chlist)
    BY <1>5, <1>8, <2>1
  <2>2. CASE a \in 1..Len(chlist) /\ b \notin 1..Len(chlist)
    <3>1. m \in 1..Len(more) /\ chlist'[b] = more[m] /\ chlist'[a] = chlist[a]
      BY <1>8, <1>9, <1>10, <2>2
    <3>2. chlist[a] < last /\ last <= more[m] /\ chlist[a] \in Int /\ more[m] \in Int
      BY <1>3, <1>5, <1>12, <1>13, <2>2, <3>1
    <3>. QED
      BY <1>1, <3>1, <3>2
  <2>3. CASE a \notin 1..Len(chlist)
    <3>1. k \in 1..Len(more) /\ chlist'[a] = more[k]
      BY <1>9, <1>10, <2>3
    <3>2. b \notin 1..Len(chlist)
      BY <1>5, <2>0, <2>3, <3>1
    <3>3. m \in 1..Len(more) /\ chlist'[b] = more[m] /\ k < m
      BY <1>5, <1>9, <1>10, <2>0, <3>2
    <3>. QED
      BY <1>4, <3>1, <3>3
  <2>. QED
    BY <2>1, <2>2, <2>3
<1>16. {chlist'[a] + 1 : a \in DOMAIN chlist'}
         = {chlist[a] + 1 : a \in DOMAIN chlist} \cup {more[k] + 1 : k \in 1..Len(more)}
  <2>1. ASSUME NEW i \in DOMAIN chlist'
        PROVE  \/ \E a \in DOMAIN chlist : chlist'[i] = chlist[a]
               \/ \E k \in 1..Len(more) : chlist'[i] = more[k]
    <3>1. CASE i \in 1..Len(chlist)
      BY <1>5, <1>8, <3>1
    <3>2. CASE i - Len(chlist) \in 1..Len(more) /\ i = Len(chlist) + (i - Len(chlist))
      BY <1>9, <3>2
    <3>. QED
      BY <1>10, <3>1, <3>2
  <2>2. \A a \in DOMAIN chlist : \E i \in DOMAIN chlist' : chlist'[i] = chlist[a]
    BY <1>5, <1>8
  <2>3. \A k \in 1..Len(more) : \E i \in DOMAIN chlist' : chlist'[i] = more[k]
    BY <1>9
  <2>. QED
    BY <2>1, <2>2, <2>3
<1>17. {chlist'[a] + 1 : a \in DOMAIN chlist'} = NamedBy(nread + 1)
  <2>1. NamedBy(nread + 1) =
          NamedBy(nread) \cup {more[k] + 1 : k \in 1..Len(more)}
    BY <1>0, WhatIsNamed DEF more
  <2>2. {chlist[a] + 1 : a \in DOMAIN chlist} = NamedBy(nread)
    BY DEF ListSound
  <2>. QED
    BY <1>16, <2>1, <2>2, Zenon
<1>18. \A n \in 1..(nread + 1) : Fine(n)
  <2>1. Fine(nread + 1) /\ \A n \in 1..nread : Fine(n)
    BY <1>0, WhatIsNamed DEF ListSound
  <2>2. 1..(nread + 1) = 1..nread \cup {nread + 1}
    BY <1>1
  <2>. QED
    BY <2>1, <2>2
<1>19. /\ \A n : Fine(n)' <=> Fine(n)
       /\ \A n : Names(n)' = Names(n)
  BY <1>0 DEF Fine, Names
<1>20. (\A n \in 1..nread : Fine(n))' /\ ({chlist[a] + 1 : a \in DOMAIN chlist} = NamedBy(nread))'
  <2>1. NamedBy(nread)' = NamedBy(nread + 1)
    BY <1>0, <1>19 DEF NamedBy
  <2>2. (\A n \in 1..nread : Fine(n))'
    BY <1>0, <1>18 DEF Fine
  <2>. QED
    BY <1>17, <2>1, <2>2
<1>21. Len(chlist') <= last'
  BY <1>0, <1>1, <1>2, <1>5, <1>6
<1>22. last' = (IF nread = 0 THEN 0 ELSE given[nread].num)'
  BY <1>0, <1>1 DEF Item
<1>23. nread' \in 0..Len(given')
  BY <1>0, <1>1, GivenText DEF ListSound
<1>. QED
  BY <1>0, <1>6, <1>14, <1>15, <1>20, <1>21, <1>22, <1>23 DEF ListSound

(* An item that is refused shows that the list is not well formed.            *)
LEMMA RefuseKeeps ==
  ASSUME ListSound, RefuseList
  PROVE  ListSound'
<1>1. /\ verdict = "reading" /\ ~AtEnd /\ ~Acceptable /\ verdict' = "bad"
      /\ UNCHANGED <<given, nread, last, chlist>>
  BY DEF RefuseList
<1>2. nread \in Nat /\ nread + 1 \in DOMAIN given /\ nread + 1 - 1 = nread
  <2>. DEFINE len == Len(given)
  <2>1. len \in Nat /\ nread \in 0..len /\ nread # len /\ DOMAIN given = 1..len
    BY <1>1, GivenText, Zenon DEF ListSound, AtEnd
  <2>. HIDE DEF len
  <2>2. nread \in Nat /\ nread + 1 \in 1..len /\ nread + 1 - 1 = nread
    BY <2>1
  <2>3. nread + 1 \in DOMAIN given
    <3>1. DOMAIN given = 1..len /\ nread + 1 \in 1..len
      BY <2>1, <2>2
    <3>. QED
      BY ONLY <3>1
  <2>. QED
    BY ONLY <2>2, <2>3
<1>3. ~WellFormed
  <2> SUFFICES ASSUME WellFormed PROVE Acceptable
    BY <1>1
  <2>1. /\ Item.num \in 1..MAXCHAN /\ Item.sep \in {COMMA, DASH}
        /\ nread + 1 > 1 => given[nread].num < Item.num
    BY <1>2 DEF WellFormed, Item
  <2>2. last < Item.num
    <3>1. CASE nread = 0
      BY <2>1, <3>1, ChanListParams DEF ListSound
    <3>2. CASE nread # 0
      BY <1>2, <2>1, <3>2 DEF ListSound
    <3>. QED
      BY <3>1, <3>2
  <2>. QED
    BY <1>2, <2>1, <2>2, ChanListParams DEF Acceptable, NOTNUM, ListSound
<1>4. /\ \A n : Fine(n)' <=> Fine(n)
      /\ NamedBy(nread)' = NamedBy(nread)
      /\ WellFormed' <=> WellFormed
  BY <1>1 DEF Fine, NamedBy, Names, WellFormed
<1>. QED
  BY <1>1, <1>3, <1>4 DEF ListSound

LEMMA AcceptKeeps ==
  ASSUME ListSound, AcceptList
  PROVE  ListSound'
<1>1. /\ AtEnd /\ verdict' = "good" /\ UNCHANGED <<given, nread, last, chlist>>
  BY DEF AcceptList
<1>2. /\ \A n : Fine(n)' <=> Fine(n)
      /\ NamedBy(nread)' = NamedBy(nread)
  BY <1>1 DEF Fine, NamedBy, Names
<1>. QED
  BY <1>1, <1>2 DEF ListSound, AtEnd

LEMMA ListKeeps ==
  ASSUME ListSound, [ListNext]_listvars
  PROVE  ListSound'
<1>1. CASE UNCHANGED listvars
  <2>1. UNCHANGED <<given, nread, last, chlist, verdict>>
    BY <1>1 DEF listvars
  <2>2. /\ \A n : Fine(n)' <=> Fine(n)
        /\ NamedBy(nread)' = NamedBy(nread)
        /\ WellFormed' <=> WellFormed
    BY <2>1 DEF Fine, NamedBy, Names, WellFormed
  <2>. QED
    BY <2>1, <2>2 DEF ListSound
<1>2. CASE ReadItem
  BY <1>2, ReadKeeps
<1>3. CASE RefuseList
  BY <1>3, RefuseKeeps
<1>4. CASE AcceptList
  BY <1>4, AcceptKeeps
<1>. QED
  BY <1>1, <1>2, <1>3, <1>4, Zenon DEF ListNext

LEMMA ListRight == ListSound => ListExact /\ ListFits
<1> SUFFICES ASSUME ListSound PROVE ListExact /\ ListFits
  OBVIOUS
<1>1. /\ Len(given) \in Nat /\ DOMAIN given = 1..Len(given) /\ MAXCHAN \in Nat \ {0}
      /\ nread \in 0..Len(given)
  BY GivenText, ChanListParams, Zenon DEF ListSound
<1>2. last \in 0..MAXCHAN
  <2>1. CASE nread = 0
    BY <1>1, <2>1 DEF ListSound
  <2>2. CASE nread # 0
    <3>1. nread \in 1..nread /\ nread # 0
      BY <1>1, <2>2
    <3>2. Fine(nread) /\ last = given[nread].num
      BY <3>1 DEF ListSound
    <3>. QED
      BY <1>1, <3>2 DEF Fine
  <2>. QED
    BY <2>1, <2>2
<1>3. ListFits
  <2>1. Len(chlist) \in Nat /\ Len(chlist) <= last
    BY LenProperties DEF ListSound
  <2>2. \A a \in DOMAIN chlist : chlist[a] \in 0..(MAXCHAN - 1)
    BY LenProperties, ElementOfSeq DEF ListSound
  <2>3. \A a \in DOMAIN chlist : chlist[a] < MAXCHAN
    BY <1>1, <2>2
  <2>. QED
    BY <1>1, <1>2, <2>1, <2>3 DEF ListFits
<1>4. verdict = "good" => WellFormed /\ NamedBy(nread) = UNION {Names(n) : n \in DOMAIN given}
  <2> SUFFICES ASSUME verdict = "good"
               PROVE  WellFormed /\ NamedBy(nread) = UNION {Names(n) : n \in DOMAIN given}
    OBVIOUS
  <2>1. nread = Len(given)
    BY DEF ListSound
  <2>2. \A n \in DOMAIN given : Fine(n)
    BY <1>1, <2>1 DEF ListSound
  <2>. QED
    BY <1>1, <2>1, <2>2 DEF WellFormed, Fine, NamedBy
<1>5. ListExact
  BY <1>4 DEF ListExact, ListSound
<1>. QED
  BY <1>3, <1>5, Zenon

-----------------------------------------------------------------------------
(* Sockets                                                                   *)

(* The first answer is taken when it has the family asked for.               *)
LEMMA FirstAnswer ==
  ASSUME NEW names, NEW S, names \in Seq(S), names # <<>>, NEW family,
         family \in {AF_UNSPEC, names[1].family}
  PROVE  set_addr(family, names) = {names[1]}
<1>. DEFINE found == {i \in DOMAIN names : family \in {AF_UNSPEC, names[i].family}}
            least == {n \in found : \A m \in found : n <= m}
<1>1. DOMAIN names = 1..Len(names) /\ Len(names) \in Nat \ {0}
  OBVIOUS
<1>2. 1 \in found /\ found \subseteq Nat \ {0}
  BY <1>1
<1>. HIDE DEF found
<1>3. least = {1}
  <2>1. \A m \in found : 1 <= m
    BY <1>2
  <2>2. 1 \in least
    BY <1>2, <2>1
  <2>3. \A n \in least : n <= 1 /\ n \in Nat \ {0}
    BY <1>2
  <2>4. \A n \in least : n = 1
    BY <2>3
  <2>. QED
    BY <2>2, <2>4, Zenon
<1>4. set_addr(family, names) = {names[i] : i \in least}
  BY DEF set_addr, found
<1>. QED
  BY <1>3, <1>4

(* The receiver's two ports differ, and the first is the sender's.           *)
LEMMA TwoPorts ==
  ASSUME NEW port \in 1..MaxPort
  PROVE  /\ set_port(port) = port
         /\ set_port(port + 1) = IF port = MaxPort THEN 0 ELSE port + 1
<1>1. MaxPort \in Nat /\ MaxPort + 1 \in Nat \ {0} /\ port \in Int /\ port + 1 \in Int
  BY SocketsParams
<1>2. port \in 0..((MaxPort + 1) - 1)
  BY <1>1
<1>3. port % (MaxPort + 1) = port
  BY <1>1, <1>2, SmallRemainder
<1>4. CASE port = MaxPort
  BY <1>1, <1>3, <1>4 DEF set_port
<1>5. CASE port # MaxPort
  <2>1. port + 1 \in 0..((MaxPort + 1) - 1)
    BY <1>1, <1>5
  <2>2. (port + 1) % (MaxPort + 1) = port + 1
    BY <1>1, <2>1, SmallRemainder
  <2>. QED
    BY <1>3, <1>5, <2>2 DEF set_port
<1>. QED
  BY <1>4, <1>5

LEMMA PortIsAsked ==
  ASSUME wish.rx.port \in 1..MaxPort, NEW p,
         p = wish.rx.port \/ p = set_port(wish.rx.port + 1), p # 0
  PROVE  p \in PortsAsked
<1>1. MaxPort \in Nat /\ wish.rx.port \in Int
  BY SocketsParams
<1>2. CASE p = wish.rx.port
  BY <1>1, <1>2 DEF PortsAsked
<1>3. CASE p = wish.rx.port + 1 /\ wish.rx.port # MaxPort
  BY <1>1, <1>3 DEF PortsAsked
<1>. QED
  BY <1>2, <1>3, TwoPorts

LEMMA GoodArguments ==
  ASSUME GoodWish, wish \in Wishes
  PROVE  LET addr == wish.rx.names[1]
         IN  /\ wish.tx = wish.rx /\ wish.rx.port \in 1..MaxPort
             /\ set_addr(AF_UNSPEC, wish.rx.names) = {addr}
             /\ set_addr(AF_INET, wish.rx.names) = {addr}
             /\ ANYHOST \notin wish.own
<1>1. wish.rx.names \in Seq([family : {AF_INET, AF_INET6}, host : STRING])
  BY SocketsParams DEF IsArguments
<1>. QED
  BY <1>1, FirstAnswer, SocketsParams DEF GoodWish, PortInRange

(* The address is a group: both programs open their sockets on the device     *)
(* both are given.                                                          *)
LEMMA GroupsMeet ==
  ASSUME GoodWish, wish \in Wishes, is_multicast(wish.rx.names[1])
  PROVE  LET addr == wish.rx.names[1]
             port == wish.rx.port
             On(p) == [addr |-> ANYHOST, port |-> p, reuse |-> TRUE, group |-> addr,
                       dev |-> wish.rx.dev]
         IN  /\ TxSockets = {[peer |-> addr, port |-> port, dev |-> wish.rx.dev]}
             /\ RxSockets = {<<On(port), On(set_port(port + 1))>>}
<1>. DEFINE addr == wish.rx.names[1]
            port == wish.rx.port
            On(p) == [addr |-> ANYHOST, port |-> p, reuse |-> TRUE, group |-> addr,
                      dev |-> wish.rx.dev]
<1>1. /\ wish.tx = wish.rx /\ port \in 1..MaxPort
      /\ set_addr(AF_UNSPEC, wish.rx.names) = {addr}
      /\ set_addr(AF_INET, wish.rx.names) = {addr}
  BY GoodArguments
<1>2. set_port(port) = port /\ set_port(port + 1) = IF port = MaxPort THEN 0 ELSE port + 1
  BY <1>1, TwoPorts
<1>3. wish.rx.dev \in Devices /\ wish.rx.dev # NODEV
  BY SocketsParams DEF GoodWish
<1>4. Device(addr, wish.rx.dev) = {wish.rx.dev}
  BY <1>3 DEF Device
<1>5. TxSockets = {[peer |-> addr, port |-> port, dev |-> wish.rx.dev]}
  BY <1>1, <1>2, <1>3, <1>4 DEF TxSockets, TxOpen, sock_open_mcsend
<1>6. ASSUME NEW p, p = port \/ p = set_port(port + 1),
             NEW others, \A o \in others : o \in wish.held \/ o.reuse
      PROVE  bind(On(p), others) = {On(p)}
  <2>1. p # 0 => p \in PortsAsked
    BY <1>1, <1>6, PortIsAsked, Zenon
  <2>2. ASSUME NEW o \in others, o.port = p, p # 0 PROVE o.reuse
    BY <1>6, <2>1, <2>2 DEF GoodWish
  <2>. QED
    BY <2>2 DEF bind
<1>7. ASSUME NEW p, p = port \/ p = set_port(port + 1),
             NEW others, \A o \in others : o \in wish.held \/ o.reuse
      PROVE  RxOpen(addr, p, others) = {On(p)}
  <2>1. sock_open_mcrecv(addr, p, wish.rx.dev, others) = bind(On(p), others)
    BY <1>4 DEF sock_open_mcrecv, Shared
  <2>. QED
    BY <1>3, <1>6, <1>7, <2>1 DEF RxOpen
<1>. DEFINE second == set_port(port + 1)
<1>8. RxOpen(addr, set_port(port), wish.held) = {On(port)}
  BY <1>2, <1>7
<1>9. RxOpen(addr, second, wish.held \cup {On(port)}) = {On(second)}
  <2>1. \A o \in wish.held \cup {On(port)} : o \in wish.held \/ o.reuse
    OBVIOUS
  <2>. QED
    BY <1>7, <2>1
<1>10. RxSockets = {<<On(port), On(second)>>}
  <2>. DEFINE Pairs(a, arx) ==
                {<<arx, asy>> : asy \in RxOpen(a, second, wish.held \cup {arx})}
              From(a) ==
                UNION {Pairs(a, arx) : arx \in RxOpen(a, set_port(port), wish.held)}
  <2>1. RxSockets = UNION {From(a) : a \in {addr}}
    BY <1>1 DEF RxSockets, SecondPort
  <2>. HIDE DEF On, second, addr, port
  <2>2. Pairs(addr, On(port)) = {<<On(port), On(second)>>}
    BY <1>9
  <2>. HIDE DEF Pairs
  <2>3. From(addr) = Pairs(addr, On(port))
    BY <1>8
  <2>. HIDE DEF From
  <2>. QED
    BY <2>1, <2>2, <2>3
<1>. QED
  BY <1>5, <1>10

(* The address is a host's: the sender sends to it and the receiver binds it.  *)
LEMMA HostsMeet ==
  ASSUME GoodWish, wish \in Wishes, ~is_multicast(wish.rx.names[1])
  PROVE  LET addr == wish.rx.names[1]
             port == wish.rx.port
             On(p) == [addr |-> addr, port |-> p, reuse |-> FALSE, group |-> addr,
                       dev |-> DEFAULT]
         IN  /\ TxSockets = {[peer |-> addr, port |-> port, dev |-> DEFAULT]}
             /\ RxSockets = {<<On(port), On(set_port(port + 1))>>}
<1>. DEFINE addr == wish.rx.names[1]
            port == wish.rx.port
            On(p) == [addr |-> addr, port |-> p, reuse |-> FALSE, group |-> addr,
                      dev |-> DEFAULT]
            second == set_port(port + 1)
<1>1. /\ wish.tx = wish.rx /\ port \in 1..MaxPort
      /\ set_addr(AF_UNSPEC, wish.rx.names) = {addr}
      /\ set_addr(AF_INET, wish.rx.names) = {addr}
      /\ addr \in wish.own /\ addr # ANYHOST
  BY GoodArguments DEF GoodWish
<1>2. set_port(port) = port /\ second = (IF port = MaxPort THEN 0 ELSE port + 1)
      /\ second # port
  <2>1. set_port(port) = port /\ second = IF port = MaxPort THEN 0 ELSE port + 1
    BY <1>1, TwoPorts
  <2>. QED
    BY <1>1, <2>1, SocketsParams
<1>3. TxSockets = {[peer |-> addr, port |-> port, dev |-> DEFAULT]}
  BY <1>1, <1>2 DEF TxSockets, TxOpen, OpenRemote
<1>4. ASSUME NEW p, p = port \/ p = second,
             NEW others, \A o \in others : o \in wish.held \/ o.port # p
      PROVE  RxOpen(addr, p, others) = {On(p)}
  <2>1. p # 0 => p \in PortsAsked
    BY <1>1, <1>4, PortIsAsked, Zenon
  <2>2. ASSUME NEW o \in others, o.port = p, p # 0, o.addr = addr \/ ANYHOST \in {o.addr, addr}
        PROVE  FALSE
    BY <1>1, <1>4, <2>1, <2>2 DEF GoodWish
  <2>3. bind(On(p), others) = {On(p)}
    BY <2>2 DEF bind
  <2>. QED
    BY <1>1, <2>3 DEF RxOpen, OpenLocal
<1>5. RxOpen(addr, set_port(port), wish.held) = {On(port)}
  BY <1>2, <1>4
<1>6. RxOpen(addr, second, wish.held \cup {On(port)}) = {On(second)}
  <2>1. \A o \in wish.held \cup {On(port)} : o \in wish.held \/ o.port # second
    BY <1>2
  <2>. QED
    BY <1>4, <2>1
<1>7. RxSockets = {<<On(port), On(second)>>}
  <2>. DEFINE Pairs(a, arx) ==
                {<<arx, asy>> : asy \in RxOpen(a, second, wish.held \cup {arx})}
              From(a) ==
                UNION {Pairs(a, arx) : arx \in RxOpen(a, set_port(port), wish.held)}
  <2>1. RxSockets = UNION {From(a) : a \in {addr}}
    BY <1>1 DEF RxSockets, SecondPort
  <2>. HIDE DEF On, second, addr, port
  <2>2. Pairs(addr, On(port)) = {<<On(port), On(second)>>}
    BY <1>6
  <2>. HIDE DEF Pairs
  <2>3. From(addr) = Pairs(addr, On(port))
    BY <1>5
  <2>. HIDE DEF From
  <2>. QED
    BY <2>1, <2>2, <2>3
<1>. QED
  BY <1>3, <1>7

(* Whoever asks for the right things finds sockets, and those meet.          *)
LEMMA SocketsFound ==
  ASSUME GoodWish, wish \in Wishes
  PROVE  /\ PortInRange(wish.tx) /\ PortInRange(wish.rx)
         /\ TxSockets # {} /\ RxSockets # {}
         /\ txsock \in TxSockets /\ rxsocks \in RxSockets => Meet
<1>1. /\ wish.tx = wish.rx /\ wish.rx.port \in 1..MaxPort
      /\ set_port(wish.rx.port + 1) # wish.rx.port
  <2>1. wish.tx = wish.rx /\ wish.rx.port \in 1..MaxPort
    BY GoodArguments
  <2>. QED
    BY <2>1, TwoPorts, SocketsParams
<1>2. PortInRange(wish.tx) /\ PortInRange(wish.rx)
  BY <1>1 DEF PortInRange
<1>. DEFINE addr == wish.rx.names[1]
            port == wish.rx.port
<1>3. ASSUME NEW host, NEW reuse, NEW dev,
             TxSockets = {[peer |-> addr, port |-> port, dev |-> dev]},
             RxSockets = {<<[addr |-> host, port |-> port, reuse |-> reuse, group |-> addr,
                             dev |-> dev],
                            [addr |-> host, port |-> set_port(port + 1), reuse |-> reuse,
                             group |-> addr, dev |-> dev]>>}
      PROVE  /\ TxSockets # {} /\ RxSockets # {}
             /\ txsock \in TxSockets /\ rxsocks \in RxSockets => Meet
  <2>. HIDE DEF addr
  <2> SUFFICES ASSUME txsock \in TxSockets, rxsocks \in RxSockets PROVE Meet
    BY <1>3
  <2>1. txsock.peer = addr /\ txsock.port = port /\ txsock.dev = dev
    BY <1>3
  <2>2. /\ rxsocks[1].port = port /\ rxsocks[1].group = addr /\ rxsocks[1].dev = dev
        /\ rxsocks[2].port = set_port(port + 1)
    BY <1>3
  <2>. QED
    BY <1>1, <2>1, <2>2 DEF Meet, Reaches
<1>4. CASE is_multicast(addr)
  BY <1>2, <1>3, <1>4, GroupsMeet
<1>5. CASE ~is_multicast(addr)
  BY <1>2, <1>3, <1>5, HostsMeet
<1>. QED
  BY <1>4, <1>5

SocketsSound ==
  /\ wish \in Wishes
  /\ txat \in {"start", "up", "exit"} /\ rxat \in {"start", "up", "exit"}
  /\ GoodWish => txat # "exit" /\ rxat # "exit"
  /\ txat = "up" => txsock \in TxSockets
  /\ rxat = "up" => rxsocks \in RxSockets

LEMMA SocketsStart == SocketsInit => SocketsSound
  BY DEF SocketsInit, SocketsSound

LEMMA SocketsKeep ==
  ASSUME SocketsSound, TxSetUp \/ RxSetUp \/ UNCHANGED sockvars
  PROVE  SocketsSound'
<1>1. wish' = wish
  BY DEF TxSetUp, RxSetUp, sockvars
<1>2. GoodWish' = GoodWish /\ TxSockets' = TxSockets /\ RxSockets' = RxSockets
  BY <1>1 DEF GoodWish, PortsAsked, TxSockets, TxOpen, RxSockets, RxOpen, OpenLocal,
     SecondPort
<1>. QED
  BY <1>1, <1>2, SocketsFound DEF SocketsSound, TxSetUp, RxSetUp, sockvars

LEMMA SocketsRight == SocketsSound => SocketsMeet
  BY SocketsFound DEF SocketsSound, SocketsMeet

-----------------------------------------------------------------------------
(* A session                                                                 *)

LEMMA PathStarts == PathInit => Init /\ ListInit /\ SocketsInit
<1> SUFFICES ASSUME PathInit PROVE Init
  BY DEF PathInit
<1>1. session \in Sessions /\ bsize = session.tx_fsize
      /\ room = FramesPerPacket(session.psmax, Bytes(session.form), session.nchan)
      /\ j = 0 /\ sum = 0 /\ nfram = 0 /\ bdiff = 0
  BY DEF PathInit
<1>2. /\ session.form \in Formats /\ session.nchan \in Channels
      /\ session.tx_fsize \in Periods /\ session.psmax \in PacketSizes
      /\ Bytes(session.form) \in SampleBytes
  BY <1>1, PathParams
<1>. QED
  BY <1>1, <1>2 DEF Init

LEMMA SocketSteps ==
  ASSUME [PathNext]_pathvars
  PROVE  TxSetUp \/ RxSetUp \/ UNCHANGED sockvars
<1>1. CASE ReadList \/ SetUp
  BY <1>1 DEF ReadList, SetUp
<1>2. CASE \E skip \in {0} \cup Skips : TxCycle(skip)
  BY <1>2 DEF TxCycle
<1>3. CASE TxPacket \/ Lose \/ Repeat \/ Receive \/ Tick
  BY <1>3 DEF TxPacket, Lose, Repeat, Receive, Tick
<1>4. CASE \E skip \in {0} \cup Skips : RxCycle(skip)
  BY <1>4 DEF RxCycle
<1>5. CASE UNCHANGED pathvars
  BY <1>5 DEF pathvars
<1>. QED
  BY <1>1, <1>2, <1>3, <1>4, <1>5 DEF PathNext

LEMMA PathSteps ==
  ASSUME [PathNext]_pathvars
  PROVE  [Next]_vars /\ [ListNext]_listvars
<1>1. CASE ReadList \/ SetUp
  BY <1>1 DEF ReadList, SetUp
<1>2. CASE \E skip \in {0} \cup Skips : TxCycle(skip)
  BY <1>2 DEF TxCycle, Next
<1>3. CASE TxPacket
  BY <1>3 DEF TxPacket, Next
<1>4. CASE Lose \/ Repeat \/ Receive \/ Tick
  BY <1>4 DEF Lose, Repeat, Receive, Tick
<1>5. CASE \E skip \in {0} \cup Skips : RxCycle(skip)
  BY <1>5 DEF RxCycle
<1>6. CASE UNCHANGED pathvars
  BY <1>6 DEF pathvars
<1>. QED
  BY <1>1, <1>2, <1>3, <1>4, <1>5, <1>6 DEF PathNext

(* readlist() of zita-n2j.cc takes the lists its comment describes and no       *)
(* others, and finds the channels they name, whatever the text.               *)
THEOREM ListAlwaysExact == PathSpec => []ListExact
<1>1. PathInit => ListSound
  BY PathStarts, ListStarts
<1>2. ListSound /\ [PathNext]_pathvars => ListSound'
  BY PathSteps, ListKeeps
<1>. QED
  BY <1>1, <1>2, ListRight, PTL DEF PathSpec

(* And never writes beyond the array it is given.                             *)
THEOREM ListAlwaysFits == PathSpec => []ListFits
<1>1. PathInit => ListSound
  BY PathStarts, ListStarts
<1>2. ListSound /\ [PathNext]_pathvars => ListSound'
  BY PathSteps, ListKeeps
<1>. QED
  BY <1>1, <1>2, ListRight, PTL DEF PathSpec

(* Whoever gives both programs the same host or group and port, as the manual   *)
(* says, gets sockets that meet (opensocket of both programs, zsockets.cc),     *)
(* for every address, port, device and whatever other programs hold.          *)
THEOREM SocketsAlwaysMeet == PathSpec => []SocketsMeet
<1>1. PathInit => SocketsSound
  BY PathStarts, SocketsStart
<1>2. SocketsSound /\ [PathNext]_pathvars => SocketsSound'
  BY SocketSteps, SocketsKeep
<1>. QED
  BY <1>1, <1>2, SocketsRight, PTL DEF PathSpec

(* Whatever the rest of the program does in between, the packets of a period   *)
(* hold it exactly and evenly, and fit (Jacktx::jack_process).                *)
THEOREM PathSplits == PathSpec => [](SplitExact /\ SplitFits /\ SplitEven)
<1>1. PathInit => Init
  BY PathStarts
<1>2. [PathNext]_pathvars => [Next]_vars
  BY PathSteps
<1>3. Spec => [](SplitExact /\ SplitFits /\ SplitEven)
  BY SplitIsExact, SplitAlwaysFits, SplitIsEven, PTL
<1>. QED
  BY <1>1, <1>2, <1>3, PTL DEF PathSpec, Spec

-----------------------------------------------------------------------------
(* Samples                                                                   *)

LEMMA QuotientUnique ==
  ASSUME NEW a \in Int, NEW b \in Nat \ {0}, NEW k \in Int, b * k <= a, a < b * k + b
  PROVE  a \div b = k
<1>1. PICK q \in Int : q = a \div b /\ b * q <= a /\ a < b * q + b
  BY Division
<1>2. b * q \in Int /\ b * k \in Int
  OBVIOUS
<1>3. b * (q + (-k)) = b * q + b * (-k) /\ b * (-k) = -(b * k)
  BY Distributes
<1>4. b * (q + (-k)) < b /\ -b < b * (q + (-k))
  BY <1>1, <1>2, <1>3
<1>5. q + (-k) \in Int
  OBVIOUS
<1>6. q + (-k) = 0
  BY <1>4, <1>5, SmallMultiple
<1>. QED
  BY <1>1, <1>6

(* A quotient divided again.                                                 *)
LEMMA DivideTwice ==
  ASSUME NEW a \in Int, NEW b \in Nat \ {0}, NEW c \in Nat \ {0}
  PROVE  (a \div b) \div c = a \div (b * c)
<1>1. PICK q \in Int : q = a \div b /\ b * q <= a /\ a < b * q + b
  BY Division
<1>2. PICK s \in Int : s = q \div c /\ c * s <= q /\ q < c * s + c
  BY Division
<1>3. b * c \in Nat \ {0}
  OBVIOUS
<1>4. c * s \in Int /\ b * (c * s) \in Int /\ b * q \in Int /\ (b * c) * s = b * (c * s)
  OBVIOUS
<1>5. b * (c * s) <= b * q
  BY <1>2, <1>4, Monotone
<1>6. b * q <= b * (c * s + (c - 1)) /\ b * (c * s + (c - 1)) = b * (c * s) + b * (c - 1)
  <2>1. c * s + (c - 1) \in Int /\ c - 1 \in Int /\ q <= c * s + (c - 1)
    BY <1>2, <1>4
  <2>2. b * q <= b * (c * s + (c - 1))
    BY <2>1, Monotone
  <2>3. b * (c * s + (c - 1)) = b * (c * s) + b * (c - 1)
    BY <1>4, <2>1, Distributes
  <2>. QED
    BY <2>2, <2>3
<1>7. b * (c - 1) + b = b * c
  <2>1. c - 1 \in Int /\ c - 1 + 1 = c /\ b * 1 = b
    OBVIOUS
  <2>2. b * (c - 1 + 1) = b * (c - 1) + b * 1
    BY <2>1, Distributes
  <2>. QED
    BY <2>1, <2>2
<1>8. (b * c) * s <= a /\ a < (b * c) * s + b * c
  BY <1>1, <1>3, <1>4, <1>5, <1>6, <1>7
<1>9. a \div (b * c) = s
  BY <1>3, <1>8, QuotientUnique
<1>. QED
  BY <1>1, <1>2, <1>9

LEMMA HalfByte == \E h \in Nat \ {0} : Byte = 2 * h
<1>1. Byte \in Nat \ {0, 1} /\ Byte % 2 = 0
  BY NetdataParams
<1>2. Byte = 2 * (Byte \div 2) /\ Byte \div 2 \in Nat \ {0}
  BY <1>1
<1>. QED
  BY <1>2

(* The sign of the high byte is that of the sample.                           *)
LEMMA SignKept ==
  ASSUME NEW h \in Nat \ {0}, Byte = 2 * h, NEW u \in (-h)..(h - 1)
  PROVE  HighByte(u % Byte) = u
<1>1. Byte \in Nat \ {0}
  OBVIOUS
<1>2. CASE u >= 0
  <2>1. u \in 0..(Byte - 1)
    BY <1>2
  <2>2. u % Byte = u
    BY <1>1, <2>1, SmallRemainder
  <2>. QED
    BY <1>2, <2>2 DEF HighByte
<1>3. CASE u < 0
  <2>1. u + Byte \in 0..(Byte - 1) /\ Byte * (-1) + (u + Byte) = u
    BY <1>3
  <2>2. (Byte * (-1) + (u + Byte)) % Byte = u + Byte
    BY <1>1, <2>1, RemainderUnique
  <2>. QED
    BY <1>3, <2>1, <2>2 DEF HighByte
<1>. QED
  BY <1>2, <1>3

(* The first byte of a number in range, whose other bytes weigh p.            *)
LEMMA FirstByte ==
  ASSUME NEW h \in Nat \ {0}, NEW p \in Nat \ {0}, NEW v \in Int,
         -(p * h) <= v, v < p * h
  PROVE  v \div p \in (-h)..(h - 1)
<1>1. PICK u \in Int : u = v \div p /\ p * u <= v /\ v < p * u + p
  BY Division
<1>2. p * u \in Int /\ p * h \in Int /\ p * (-h) = -(p * h)
  OBVIOUS
<1>3. u < h
  <2> SUFFICES ASSUME h <= u PROVE FALSE
    OBVIOUS
  <2>1. p * h <= p * u
    BY Monotone
  <2>. QED
    BY <1>1, <1>2, <2>1
<1>4. -h <= u
  <2> SUFFICES ASSUME u + 1 <= -h PROVE FALSE
    OBVIOUS
  <2>1. p * (u + 1) <= p * (-h)
    BY Monotone
  <2>2. p * (u + 1) = p * u + p
    BY Distributes
  <2>. QED
    BY <1>1, <1>2, <2>1, <2>2
<1>. QED
  BY <1>1, <1>3, <1>4

(* What the integer formats can hold.                                        *)
LEMMA QuantisedInRange ==
  ASSUME NEW form \in {FM_16BIT, FM_24BIT}, NEW x \in Int
  PROVE  /\ R(form) \in Nat /\ Truncate(x + Grain \div 2) \in Int
         /\ Quantise(form, x) \in (-R(form))..R(form)
<1>1. Byte \in Nat \ {0, 1} /\ Grain \in Nat \ {0}
  BY NetdataParams
<1>2. R(form) \in Nat
  <2>1. Byte * Byte \in Nat /\ Byte * Byte >= 2 * Byte /\ Byte * Byte * Byte \in Nat
    <3>1. Byte * 2 <= Byte * Byte
      BY <1>1, Monotone
    <3>2. Byte * 2 = 2 * Byte /\ Byte * Byte \in Nat /\ Byte * Byte * Byte \in Nat
      BY <1>1
    <3>. QED
      BY <3>1, <3>2
  <2>2. Byte * Byte * Byte >= Byte * Byte
    <3>1. (Byte * Byte) * 1 <= (Byte * Byte) * Byte
      BY <1>1, <2>1, Monotone
    <3>. QED
      BY <1>1, <2>1, <3>1
  <2>3. \A m \in Nat : m >= 2 => m \div 2 - 1 \in Nat
    OBVIOUS
  <2>4. Byte * Byte >= 2 /\ Byte * Byte * Byte >= 2
    BY <1>1, <2>1, <2>2
  <2>5. (Byte * Byte) \div 2 - 1 \in Nat /\ (Byte * Byte * Byte) \div 2 - 1 \in Nat
    BY <2>1, <2>3, <2>4, Zenon
  <2>. QED
    BY <2>5 DEF R, FM_16BIT, FM_24BIT, FM_FLOAT
<1>3. Truncate(x + Grain \div 2) \in Int
  <2>1. \A w \in Int : Truncate(w) \in Int
    BY <1>1 DEF Truncate
  <2>2. x + Grain \div 2 \in Int
    BY <1>1
  <2>. QED
    BY <2>1, <2>2
<1>. QED
  BY <1>2, <1>3 DEF Quantise

LEMMA Parts ==
  ASSUME NEW x \in Int, NEW m \in Nat \ {0}
  PROVE  x = m * (x \div m) + (x % m) /\ x \div m \in Int /\ x % m \in Int
BY Remainder

(* The bytes of a number, the first one signed, put together again.            *)
LEMMA TwoBytes ==
  ASSUME NEW v \in Int, NEW h \in Nat \ {0}, Byte = 2 * h,
         -(Byte * h) <= v, v < Byte * h
  PROVE  Byte * HighByte((v \div Byte) % Byte) + (v % Byte) = v
<1>1. Byte \in Nat \ {0}
  OBVIOUS
<1>2. v \div Byte \in (-h)..(h - 1)
  BY <1>1, FirstByte, Zenon
<1>3. HighByte((v \div Byte) % Byte) = v \div Byte
  BY <1>2, SignKept, Zenon
<1>4. v = Byte * (v \div Byte) + (v % Byte)
  BY <1>1, Remainder, Zenon
<1>. QED
  BY <1>3, <1>4, Zenon

LEMMA ThreeBytes ==
  ASSUME NEW v \in Int, NEW h \in Nat \ {0}, Byte = 2 * h,
         -(Byte * Byte * h) <= v, v < Byte * Byte * h
  PROVE  Byte * Byte * HighByte((v \div (Byte * Byte)) % Byte)
           + Byte * ((v \div Byte) % Byte) + (v % Byte) = v
<1>1. Byte \in Nat \ {0} /\ Byte * Byte \in Nat \ {0}
  OBVIOUS
<1>. DEFINE q == v \div Byte
            u == v \div (Byte * Byte)
            b == q % Byte
            c == v % Byte
<1>2. u \in (-h)..(h - 1) /\ HighByte(u % Byte) = u
  <2>1. u \in (-h)..(h - 1)
    BY <1>1, FirstByte, Zenon
  <2>. QED
    BY <2>1, SignKept, Zenon
<1>3. q \div Byte = u
  BY <1>1, DivideTwice, Zenon
<1>4. v = Byte * q + c /\ q \in Int /\ c \in Int
  BY <1>1, Parts, Zenon
<1>5. q = Byte * u + b /\ b \in Int /\ u \in Int
  <2>1. q \in Int
    BY <1>4
  <2>. HIDE DEF q
  <2>2. q = Byte * (q \div Byte) + (q % Byte) /\ q \div Byte \in Int /\ q % Byte \in Int
    BY <1>1, <2>1, Parts, Zenon
  <2>. QED
    BY <1>3, <2>2
<1>. HIDE DEF q, u, b, c
<1>6. Byte * (Byte * u + b) = Byte * (Byte * u) + Byte * b /\ Byte * (Byte * u) = Byte * Byte * u
      /\ Byte * Byte * u \in Int /\ Byte * b \in Int
  <2>1. Byte * u \in Int
    BY <1>1, <1>5
  <2>. QED
    BY <1>1, <1>5, <2>1, Distributes
<1>7. Byte * Byte * u + Byte * b + c = v
  BY <1>4, <1>5, <1>6
<1>. QED
  BY <1>2, <1>7 DEF q, u, b, c

LEMMA FourBytes ==
  ASSUME NEW v \in Int, NEW h \in Nat \ {0}, Byte = 2 * h,
         -(Byte * Byte * Byte * h) <= v, v < Byte * Byte * Byte * h
  PROVE  Byte * Byte * Byte * HighByte((v \div (Byte * Byte * Byte)) % Byte)
           + Byte * Byte * ((v \div (Byte * Byte)) % Byte)
           + Byte * ((v \div Byte) % Byte) + (v % Byte) = v
<1>1. Byte \in Nat \ {0} /\ Byte * Byte \in Nat \ {0} /\ Byte * Byte * Byte \in Nat \ {0}
      /\ (Byte * Byte) * Byte = Byte * Byte * Byte
  OBVIOUS
<1>. DEFINE q == v \div Byte
            s == v \div (Byte * Byte)
            u == v \div (Byte * Byte * Byte)
            a == s % Byte
            b == q % Byte
            c == v % Byte
<1>2. u \in (-h)..(h - 1) /\ HighByte(u % Byte) = u
  <2>1. u \in (-h)..(h - 1)
    BY <1>1, FirstByte, Zenon
  <2>. QED
    BY <2>1, SignKept, Zenon
<1>3. q \div Byte = s /\ s \div Byte = u
  <2>0. Byte \in Nat \ {0} /\ Byte * Byte \in Nat \ {0}
    BY <1>1
  <2>1. (v \div Byte) \div Byte = v \div (Byte * Byte)
    BY <2>0, DivideTwice, Zenon
  <2>2. (v \div (Byte * Byte)) \div Byte = v \div ((Byte * Byte) * Byte)
    BY <2>0, DivideTwice, Zenon
  <2>. QED
    BY <1>1, <2>1, <2>2, Zenon
<1>4. v = Byte * q + c /\ q \in Int /\ c \in Int
  BY <1>1, Parts, Zenon
<1>5. q = Byte * s + b /\ b \in Int /\ s \in Int
  <2>1. q \in Int
    BY <1>4
  <2>. HIDE DEF q
  <2>2. q = Byte * (q \div Byte) + (q % Byte) /\ q \div Byte \in Int /\ q % Byte \in Int
    BY <1>1, <2>1, Parts, Zenon
  <2>. QED
    BY <1>3, <2>2
<1>6. s = Byte * u + a /\ a \in Int /\ u \in Int
  <2>1. s \in Int
    BY <1>5
  <2>. HIDE DEF s
  <2>2. s = Byte * (s \div Byte) + (s % Byte) /\ s \div Byte \in Int /\ s % Byte \in Int
    BY <1>1, <2>1, Parts, Zenon
  <2>. QED
    BY <1>3, <2>2
<1>. HIDE DEF q, s, u, a, b, c
<1>7. Byte * (Byte * s + b) = Byte * Byte * s + Byte * b /\ Byte * Byte * s \in Int /\ Byte * b \in Int
  <2>1. Byte * s \in Int /\ Byte * (Byte * s) = Byte * Byte * s
    BY <1>1, <1>5
  <2>. QED
    BY <1>1, <1>5, <2>1, Distributes
<1>8. Byte * Byte * (Byte * u + a) = Byte * Byte * Byte * u + Byte * Byte * a
      /\ Byte * Byte * Byte * u \in Int /\ Byte * Byte * a \in Int
  <2>1. Byte * u \in Int /\ (Byte * Byte) * (Byte * u) = Byte * Byte * Byte * u
    BY <1>1, <1>6
  <2>2. (Byte * Byte) * (Byte * u + a) = (Byte * Byte) * (Byte * u) + (Byte * Byte) * a
    BY <1>1, <1>6, <2>1, Distributes
  <2>. QED
    BY <1>1, <1>6, <2>1, <2>2
<1>9. Byte * Byte * Byte * u + Byte * Byte * a + Byte * b + c = v
  BY <1>4, <1>5, <1>6, <1>7, <1>8
<1>. QED
  BY <1>2, <1>9 DEF q, s, u, a, b, c

LEMMA Ranges16 ==
  ASSUME NEW h \in Nat \ {0}, Byte = 2 * h, NEW v \in (-R(FM_16BIT))..R(FM_16BIT)
  PROVE  v \in Int /\ -(Byte * h) <= v /\ v < Byte * h
<1>1. (Byte * Byte) \div 2 = Byte * h
  <2>1. Byte * Byte = 2 * (Byte * h) /\ Byte * h \in Int
    OBVIOUS
  <2>2. \A m \in Int : (2 * m) \div 2 = m
    OBVIOUS
  <2>. QED
    BY <2>1, <2>2, Zenon
<1>2. R(FM_16BIT) = Byte * h - 1 /\ Byte * h \in Int
  BY <1>1 DEF R, FM_16BIT, FM_24BIT, FM_FLOAT
<1>. QED
  BY <1>2

LEMMA Ranges24 ==
  ASSUME NEW h \in Nat \ {0}, Byte = 2 * h, NEW v \in (-R(FM_24BIT))..R(FM_24BIT)
  PROVE  v \in Int /\ -(Byte * Byte * h) <= v /\ v < Byte * Byte * h
<1>1. (Byte * Byte * Byte) \div 2 = Byte * Byte * h
  <2>1. Byte * Byte * Byte = 2 * (Byte * Byte * h) /\ Byte * Byte * h \in Int
    <3>1. (Byte * Byte) * (2 * h) = 2 * ((Byte * Byte) * h) /\ Byte * Byte \in Int
      OBVIOUS
    <3>. QED
      BY <3>1
  <2>2. \A m \in Int : (2 * m) \div 2 = m
    OBVIOUS
  <2>. QED
    BY <2>1, <2>2, Zenon
<1>2. R(FM_24BIT) = Byte * Byte * h - 1 /\ Byte * Byte * h \in Int
  <2>1. R(FM_24BIT) = (Byte * Byte * Byte) \div 2 - 1
    BY DEF R, FM_16BIT, FM_24BIT, FM_FLOAT
  <2>. QED
    BY <1>1, <2>1
<1>. QED
  BY <1>2

(* What put_audio() stores get_audio() reads (netdata.cc): the sample in whole  *)
(* steps, within full scale, in the integer formats.                         *)
THEOREM SampleRoundTrip ==
  ASSUME NEW form \in {FM_16BIT, FM_24BIT}, NEW x \in Int
  PROVE  Decode(form, Encode(form, x)) = Grain * Quantise(form, x)
<1>1. PICK h \in Nat \ {0} : Byte = 2 * h
  BY HalfByte
<1>. DEFINE v == Quantise(form, x)
<1>2. v \in (-R(form))..R(form)
  BY QuantisedInRange
<1>. HIDE DEF v
<1>3. CASE form = FM_16BIT
  <2>1. v \in Int /\ -(Byte * h) <= v /\ v < Byte * h
    BY <1>1, <1>2, <1>3, Ranges16
  <2>2. Byte * HighByte((v \div Byte) % Byte) + (v % Byte) = v
    BY <1>1, <2>1, TwoBytes
  <2>3. Encode(form, x) = <<(v \div Byte) % Byte, v % Byte>>
    BY <1>3 DEF Encode, v, FM_16BIT, FM_24BIT, FM_FLOAT
  <2>4. Decode(form, Encode(form, x)) = Grain * (Byte * HighByte((v \div Byte) % Byte) + (v % Byte))
    BY <1>3, <2>3 DEF Decode, FM_16BIT, FM_24BIT, FM_FLOAT
  <2>. QED
    BY <2>2, <2>4 DEF v
<1>4. CASE form = FM_24BIT
  <2>1. v \in Int /\ -(Byte * Byte * h) <= v /\ v < Byte * Byte * h
    BY <1>1, <1>2, <1>4, Ranges24
  <2>2. Byte * Byte * HighByte((v \div (Byte * Byte)) % Byte)
          + Byte * ((v \div Byte) % Byte) + (v % Byte) = v
    BY <1>1, <2>1, ThreeBytes
  <2>3. Encode(form, x) = <<(v \div (Byte * Byte)) % Byte, (v \div Byte) % Byte, v % Byte>>
    BY <1>4 DEF Encode, v, FM_16BIT, FM_24BIT, FM_FLOAT
  <2>4. Decode(form, Encode(form, x)) =
          Grain * (Byte * Byte * HighByte((v \div (Byte * Byte)) % Byte)
                     + Byte * ((v \div Byte) % Byte) + (v % Byte))
    BY <1>4, <2>3 DEF Decode, FM_16BIT, FM_24BIT, FM_FLOAT
  <2>. QED
    BY <2>2, <2>4 DEF v
<1>. QED
  BY <1>3, <1>4

(* And every bit of a float.                                                 *)
THEOREM FloatRoundTrip ==
  ASSUME NEW x \in Int, NEW h \in Nat \ {0}, Byte = 2 * h,
         -(Byte * Byte * Byte * h) <= x, x < Byte * Byte * Byte * h
  PROVE  Decode(FM_FLOAT, Encode(FM_FLOAT, x)) = x
<1>1. Encode(FM_FLOAT, x) =
        <<(x \div (Byte * Byte * Byte)) % Byte, (x \div (Byte * Byte)) % Byte,
          (x \div Byte) % Byte, x % Byte>>
  BY DEF Encode, FM_16BIT, FM_24BIT, FM_FLOAT
<1>2. Decode(FM_FLOAT, Encode(FM_FLOAT, x)) =
        Byte * Byte * Byte * HighByte((x \div (Byte * Byte * Byte)) % Byte)
          + Byte * Byte * ((x \div (Byte * Byte)) % Byte)
          + Byte * ((x \div Byte) % Byte) + (x % Byte)
  BY <1>1 DEF Decode, FM_16BIT, FM_24BIT, FM_FLOAT
<1>. QED
  BY <1>2, FourBytes

(* Half a step added and the fraction dropped: a sample above zero is off by    *)
(* half a step, one below by half a step to one and a half.                  *)
LEMMA StepsOff ==
  ASSUME NEW x \in Int, NEW g \in Nat \ {0}, Grain = 2 * g
  PROVE  LET v == Truncate(x + g)
         IN  v \in Int /\ Grain * v \in Int /\ x - g <= Grain * v /\ Grain * v < x + 3 * g
<1>. DEFINE w == x + g
            v == Truncate(w)
<1>0. w \in Int /\ Grain \in Nat \ {0}
  OBVIOUS
<1>1. CASE w >= 0
  <2>1. PICK k \in Int : k = w \div Grain /\ Grain * k <= w /\ w < Grain * k + Grain
    BY <1>0, Division
  <2>2. v = k
    BY <1>1, <2>1 DEF Truncate
  <2>. QED
    BY <1>0, <2>1, <2>2
<1>2. CASE w < 0
  <2>0. -w \in Int
    BY <1>0
  <2>1. PICK k \in Int : k = (-w) \div Grain /\ Grain * k <= -w /\ -w < Grain * k + Grain
    BY <1>0, <2>0, Division
  <2>2. v = -k /\ Grain * (-k) = -(Grain * k) /\ Grain * k \in Int
    BY <1>0, <1>2, <2>1 DEF Truncate
  <2>. QED
    BY <1>0, <2>1, <2>2
<1>. QED
  BY <1>0, <1>1, <1>2

(* A sample comes out as the receivers' checks expect it (netdata.cc): within   *)
(* a step and a half, or at full scale when it was louder.                   *)
THEOREM SamplesSurvive ==
  ASSUME session.form \in {FM_16BIT, FM_24BIT}, NEW x \in Int
  PROVE  SoundsAs(x, Decode(session.form, Encode(session.form, x)))
<1>. DEFINE form == session.form
            g    == Grain \div 2
            v    == Truncate(x + g)
            r    == R(form)
            full == Grain * r
            y    == Grain * Quantise(form, x)
            clip == IF x > full THEN full ELSE IF x < -full THEN -full ELSE x
<1>1. g \in Nat \ {0} /\ Grain = 2 * g /\ Grain \in Nat \ {0}
  BY NetdataParams
<1>2. r \in Nat /\ v \in Int
  BY QuantisedInRange
<1>3. Grain * v \in Int /\ x - g <= Grain * v /\ Grain * v < x + 3 * g
  BY <1>1, StepsOff
<1>4. y = IF v > r THEN full ELSE IF v < -r THEN Grain * (-r) ELSE Grain * v
  BY DEF Quantise
<1>. HIDE DEF v, r, y
<1>5. full \in Nat /\ Grain * (-r) = -full
  BY <1>1, <1>2
<1>. HIDE DEF full
<1>6. 2 * (y - clip) \in (-3 * Grain)..(3 * Grain)
  <2>. HIDE DEF g
  <2>1. CASE v > r
    <3>1. Grain * (r + 1) <= Grain * v /\ Grain * (r + 1) = full + Grain
      <4>1. r + 1 \in Int /\ r + 1 <= v
        BY <1>2, <2>1
      <4>2. Grain * (r + 1) <= Grain * v
        BY <1>1, <1>2, <4>1, Monotone
      <4>3. Grain * (r + 1) = Grain * r + Grain * 1
        BY <1>1, <1>2, Distributes
      <4>. QED
        BY <1>1, <4>2, <4>3 DEF full
    <3>2. y = full
      BY <1>4, <2>1
    <3>. QED
      BY <1>1, <1>3, <1>5, <3>1, <3>2
  <2>2. CASE v < -r
    <3>1. Grain * v <= Grain * (-r + (-1)) /\ Grain * (-r + (-1)) = -full - Grain
      <4>1. -r \in Int /\ -1 \in Int /\ -r + (-1) \in Int /\ v <= -r + (-1)
        BY <1>2, <2>2
      <4>2. Grain * v <= Grain * (-r + (-1))
        BY <1>1, <1>2, <4>1, Monotone
      <4>3. Grain * (-r + (-1)) = Grain * (-r) + Grain * (-1)
        BY <1>1, <4>1, Distributes
      <4>4. Grain * (-1) = -Grain
        BY <1>1
      <4>. QED
        BY <1>1, <1>5, <4>2, <4>3, <4>4
    <3>2. y = -full
      <4>1. ~(v > r)
        BY <1>2, <2>2
      <4>. QED
        BY <1>4, <1>5, <2>2, <4>1
    <3>. QED
      BY <1>1, <1>3, <1>5, <3>1, <3>2
  <2>3. CASE -r <= v /\ v <= r
    <3>1. Grain * v <= full /\ -full <= Grain * v
      <4>1. Grain * v <= Grain * r
        BY <1>1, <1>2, <2>3, Monotone
      <4>2. Grain * (-r) <= Grain * v
        <5>1. -r \in Int
          BY <1>2
        <5>. QED
          BY <1>1, <1>2, <2>3, <5>1, Monotone
      <4>. QED
        BY <1>5, <4>1, <4>2 DEF full
    <3>2. y = Grain * v
      BY <1>2, <1>4, <2>3
    <3>. QED
      BY <1>1, <1>3, <1>5, <3>1, <3>2
  <2>. QED
    BY <1>2, <2>1, <2>2, <2>3
<1>7. Decode(form, Encode(form, x)) = y
  BY SampleRoundTrip DEF y
<1>8. form # FM_FLOAT
  BY DEF FM_16BIT, FM_24BIT, FM_FLOAT
<1>. QED
  BY <1>6, <1>7, <1>8 DEF SoundsAs, full, r

-----------------------------------------------------------------------------
(* Packets                                                                   *)

(* A packet of samples, whatever they are.                                    *)
IsPacket(p) ==
  /\ p.form \in Formats /\ p.nchan \in Nat \ {0} /\ p.nfram \in Nat
  /\ p = [flags |-> p.flags, form |-> p.form, nchan |-> p.nchan, count |-> p.count,
          nfram |-> p.nfram, dtime |-> p.dtime,
          data |-> [a \in 1..(Bytes(p.form) * p.nchan * p.nfram) |-> p.data[a]]]

SameHeader(p, q) ==
  /\ p.flags = q.flags /\ p.form = q.form /\ p.nchan = q.nchan
  /\ p.count = q.count /\ p.nfram = q.nfram /\ p.dtime = q.dtime

LEMMA EmptyIsPacket ==
  ASSUME NEW flags, NEW form \in Formats, NEW chans \in Nat \ {0}, NEW number,
         NEW frames \in Nat, NEW time
  PROVE  IsPacket(init_audio_data(flags, form, chans, number, frames, time))
  BY DEF IsPacket, init_audio_data

LEMMA BytesPositive ==
  ASSUME NEW form \in Formats
  PROVE  Bytes(form) \in Nat \ {0}
  BY DEF Bytes, Formats, FM_16BIT, FM_24BIT, FM_FLOAT

(* No byte belongs to two samples.                                            *)
LEMMA PlacesApart ==
  ASSUME NEW b \in Nat \ {0}, NEW n \in Nat \ {0}, NEW a \in Int,
         NEW c \in 0..(n - 1), NEW f \in Int, NEW d \in 0..(n - 1), NEW g \in Int,
         a - b * (n * f + c) \in 1..b, a - b * (n * g + d) \in 1..b
  PROVE  f = g /\ c = d
<1>. DEFINE u == n * f + c
            v == n * g + d
<1>1. n * f \in Int /\ n * g \in Int /\ n \in Int /\ b \in Int /\ c \in Int /\ d \in Int
  OBVIOUS
<1>2. u \in Int /\ v \in Int
  BY <1>1
<1>3. u = v
  <2>. HIDE DEF u, v
  <2>1. -v \in Int /\ u + (-v) \in Int
    BY <1>2
  <2>2. b * (u + (-v)) = b * u + b * (-v)
    <3>1. PICK w \in Int : w = -v
      BY <2>1
    <3>2. b * (u + w) = b * u + b * w
      BY <1>1, <1>2, <3>1, Distributes
    <3>. QED
      BY <3>1, <3>2
  <2>3. b * (-v) = -(b * v) /\ b * u \in Int /\ b * v \in Int
    BY <1>2
  <2>4. a - b * u \in 1..b /\ a - b * v \in 1..b
    BY DEF u, v
  <2>5. b * (u + (-v)) < b /\ -b < b * (u + (-v))
    BY <1>1, <2>2, <2>3, <2>4
  <2>6. u + (-v) = 0
    BY <2>1, <2>5, SmallMultiple, Zenon
  <2>. QED
    BY <1>2, <2>6
<1>4. f = g
  <2>1. -g \in Int /\ f + (-g) \in Int
    OBVIOUS
  <2>2. n * (f + (-g)) = n * f + n * (-g)
    <3>1. PICK w \in Int : w = -g
      BY <2>1
    <3>2. n * (f + w) = n * f + n * w
      BY <1>1, <3>1, Distributes
    <3>. QED
      BY <3>1, <3>2
  <2>3. n * (-g) = -(n * g)
    BY <1>1
  <2>4. n * f - n * g = d - c
    BY <1>1, <1>3
  <2>5. n * (f + (-g)) < n /\ -n < n * (f + (-g))
    BY <1>1, <2>2, <2>3, <2>4
  <2>6. f + (-g) = 0
    BY <2>1, <2>5, SmallMultiple, Zenon
  <2>. QED
    BY <2>6
<1>. QED
  BY <1>1, <1>3, <1>4

(* And every byte of a sample is in the packet.                               *)
LEMMA PlacesInside ==
  ASSUME NEW b \in Nat \ {0}, NEW n \in Nat \ {0}, NEW m \in Nat,
         NEW c \in 0..(n - 1), NEW f \in 0..(m - 1), NEW k \in 1..b
  PROVE  b * (n * f + c) + k \in 1..(b * n * m)
<1>1. /\ n * f \in Nat /\ c \in Nat /\ n * f + c \in Nat /\ n * f + c + 1 \in Int
      /\ n * m \in Nat /\ n \in Nat /\ b \in Nat /\ f + 1 \in Int /\ f \in Int /\ m \in Int
  OBVIOUS
<1>2. n * (f + 1) <= n * m
  BY <1>1, Monotone
<1>3. n * (f + 1) = n * f + n * 1 /\ n * 1 = n
  BY <1>1, Distributes
<1>4. n * f + c + 1 <= n * m
  BY <1>1, <1>2, <1>3
<1>. DEFINE u == n * f + c
            t == n * m
<1>5. u \in Nat /\ u + 1 \in Int /\ t \in Nat /\ u + 1 <= t
  BY <1>1, <1>4
<1>6. b * n * m = b * t
  OBVIOUS
<1>. HIDE DEF u, t
<1>7. b * (u + 1) <= b * t
  BY <1>5, Monotone
<1>8. b * (u + 1) = b * u + b * 1 /\ b * 1 = b /\ b * u \in Nat /\ b * t \in Nat
  BY <1>5, Distributes
<1>9. b * u + k \in 1..(b * t)
  BY <1>5, <1>7, <1>8
<1>. QED
  BY <1>6, <1>9 DEF u

(* A sample is its bytes.                                                     *)
LEMMA DecodeBytes ==
  ASSUME NEW form \in Formats, NEW p, NEW q, \A k \in 1..Bytes(form) : p[k] = q[k]
  PROVE  Decode(form, p) = Decode(form, q)
  BY DEF Decode, Bytes, Formats, FM_16BIT, FM_24BIT, FM_FLOAT

(* What put_audio() writes get_audio() finds again, on its channel and in its   *)
(* frame, and it writes nothing else (netdata.cc): for every format, number of *)
(* channels and length, whatever was in the packet before.                    *)
THEOREM PutThenGet ==
  ASSUME NEW p, IsPacket(p), NEW chan \in 0..(p.nchan - 1), NEW offs \in Nat,
         NEW len \in Nat, NEW adata \in [1..len -> Int], offs + len <= p.nfram
  PROVE  LET q == put_audio(p, chan, offs, adata)
         IN  /\ IsPacket(q) /\ SameHeader(p, q)
             /\ \A i \in 1..len :
                  get_audio(q, chan, offs, len)[i] = Decode(p.form, Encode(p.form, adata[i]))
             /\ \A c \in 0..(p.nchan - 1), f \in 0..(p.nfram - 1) :
                  c # chan \/ f \notin offs..(offs + len - 1) =>
                    get_audio(q, c, f, 1)[1] = get_audio(p, c, f, 1)[1]
<1>. DEFINE q == put_audio(p, chan, offs, adata)
            b == Bytes(p.form)
            n == p.nchan
            At(i) == b * (n * (offs + i - 1) + chan)
            Sample(a) == {i \in 1..len : a - At(i) \in 1..b}
            New(a) == IF Sample(a) = {} THEN p.data[a]
                      ELSE LET i == CHOOSE k \in Sample(a) : TRUE
                           IN  Encode(p.form, adata[i])[a - At(i)]
            size == b * n * p.nfram
<1>0. /\ p.form \in Formats /\ n \in Nat \ {0} /\ b \in Nat \ {0} /\ p.nfram \in Nat
      /\ DOMAIN adata = 1..len
  BY BytesPositive DEF IsPacket
<1>1. q = [flags |-> p.flags, form |-> p.form, nchan |-> p.nchan, count |-> p.count,
           nfram |-> p.nfram, dtime |-> p.dtime, data |-> [a \in 1..size |-> New(a)]]
  <2>1. p = [flags |-> p.flags, form |-> p.form, nchan |-> p.nchan, count |-> p.count,
             nfram |-> p.nfram, dtime |-> p.dtime, data |-> [a \in 1..size |-> p.data[a]]]
    BY DEF IsPacket
  <2>2. q = [p EXCEPT !.data = [a \in DOMAIN p.data |-> New(a)]]
    BY <1>0 DEF put_audio, Place
  <2>3. DOMAIN p.data = 1..size
    BY <2>1
  <2>. HIDE DEF q, New, size
  <2>. QED
    BY <2>1, <2>2, <2>3
<1>2. q.form = p.form /\ q.nchan = p.nchan /\ q.nfram = p.nfram
      /\ q.data = [a \in 1..size |-> New(a)]
  <2>. HIDE DEF q, New, size
  <2>. QED
    BY <1>1
<1>3. IsPacket(q) /\ SameHeader(p, q)
  <2>. HIDE DEF q, New
  <2>1. q.data = [a \in 1..size |-> q.data[a]]
    BY <1>2
  <2>. QED
    BY <1>0, <1>1, <1>2, <2>1 DEF IsPacket, SameHeader
<1>4. \A c, f : Place(q, c, f) = b * (n * f + c) /\ Place(p, c, f) = b * (n * f + c)
  <2>. HIDE DEF q
  <2>. QED
    BY <1>2 DEF Place
<1>5. ASSUME NEW c \in 0..(n - 1), NEW f \in 0..(p.nfram - 1), NEW k \in 1..b
      PROVE  /\ Place(q, c, f) + k \in 1..size
             /\ \A i \in Sample(Place(q, c, f) + k) : c = chan /\ f = offs + i - 1
  <2>. HIDE DEF q, b, n
  <2>0. n \in Nat \ {0} /\ b \in Nat \ {0} /\ p.nfram \in Nat
    BY <1>0
  <2>1. Place(q, c, f) + k \in 1..size
    <3>1. b * (n * f + c) + k \in 1..(b * n * p.nfram)
      BY <2>0, PlacesInside
    <3>. QED
      BY <1>4, <3>1 DEF size
  <2>2. ASSUME NEW i \in 1..len, (Place(q, c, f) + k) - At(i) \in 1..b
        PROVE  c = chan /\ f = offs + i - 1
    <3>. DEFINE a == Place(q, c, f) + k
                g == offs + i - 1
    <3>0. f \in Int /\ g \in Int /\ c \in Int /\ k \in Int
      BY <2>0
    <3>1. /\ b * (n * f + c) \in Int /\ a = b * (n * f + c) + k
      BY <2>0, <3>0, <1>4
    <3>2. a \in Int /\ a - b * (n * f + c) \in 1..b
      <4>. DEFINE u == b * (n * f + c)
      <4>. HIDE DEF u
      <4>. QED
        BY <2>0, <3>0, <3>1 DEF u
    <3>3. a - b * (n * g + chan) \in 1..b
      BY <2>2, Zenon
    <3>4. f = g /\ c = chan
      <4>. HIDE DEF a, g
      <4>1. c \in 0..(n - 1) /\ chan \in 0..(n - 1)
        BY DEF n
      <4>. QED
        BY <2>0, <3>0, <3>2, <3>3, <4>1, PlacesApart, Zenon
    <3>. QED
      BY <3>4
  <2>3. \A i \in Sample(Place(q, c, f) + k) :
          i \in 1..len /\ (Place(q, c, f) + k) - At(i) \in 1..b
    <3>. HIDE DEF At
    <3>. QED
      OBVIOUS
  <2>. QED
    BY <2>1, <2>2, <2>3, Zenon
<1>6. ASSUME NEW i \in 1..len
      PROVE  get_audio(q, chan, offs, len)[i] = Decode(p.form, Encode(p.form, adata[i]))
  <2>. DEFINE f == offs + i - 1
  <2>1. f \in 0..(p.nfram - 1)
    BY <1>0
  <2>2. ASSUME NEW k \in 1..b
        PROVE  q.data[Place(q, chan, f) + k] = Encode(p.form, adata[i])[k]
    <3>. DEFINE a == Place(q, chan, f) + k
    <3>1. a \in 1..size /\ \A m \in Sample(a) : f = offs + m - 1
      <4>. HIDE DEF Sample, q, b, size, f
      <4>. QED
        BY <1>5, <2>1
    <3>2. Place(q, chan, f) \in Int /\ At(i) = Place(q, chan, f) /\ a - At(i) = k
      <4>1. Place(q, chan, f) = b * (n * f + chan)
        <5>. HIDE DEF q, b, n, f
        <5>. QED
          BY <1>4
      <4>2. b * (n * f + chan) \in Int
        <5>1. f \in Int /\ chan \in Int
          BY <1>0, <2>1
        <5>. HIDE DEF b, n, f
        <5>2. n * f + chan \in Int
          BY <1>0, <5>1
        <5>. QED
          BY <1>0, <5>2
      <4>3. PICK u : u = b * (n * f + chan)
        OBVIOUS
      <4>4. At(i) = u /\ u \in Int /\ Place(q, chan, f) = u
        BY <4>1, <4>2, <4>3
      <4>5. a - At(i) = k
        <5>1. a = u + k
          BY <4>4
        <5>. HIDE DEF a, At
        <5>. QED
          BY <4>4, <5>1
      <4>. QED
        BY <4>4, <4>5
    <3>3. i \in Sample(a)
      BY <3>2
    <3>4. \A m \in Sample(a) : m = i
      BY <3>1
    <3>5. Sample(a) # {} /\ (CHOOSE m \in Sample(a) : TRUE) = i
      <4>. HIDE DEF Sample
      <4>. QED
        BY <3>3, <3>4
    <3>6. New(a) = Encode(p.form, adata[i])[a - At(i)]
      <4>. HIDE DEF Sample, At
      <4>. QED
        BY <3>5
    <3>. HIDE DEF a, New, At
    <3>. QED
      BY <1>2, <3>1, <3>2, <3>6 DEF a
  <2>3. get_audio(q, chan, offs, len)[i] =
          Decode(p.form, [k \in 1..b |-> q.data[Place(q, chan, f) + k]])
    <3>. HIDE DEF q
    <3>. QED
      BY <1>2 DEF get_audio
  <2>. HIDE DEF q, f
  <2>. QED
    BY <1>0, <2>2, <2>3, DecodeBytes
<1>7. ASSUME NEW c \in 0..(n - 1), NEW f \in 0..(p.nfram - 1),
             c # chan \/ f \notin offs..(offs + len - 1)
      PROVE  get_audio(q, c, f, 1)[1] = get_audio(p, c, f, 1)[1]
  <2>1. ASSUME NEW k \in 1..b
        PROVE  q.data[Place(q, c, f) + k] = p.data[Place(p, c, f) + k]
    <3>. DEFINE a == Place(q, c, f) + k
    <3>1. a \in 1..size /\ \A m \in Sample(a) : c = chan /\ f = offs + m - 1
      BY <1>5
    <3>2. Sample(a) = {}
      <4>1. \A m \in 1..len : offs + m - 1 \in offs..(offs + len - 1)
        OBVIOUS
      <4>2. \A m \in Sample(a) : m \in 1..len
        OBVIOUS
      <4>. HIDE DEF Sample
      <4>. QED
        BY <1>7, <3>1, <4>1, <4>2
    <3>3. New(a) = p.data[a]
      <4>. HIDE DEF Sample
      <4>. QED
        BY <3>2
    <3>. HIDE DEF a, New
    <3>. QED
      BY <1>2, <1>4, <3>1, <3>3 DEF a
  <2>2. /\ get_audio(q, c, f, 1)[1] = Decode(p.form, [k \in 1..b |-> q.data[Place(q, c, f) + k]])
        /\ get_audio(p, c, f, 1)[1] = Decode(p.form, [k \in 1..b |-> p.data[Place(p, c, f) + k]])
    <3>. HIDE DEF q
    <3>. QED
      BY <1>2 DEF get_audio
  <2>. HIDE DEF q
  <2>. QED
    BY <1>0, <2>1, <2>2, DecodeBytes
<1>. QED
  BY <1>3, <1>6, <1>7

-----------------------------------------------------------------------------
(* The times of the periods                                                  *)

(* A number on a circle is the one it has the remainder of, if that is less    *)
(* than half the circle away from 0.                                         *)
LEMMA OnCircleExact ==
  ASSUME NEW size \in Nat \ {0}, size % 2 = 0, NEW n \in Int, NEW d \in Int,
         n % size = d % size, -size < 2 * d, 2 * d < size
  PROVE  OnCircle(n, size) = d
<1>1. size \div 2 \in Int /\ size = 2 * (size \div 2)
  OBVIOUS
<1>2. CASE d >= 0
  <2>1. d % size = d
    BY <1>2, SmallRemainder
  <2>. QED
    BY <1>1, <1>2, <2>1 DEF OnCircle
<1>3. CASE d < 0
  <2>1. d + size \in 0..(size - 1) /\ d = size * (-1) + (d + size)
    BY <1>3
  <2>2. (size * (-1) + (d + size)) % size = d + size
    BY <2>1, RemainderUnique
  <2>3. n % size = d + size
    BY <2>1, <2>2
  <2>. QED
    BY <1>1, <1>3, <2>3 DEF OnCircle
<1>. QED
  BY <1>2, <1>3

LEMMA OnCircleSame ==
  ASSUME NEW size \in Nat \ {0}, NEW n \in Int
  PROVE  OnCircle(n, size) \in Int /\ OnCircle(n, size) % size = n % size
<1>1. PICK r \in 0..(size - 1) : r = n % size
  BY Remainder
<1>2. r % size = n % size
  BY <1>1, SmallRemainder
<1>3. (size * (-1) + r) % size = r % size
  <2>1. -1 \in Int /\ r \in Int
    BY <1>1
  <2>. QED
    BY <2>1, RemainderShift, Zenon
<1>4. size * (-1) + r = r - size
  OBVIOUS
<1>5. OnCircle(n, size) \in {r, r - size}
  BY <1>1 DEF OnCircle
<1>. QED
  BY <1>2, <1>3, <1>4, <1>5

(* What the sender's loop relies on in the middle of a period.               *)
LEMMA SumInPeriod ==
  ASSUME Sound
  PROVE  /\ bsize \in Nat \ {0} /\ sum \in 0..bsize /\ j \in Nat /\ j <= npack
         /\ (sum = 0) <=> (j = 0)
         /\ npack \in Nat \ {0} /\ (j = npack => sum = bsize)
<1>1. /\ npack \in Nat \ {0} /\ bsize \in Nat \ {0} /\ bstep \in Nat \ {0}
      /\ npack * bstep \in Int /\ npack * bstep <= bsize
      /\ j \in 0..npack /\ sum \in Int
  BY DEF Sound, Divides
<1> DEFINE off == npack * sum - j * bsize
<1>2. off \in (-npack + 1)..(npack - 1) /\ sum <= bsize /\ (j = npack => sum = bsize)
  BY SoundSplits DEF SplitEven, SplitExact
<1>3. npack <= bsize
  <2>1. npack * 1 <= npack * bstep
    BY <1>1, Monotone
  <2>. QED
    BY <1>1, <2>1
<1>4. CASE j = 0
  <2>1. off = npack * sum
    BY <1>1, <1>4
  <2>2. sum = 0
    BY <1>1, <1>2, <2>1, SmallMultiple
  <2>. QED
    BY <1>1, <1>2, <1>4, <2>2
<1>5. CASE j >= 1
  <2>1. bsize * 1 <= bsize * j /\ bsize * j = j * bsize
    BY <1>1, <1>5, Monotone
  <2>2. npack * sum > 0
    BY <1>1, <1>2, <1>3, <2>1
  <2>3. sum >= 1
    <3> SUFFICES ASSUME sum <= 0 PROVE FALSE
      BY <1>1
    <3>1. npack * sum <= npack * 0
      BY <1>1, Monotone
    <3>. QED
      BY <1>1, <2>2, <3>1
  <2>. QED
    BY <1>1, <1>2, <1>5, <2>3
<1>. QED
  BY <1>1, <1>4, <1>5

(* Where the next packet of the period begins.                                *)
Upcoming == tx_tnext - bsize + sum

(* What is known of the sender's counter and of the time it is late by.        *)
SenderTimes ==
  /\ session \in Sessions /\ bsize = session.tx_fsize
  /\ tx_tnext \in Nat /\ bsize <= tx_tnext
  /\ now \in Nat /\ dtime \in Nat /\ count \in Nat
  /\ count % W = (session.count + Upcoming) % W
  /\ j = 0 => now = Upcoming + dtime

Timed(packet) == FL_TIMED \in packet.flags

(* A packet on the network is not too late, and if it has the time of a period *)
(* this tells when the period was due.                                       *)
OnTime(a) ==
  /\ a.due \in Int /\ a.due - Jitter <= now /\ now <= a.due
  /\ a.packet.dtime \in Nat
  /\ Timed(a.packet) => a.due = a.frame + a.packet.dtime + Jitter

AirTimes ==
  /\ \E S : air \in Seq(S)
  /\ \A i \in 1..Len(air) : OnTime(air[i])
  /\ \A i, k \in 1..Len(air) : i <= k => air[i].due <= air[k].due

(* A part of a period: its first frame, the one behind it, the one behind the    *)
(* period, and how many frames are missing so far.                            *)
Part == [from : Nat, to : Nat, ends : Nat, missed : Int]

(* A packet brings such a part.                                               *)
Brings(a, p) ==
  /\ p.from < p.to /\ p.ends - bsize <= p.from
  /\ a.frame = p.from /\ a.packet.nfram = p.to - p.from
  /\ a.packet.count \in Nat /\ a.packet.count % W = (session.count + p.from) % W
  /\ Timed(a.packet) <=> p.from = p.ends - bsize

(* What may come behind a part: the rest of its period, or a later period if    *)
(* there is no rest, and nothing is left out that is not missing.             *)
Follows(p, from, ends, missed) ==
  /\ from - p.to <= missed - p.missed
  /\ IF from = ends - bsize THEN p.to = p.ends /\ p.to <= from
     ELSE p.to = from /\ p.ends = ends

MayFollow(p, q) == q = p \/ Follows(p, q.from, q.ends, q.missed)

(* The sender has sent p last, and m frames are missing so far.               *)
SentLast(p, m) ==
  IF sum < bsize THEN Follows(p, Upcoming, tx_tnext, m)
  ELSE p.to = p.ends /\ tx_tnext - p.to <= m - p.missed

(* The part received last, those on the network, and the one to be sent next    *)
(* follow each other, or are repeated.                                       *)
Chain(parts, m) ==
  /\ parts \in [0..Len(air) -> Part] /\ m \in Int
  /\ \A i \in 0..Len(air) :
       parts[i].to <= parts[i].ends /\ parts[i].ends <= tx_tnext /\ parts[i].missed <= m
  /\ \A i \in 1..Len(air) : Brings(air[i], parts[i])
  /\ \A i \in 1..Len(air) : MayFollow(parts[i - 1], parts[i])
  /\ SentLast(parts[Len(air)], m)

(* The audio queue ends where the part received last does, and the time         *)
(* predicted is that of the end of its period, and no more than the jitter late. *)
Received(p) ==
  IF first THEN p.from = 0 /\ p.to = 0 /\ p.ends = 0
  ELSE /\ p.from < p.to
       /\ nwr \in Nat /\ nwr % W = (session.count + p.to) % W
       /\ t0 \in Int
       /\ \E late \in 0..Jitter : t0 % Clock = (session.clock + p.ends + late) % Clock

(* No fault costs more than g frames.                                         *)
Tolerates(g) ==
  /\ g \in Nat
  /\ \A skip \in Skips : skip <= g
  /\ \A s \in Sessions : s.tx_fsize <= g

TimesBase ==
  /\ Sound
  /\ SenderTimes
  /\ AirTimes
  /\ faults \in Nat /\ faults <= MaxFaults

(* What was received last ends at the frame to, of a period that ends at ends,    *)
(* and the faults so far account for all the frames missing behind it.        *)
Linked(g, to, ends) ==
  \E parts, m : /\ Chain(parts, m) /\ Received(parts[0])
                /\ parts[0].to = to /\ parts[0].ends = ends
                /\ m - parts[0].missed <= faults * g

TimesSound(g) ==
  /\ TimesBase
  /\ ~shaken => err \in (-Jitter)..Jitter /\ \E to, ends \in Nat : Linked(g, to, ends)

(* A step that receives nothing.                                             *)
Keeps(g) ==
  /\ TimesBase'
  /\ ~shaken' => /\ ~shaken /\ err' = err
                 /\ \A to, ends \in Nat : Linked(g, to, ends) => Linked(g, to, ends)'

LEMMA KeepsSound ==
  ASSUME NEW g, TimesSound(g), Keeps(g)
  PROVE  TimesSound(g)'
  BY DEF TimesSound, Keeps

(* The numbers of a session and of the network.                              *)
LEMMA SessionNumbers ==
  ASSUME session \in Sessions
  PROVE  /\ session.tx_fsize \in Nat /\ session.time \in Nat /\ session.count \in Nat
         /\ session.clock \in Nat /\ Jitter \in Nat /\ Late \in Nat
         /\ W \in Nat \ {0} /\ W % 2 = 0 /\ Clock \in Nat \ {0} /\ Clock % 2 = 0
         /\ \A skip \in {0} \cup Skips : skip \in Nat
<1>1. {session.phase, session.count, session.clock, session.time} \subseteq Nat
  BY PathParams
<1>2. session.tx_fsize \in Nat
  BY PathParams, PacketizeParams
<1>. QED
  BY <1>1, <1>2, PathParams

(* The numbers of a chain.                                                   *)
LEMMA PartNumbers ==
  ASSUME TimesBase, NEW parts, NEW m, Chain(parts, m)
  PROVE  /\ Len(air) \in Nat /\ m \in Int
         /\ \A i \in 0..Len(air) :
              /\ parts[i] \in Part
              /\ parts[i].from \in Nat /\ parts[i].to \in Nat /\ parts[i].ends \in Nat
              /\ parts[i].missed \in Int
         /\ parts[0].missed \in Int
<1>1. Len(air) \in Nat /\ 0 \in 0..Len(air) /\ m \in Int
  BY DEF TimesBase, AirTimes, Chain
<1>2. \A i \in 0..Len(air) : parts[i] \in Part
  BY DEF Chain
<1>3. \A p \in Part : p.from \in Nat /\ p.to \in Nat /\ p.ends \in Nat /\ p.missed \in Int
  BY DEF Part
<1>. QED
  BY <1>1, <1>2, <1>3

(* Nothing is sent or received yet, and nothing is missing.                  *)
LEMMA TimesStart ==
  ASSUME NEW g \in Nat
  PROVE  PathInit => TimesSound(g)
<1> SUFFICES ASSUME PathInit PROVE TimesSound(g)
  OBVIOUS
<1>1. Sound
  BY PathStarts, InitSound
<1>2. /\ session \in Sessions /\ session.tx_fsize \in Nat \ {0} /\ session.count \in Nat
      /\ MaxFaults \in Nat
  BY <1>1, SessionNumbers, SumInPeriod, PathParams DEF PathInit
<1>3. SenderTimes
  <2>1. Upcoming = 0
    BY <1>2 DEF PathInit, Upcoming
  <2>2. session.count + 0 = session.count
    BY <1>2
  <2>. QED
    BY <1>2, <2>1, <2>2 DEF PathInit, SenderTimes
<1>4. AirTimes
  <2>1. air \in Seq({}) /\ Len(air) = 0 /\ 1..0 = {}
    BY DEF PathInit
  <2>. QED
    BY <2>1 DEF AirTimes
<1>5. err \in (-Jitter)..Jitter
  BY <1>2, SessionNumbers DEF PathInit
<1>6. PICK p, parts : p = [from |-> 0, to |-> 0, ends |-> 0, missed |-> 0]
                      /\ parts = [i \in 0..0 |-> p]
  OBVIOUS
<1>7. parts[0] = p /\ p \in Part /\ p.from = 0 /\ p.to = 0 /\ p.ends = 0 /\ p.missed = 0
  BY <1>6 DEF Part
<1>8. Chain(parts, 0)
  <2>1. Len(air) = 0 /\ 1..0 = {} /\ 0..0 = {0}
    BY DEF PathInit
  <2>2. SentLast(p, 0)
    BY <1>2, <1>7 DEF PathInit, Upcoming, Follows, SentLast
  <2>3. tx_tnext >= 0
    BY <1>2 DEF PathInit
  <2>. QED
    BY <1>6, <1>7, <2>1, <2>2, <2>3 DEF Chain
<1>9. Received(parts[0])
  BY <1>7 DEF PathInit, Received
<1>10. faults = 0 /\ 0 - parts[0].missed <= faults * g
  BY <1>7 DEF PathInit
<1>11. Linked(g, 0, 0)
  BY <1>7, <1>8, <1>9, <1>10 DEF Linked
<1>. QED
  BY <1>1, <1>2, <1>3, <1>4, <1>5, <1>10, <1>11 DEF TimesSound, TimesBase

(* A chain depends on what the sender and the network keep.                  *)
LEMMA ChainStays ==
  ASSUME NEW parts, NEW m, Chain(parts, m), UNCHANGED <<session, vars, tx_tnext, air>>
  PROVE  Chain(parts, m)'
  BY DEF Chain, Brings, MayFollow, SentLast, Follows, Upcoming, vars

(* A step adds at most one fault, and its frames.                            *)
LEMMA FaultsCount ==
  ASSUME NEW g \in Nat, TimesBase,
         faults' = faults \/ (faults < MaxFaults /\ faults' = faults + 1)
  PROVE  /\ faults' \in Nat /\ faults' <= MaxFaults
         /\ faults * g \in Nat /\ faults' * g \in Nat
         /\ faults' = faults => faults' * g = faults * g
         /\ faults' = faults + 1 => faults' * g = faults * g + g
<1>1. faults \in Nat /\ MaxFaults \in Nat /\ faults <= MaxFaults
  BY PathParams DEF TimesBase
<1>2. faults' \in Nat /\ faults' <= MaxFaults
  BY <1>1
<1>3. g * (faults + 1) = g * faults + g * 1 /\ g * faults \in Nat
  BY <1>1, Distributes
<1>4. g * faults = faults * g /\ g * (faults + 1) = (faults + 1) * g /\ g * 1 = g
  BY <1>1
<1>5. faults * g \in Nat /\ (faults + 1) * g = faults * g + g /\ faults # faults + 1
  BY <1>1, <1>3, <1>4
<1>6. CASE faults' = faults
  BY <1>2, <1>5, <1>6
<1>7. CASE faults' = faults + 1
  <2>1. faults' * g = (faults + 1) * g
    BY <1>7
  <2>. QED
    BY <1>2, <1>5, <1>7, <2>1
<1>. QED
  BY <1>6, <1>7

(* Steps of the list, the sockets and the receiver's Jack client.            *)
LEMMA TimesStay ==
  ASSUME NEW g \in Nat, TimesSound(g),
         faults' = faults \/ (faults < MaxFaults /\ faults' = faults + 1),
         UNCHANGED <<session, now, vars, txvars, air, first, t0, err, nwr, shaken>>
  PROVE  Keeps(g)
<1>1. Sound'
  BY DEF TimesSound, TimesBase, Sound, SplitFits, vars, npack, bstep
<1>2. SenderTimes'
  BY DEF TimesSound, TimesBase, SenderTimes, Upcoming, vars, txvars
<1>3. AirTimes'
  BY DEF TimesSound, TimesBase, AirTimes, OnTime
<1>4. ASSUME NEW parts, NEW m, Chain(parts, m), Received(parts[0]), m - parts[0].missed <= faults * g
      PROVE  (Chain(parts, m) /\ Received(parts[0]) /\ m - parts[0].missed <= faults * g)'
  <2>1. Chain(parts, m)'
    BY <1>4, ChainStays DEF txvars
  <2>2. Received(parts[0])'
    BY <1>4 DEF Received
  <2>3. m \in Int /\ parts[0].missed \in Int
    BY <1>4, PartNumbers DEF TimesSound
  <2>4. faults * g \in Nat /\ faults' * g \in Nat /\ faults * g <= faults' * g
    BY FaultsCount DEF TimesSound
  <2>. QED
    BY <1>4, <2>1, <2>2, <2>3, <2>4
<1>5. faults' \in Nat /\ faults' <= MaxFaults
  BY FaultsCount DEF TimesSound
<1>6. ASSUME NEW to \in Nat, NEW ends \in Nat, Linked(g, to, ends)
      PROVE  Linked(g, to, ends)'
  BY <1>4, <1>6 DEF Linked
<1>. QED
  BY <1>1, <1>2, <1>3, <1>5, <1>6 DEF Keeps, TimesBase

(* Time does not pass while a packet is to be sent or received.              *)
LEMMA TickTimes ==
  ASSUME NEW g \in Nat, TimesSound(g), Tick
  PROVE  Keeps(g)
<1>0. /\ j = npack /\ now' = now + 1 /\ (air # <<>> => now < Head(air).due)
      /\ UNCHANGED <<session, vars, txvars, air, first, t0, err, nwr, shaken, faults>>
  BY DEF Tick, rxvars
<1>1. Sound'
  BY <1>0 DEF TimesSound, TimesBase, Sound, SplitFits, vars, npack, bstep
<1>2. j # 0 /\ now \in Nat
  BY <1>0, SumInPeriod DEF TimesSound, TimesBase, SenderTimes
<1>3. SenderTimes'
  BY <1>0, <1>2 DEF TimesSound, TimesBase, SenderTimes, Upcoming, vars, txvars
<1>4. AirTimes'
  <2>1. PICK S : air \in Seq(S)
    BY DEF TimesSound, TimesBase, AirTimes
  <2>2. ASSUME NEW i \in 1..Len(air)
        PROVE  OnTime(air[i])'
    <3>1. Len(air) \in Nat /\ 1 \in 1..Len(air) /\ 1 <= i /\ air # <<>> /\ Head(air) = air[1]
      BY <2>1
    <3>2. OnTime(air[i]) /\ OnTime(air[1]) /\ air[1].due <= air[i].due
      BY <3>1 DEF TimesSound, TimesBase, AirTimes
    <3>3. Jitter \in Nat
      BY PathParams
    <3>4. now < air[1].due
      BY <1>0, <3>1
    <3>5. PICK a, b : a = air[i] /\ b = air[1]
      OBVIOUS
    <3>6. OnTime(a) /\ b.due \in Int /\ b.due <= a.due /\ now < b.due
      BY <3>2, <3>4, <3>5 DEF OnTime
    <3>7. a.due - Jitter <= now + 1 /\ now + 1 <= a.due
      BY <1>2, <3>3, <3>6 DEF OnTime
    <3>8. OnTime(a)'
      BY <1>0, <3>6, <3>7 DEF OnTime
    <3>. QED
      BY <1>0, <3>5, <3>8
  <2>. QED
    BY <1>0, <2>2 DEF TimesSound, TimesBase, AirTimes
<1>5. ASSUME NEW parts, NEW m, Chain(parts, m), Received(parts[0])
      PROVE  Chain(parts, m)' /\ Received(parts[0])'
  <2>1. Chain(parts, m)'
    BY <1>0, <1>5, ChainStays DEF txvars
  <2>2. Received(parts[0])'
    BY <1>0, <1>5 DEF Received
  <2>. QED
    BY <2>1, <2>2
<1>6. ASSUME NEW to \in Nat, NEW ends \in Nat, Linked(g, to, ends)
      PROVE  Linked(g, to, ends)'
  BY <1>0, <1>5, <1>6 DEF Linked
<1>. QED
  BY <1>0, <1>1, <1>3, <1>4, <1>6 DEF Keeps, TimesSound, TimesBase

(* A cycle that was late by skip frames: they are missing.                   *)
LEMMA TxCycleTimes ==
  ASSUME NEW g, Tolerates(g), TimesSound(g), NEW skip \in {0} \cup Skips, TxCycle(skip)
  PROVE  Keeps(g)
<1>. DEFINE start == tx_tnext + skip
<1>0. /\ Period /\ now \in start..(start + Late)
      /\ count' = (count + start - tx_tnext) % W
      /\ tx_tnext' = start + bsize /\ dtime' = now - start
      /\ skip = 0 \/ (faults < MaxFaults /\ skip \in Skips)
      /\ faults' = IF skip = 0 THEN faults ELSE faults + 1
      /\ UNCHANGED <<session, now, air, first, t0, err, nwr, shaken>>
  BY DEF TxCycle, Skipped, rxvars
<1>1. Sound' /\ Sound /\ sum = bsize /\ sum' = 0 /\ j' = 0 /\ bsize' = bsize /\ bsize \in Nat \ {0}
  <2>1. Sound /\ Sound'
    BY <1>0, PeriodSound DEF TimesSound, TimesBase
  <2>. QED
    BY <1>0, <2>1, SumInPeriod DEF Period
<1>2. /\ session \in Sessions /\ tx_tnext \in Nat /\ now \in Nat /\ count \in Nat
      /\ session.count \in Nat /\ W \in Nat \ {0} /\ Late \in Nat
      /\ skip \in Nat /\ g \in Nat /\ (skip # 0 => skip <= g)
  BY SessionNumbers DEF TimesSound, TimesBase, SenderTimes, Tolerates
<1>3. start \in Nat /\ tx_tnext <= start /\ start <= now
  BY <1>0, <1>2
<1>4. Upcoming = tx_tnext /\ Upcoming' = start
  BY <1>0, <1>1, <1>2 DEF Upcoming
<1>5. SenderTimes'
  <2>1. count' \in Nat /\ count' % W = (session.count + start) % W
    <3>1. PICK m \in Int : m = start - tx_tnext /\ count + start - tx_tnext = count + m
      BY <1>2, <1>3
    <3>2. count % W = (session.count + tx_tnext) % W
      BY <1>4 DEF TimesSound, TimesBase, SenderTimes
    <3>3. session.count + tx_tnext \in Int /\ count \in Int
      BY <1>2
    <3>4. (count + m) % W = ((session.count + tx_tnext) + m) % W
      <4>. DEFINE b == session.count + tx_tnext
      <4>1. b \in Int /\ count \in Int /\ m \in Int /\ count % W = b % W
        BY <1>2, <3>1, <3>2, <3>3
      <4>. HIDE DEF b
      <4>2. ((count % W) + m) % W = (count + m) % W /\ ((b % W) + m) % W = (b + m) % W
        BY <1>2, <4>1, RemainderOfSum, Zenon
      <4>. QED
        BY <4>1, <4>2, Zenon DEF b
    <3>5. (session.count + tx_tnext) + m = session.count + start
      BY <1>2, <1>3, <3>1
    <3>6. (count + m) % W \in 0..(W - 1)
      BY <1>2, <3>1, Remainder
    <3>7. ((count + m) % W) % W = (count + m) % W
      BY <1>2, <3>6, SmallRemainder
    <3>. QED
      BY <1>0, <1>2, <3>1, <3>4, <3>5, <3>6, <3>7
  <2>. QED
    BY <1>0, <1>1, <1>2, <1>3, <1>4, <2>1 DEF TimesSound, TimesBase, SenderTimes
<1>6. AirTimes'
  BY <1>0 DEF TimesSound, TimesBase, AirTimes, OnTime
<1>7. ASSUME NEW parts, NEW m, Chain(parts, m), Received(parts[0])
      PROVE  (Chain(parts, m + skip) /\ Received(parts[0]))'
  <2>1. PICK n, more, air0 : n = Len(air) /\ more = m + skip /\ air0 = air
    OBVIOUS
  <2>2. /\ n \in Nat /\ n \in 0..n /\ m \in Int
        /\ \A i \in 0..n : parts[i].to \in Nat /\ parts[i].ends \in Nat /\ parts[i].missed \in Int
    BY <1>7, <2>1, PartNumbers DEF TimesSound
  <2>3. /\ parts \in [0..n -> Part]
        /\ \A i \in 0..n :
             parts[i].to <= parts[i].ends /\ parts[i].ends <= tx_tnext /\ parts[i].missed <= m
        /\ \A i \in 1..n : Brings(air0[i], parts[i]) /\ MayFollow(parts[i - 1], parts[i])
        /\ SentLast(parts[n], m)
    BY <1>7, <2>1 DEF Chain
  <2>4. SentLast(parts[n], more)'
    <3>1. /\ parts[n].to = parts[n].ends /\ parts[n].ends <= tx_tnext /\ parts[n].ends \in Nat
          /\ tx_tnext - parts[n].to <= m - parts[n].missed /\ parts[n].missed \in Int
      BY <1>1, <2>2, <2>3 DEF SentLast
    <3>2. Upcoming' = tx_tnext' - bsize' /\ sum' < bsize'
      BY <1>0, <1>1, <1>2, <1>3, <1>4
    <3>3. parts[n].to <= start /\ start - parts[n].to <= more - parts[n].missed
      <4>1. more = m + skip /\ m \in Int /\ skip \in Nat /\ tx_tnext \in Nat
        BY <1>2, <2>1, <2>2
      <4>. QED
        BY <3>1, <4>1
    <3>4. /\ parts[n].to = parts[n].ends /\ parts[n].to <= Upcoming'
          /\ Upcoming' - parts[n].to <= more - parts[n].missed
      BY <1>4, <3>1, <3>3
    <3>. QED
      BY <3>2, <3>4 DEF SentLast, Follows
  <2>5. \A i \in 0..n :
          parts[i].to <= parts[i].ends /\ parts[i].ends <= tx_tnext' /\ parts[i].missed <= more
    <3>1. tx_tnext' \in Nat /\ tx_tnext <= tx_tnext'
      BY <1>0, <1>1, <1>2, <1>3
    <3>2. more \in Int /\ m <= more
      BY <1>2, <2>1, <2>2
    <3>. QED
      BY <1>2, <2>2, <2>3, <3>1, <3>2
  <2>6. \A i \in 1..n : Brings(air0[i], parts[i])' /\ MayFollow(parts[i - 1], parts[i])'
    BY <1>0, <1>1, <2>3 DEF Brings, MayFollow, Follows
  <2>7. Chain(parts, more)'
    <3>1. Len(air') = n /\ air' = air0 /\ more \in Int
      BY <1>0, <1>2, <2>1, <2>2
    <3>. QED
      BY <2>3, <2>4, <2>5, <2>6, <3>1 DEF Chain, Brings, MayFollow, SentLast, Follows
  <2>8. Received(parts[0])'
    BY <1>0, <1>7 DEF Received
  <2>. QED
    BY <2>1, <2>7, <2>8
<1>8. /\ faults' \in Nat /\ faults' <= MaxFaults
      /\ faults * g \in Nat /\ faults' * g \in Nat
      /\ skip <= faults' * g - faults * g
  BY <1>0, <1>2, FaultsCount DEF TimesSound
<1>9. ASSUME NEW parts, NEW m, Chain(parts, m), m - parts[0].missed <= faults * g
      PROVE  (m + skip) - parts[0].missed <= faults' * g
  <2>1. m \in Int /\ parts[0].missed \in Int
    BY <1>9, PartNumbers DEF TimesSound
  <2>. QED
    BY <1>2, <1>8, <1>9, <2>1
<1>10. ASSUME NEW to \in Nat, NEW ends \in Nat, Linked(g, to, ends)
       PROVE  Linked(g, to, ends)'
  <2>1. PICK parts, m : /\ Chain(parts, m) /\ Received(parts[0])
                        /\ parts[0].to = to /\ parts[0].ends = ends
                        /\ m - parts[0].missed <= faults * g
    BY <1>10 DEF Linked
  <2>2. PICK more : more = m + skip
    OBVIOUS
  <2>3. (Chain(parts, more) /\ Received(parts[0]) /\ more - parts[0].missed <= faults * g)'
    BY <1>7, <1>9, <2>1, <2>2
  <2>. QED
    BY <2>1, <2>3 DEF Linked
<1>. QED
  BY <1>0, <1>1, <1>5, <1>6, <1>8, <1>10 DEF Keeps, TimesSound, TimesBase

(* The samples leave the header of a packet alone.                           *)
LEMMA HeaderStays ==
  ASSUME NEW flags, NEW form, NEW chans, NEW number, NEW frames, NEW time, NEW start
  PROVE  LET packet == Filled(init_audio_data(flags, form, chans, number, frames, time), start)
         IN  /\ packet.flags = flags /\ packet.count = number
             /\ packet.nfram = frames /\ packet.dtime = time
  BY DEF Filled, init_audio_data

(* The sum behind the first packet of a period, and behind the others.         *)
SumWithin ==
  /\ bsize \in Nat \ {0} /\ sum \in 0..bsize /\ j \in Nat
  /\ (sum = 0) <=> (j = 0)
  /\ j > 0 => nfram \in Nat \ {0}

LEMMA SumStaysWithin == Sound => SumWithin
  BY SumInPeriod DEF SumWithin, Sound, SplitFits, Divides

LEMMA SumNext == Sound' => SumWithin'
  BY SumStaysWithin, PTL

(* What one packet more changes on the network.                              *)
LEMMA AirAppended ==
  ASSUME NEW S, air \in Seq(S), NEW a, air' = Append(air, a)
  PROVE  /\ \E U : air' \in Seq(U)
         /\ Len(air) \in Nat /\ Len(air') = Len(air) + 1
         /\ \A i \in 1..Len(air) : air'[i] = air[i]
         /\ air'[Len(air) + 1] = a
<1>1. air \in Seq(S \cup {a}) /\ a \in S \cup {a}
  OBVIOUS
<1>. QED
  BY <1>1, AppendProperties

(* A packet is sent: its part is the last of the chain.                      *)
LEMMA TxPacketTimes ==
  ASSUME NEW g \in Nat, TimesSound(g), TxPacket
  PROVE  Keeps(g)
<1>1. PICK start, frames, flags, sent, old, queue, n :
        /\ old = air /\ queue = air' /\ start = Upcoming /\ frames = nfram' /\ n = Len(old)
        /\ flags = (IF j = 0 THEN {FL_TIMED} ELSE {})
        /\ sent = [packet |-> Filled(init_audio_data(flags, session.form, session.nchan, count,
                                                     frames, dtime), start),
                   frame |-> start, due |-> now + Jitter]
  OBVIOUS
<1>0. /\ Packet /\ air' = Append(air, sent)
      /\ count' = (count + frames) % W /\ dtime' = 0
      /\ UNCHANGED <<session, now, tx_tnext, first, t0, err, nwr, shaken, faults>>
  BY <1>1 DEF TxPacket, rxvars, Upcoming
<1>10. /\ sent.frame = start /\ sent.due = now + Jitter
       /\ sent.packet.flags = flags /\ sent.packet.count = count
       /\ sent.packet.nfram = frames /\ sent.packet.dtime = dtime
  BY <1>1, HeaderStays
<1>2. /\ Sound' /\ bsize \in Nat \ {0} /\ sum \in 0..bsize /\ ((sum = 0) <=> (j = 0))
      /\ sum' = sum + frames /\ sum' \in 0..bsize /\ bsize' = bsize
      /\ j' = j + 1 /\ j \in Nat /\ frames \in Nat \ {0}
  <2>1. Sound' /\ SumWithin /\ SumWithin'
    BY <1>0, PacketSound, SumStaysWithin, SumNext DEF TimesSound, TimesBase
  <2>. QED
    BY <1>0, <1>1, <2>1 DEF SumWithin, Packet
<1>3. /\ session \in Sessions /\ tx_tnext \in Nat /\ now \in Nat /\ count \in Nat /\ dtime \in Nat
      /\ session.count \in Nat /\ W \in Nat \ {0} /\ Jitter \in Nat
      /\ bsize <= tx_tnext /\ count % W = (session.count + start) % W
      /\ (j = 0 => now = start + dtime)
  BY <1>1, SessionNumbers DEF TimesSound, TimesBase, SenderTimes
<1>4. /\ start \in Nat /\ start + frames \in Nat /\ start + frames <= tx_tnext
      /\ tx_tnext - bsize <= start /\ (start = tx_tnext - bsize <=> j = 0)
      /\ Upcoming' = start + frames
      /\ (sum' < bsize => start + frames # tx_tnext - bsize)
      /\ (sum' >= bsize => start + frames = tx_tnext)
  <2>1. start = (tx_tnext - bsize) + sum
    BY <1>1 DEF Upcoming
  <2>2. Upcoming' = (tx_tnext - bsize) + sum'
    BY <1>0, <1>2 DEF Upcoming
  <2>. QED
    BY <1>2, <1>3, <2>1, <2>2
<1>5. FL_TIMED \in flags <=> j = 0
  BY <1>1
<1>6. SenderTimes'
  <2>1. count' \in Nat /\ count' % W = (session.count + (start + frames)) % W
    <3>. DEFINE b == session.count + start
    <3>1. b \in Int /\ count \in Int /\ frames \in Int /\ count % W = b % W
      BY <1>2, <1>3, <1>4
    <3>2. b + frames = session.count + (start + frames)
      BY <1>2, <1>3, <1>4
    <3>. HIDE DEF b
    <3>3. ((count % W) + frames) % W = (count + frames) % W /\ ((b % W) + frames) % W = (b + frames) % W
      BY <1>3, <3>1, RemainderOfSum, Zenon
    <3>4. count + frames \in Int
      BY <3>1
    <3>5. (count + frames) % W \in 0..(W - 1)
      BY <1>3, <3>4, Remainder, Zenon
    <3>6. ((count + frames) % W) % W = (count + frames) % W
      BY <1>3, <3>5, SmallRemainder, Zenon
    <3>7. (count + frames) % W = (session.count + (start + frames)) % W
      BY <3>1, <3>2, <3>3, Zenon
    <3>8. UNCHANGED session /\ (count + frames) % W \in Nat
      BY <1>0, <1>3, <3>5
    <3>. QED
      BY <1>0, <3>6, <3>7, <3>8, Zenon
  <2>. QED
    BY <1>0, <1>2, <1>3, <1>4, <2>1 DEF TimesSound, TimesBase, SenderTimes
<1>7. /\ \E U : queue \in Seq(U)
      /\ n \in Nat /\ Len(queue) = n + 1
      /\ \A i \in 1..n : queue[i] = old[i]
      /\ queue[n + 1] = sent
  <2>1. PICK S : air \in Seq(S)
    BY DEF TimesSound, TimesBase, AirTimes
  <2>. QED
    BY <1>0, <1>1, <2>1, AirAppended
<1>8. AirTimes'
  <2>1. ASSUME NEW i \in 1..n
        PROVE  OnTime(queue[i])' /\ queue[i] = old[i] /\ old[i].due \in Int /\ old[i].due <= sent.due
    <3>1. OnTime(old[i])
      BY <1>1 DEF TimesSound, TimesBase, AirTimes
    <3>2. OnTime(old[i])'
      BY <1>0, <3>1 DEF OnTime
    <3>3. old[i].due \in Int /\ old[i].due <= sent.due
      BY <1>10, <1>3, <3>1 DEF OnTime
    <3>. QED
      BY <1>7, <3>2, <3>3
  <2>2. OnTime(sent)'
    <3>1. PICK due, time : due = sent.due /\ time = sent.packet.dtime
      OBVIOUS
    <3>2. due = now + Jitter /\ time = dtime
      BY <1>10, <3>1
    <3>3. /\ due \in Int /\ due - Jitter <= now /\ now <= due /\ time \in Nat
          /\ j = 0 => due = start + time + Jitter
      BY <1>3, <1>4, <3>2
    <3>4. FL_TIMED \in sent.packet.flags <=> j = 0
      BY <1>10, <1>5
    <3>5. now' = now /\ sent.frame = start
      BY <1>0, <1>10
    <3>. QED
      BY <3>1, <3>3, <3>4, <3>5 DEF OnTime, Timed
  <2>3. \A i \in 1..(n + 1) : OnTime(queue[i])'
    <3>1. \A i \in 1..(n + 1) : i \in 1..n \/ i = n + 1
      BY <1>7
    <3>. QED
      BY <1>7, <2>1, <2>2, <3>1, Zenon
  <2>4. \A i, k \in 1..n : i <= k => old[i].due <= old[k].due
    BY <1>1 DEF TimesSound, TimesBase, AirTimes
  <2>5. \A i, k \in 1..(n + 1) : i <= k => queue[i].due <= queue[k].due
    <3> SUFFICES ASSUME NEW i \in 1..(n + 1), NEW k \in 1..(n + 1), i <= k
                 PROVE  queue[i].due <= queue[k].due
      OBVIOUS
    <3>1. CASE k \in 1..n
      <4>1. i \in 1..n
        BY <1>7, <3>1
      <4>. QED
        BY <1>7, <2>4, <3>1, <4>1
    <3>2. CASE k = n + 1 /\ i \in 1..n
      BY <1>7, <2>1, <3>2
    <3>3. CASE k = n + 1 /\ i = n + 1
      BY <1>10, <1>3, <1>7, <3>3
    <3>. QED
      BY <1>7, <3>1, <3>2, <3>3
  <2>. QED
    BY <1>1, <1>7, <2>3, <2>5 DEF AirTimes
<1>9. ASSUME NEW parts, NEW m, Chain(parts, m), Received(parts[0])
      PROVE  \E next : (Chain(next, m) /\ Received(next[0]))' /\ next[0] = parts[0]
  <2>0. /\ parts \in [0..n -> Part] /\ m \in Int
        /\ \A i \in 0..n :
             parts[i].to <= parts[i].ends /\ parts[i].ends <= tx_tnext /\ parts[i].missed <= m
        /\ \A i \in 1..n : Brings(old[i], parts[i]) /\ MayFollow(parts[i - 1], parts[i])
        /\ SentLast(parts[n], m)
    BY <1>1, <1>9 DEF Chain
  <2>1. PICK more, next :
          /\ more = [from |-> start, to |-> start + frames, ends |-> tx_tnext, missed |-> m]
          /\ next = [i \in 0..(n + 1) |-> IF i = n + 1 THEN more ELSE parts[i]]
    OBVIOUS
  <2>2. /\ next[n + 1] = more /\ n \in 0..(n + 1) /\ n # n + 1 /\ n \in 0..n
        /\ \A i \in 0..n : i \in 0..(n + 1) /\ next[i] = parts[i]
        /\ \A i \in 1..n : i \in 0..n /\ i - 1 \in 0..n
        /\ \A i \in 0..(n + 1) : i \in 0..n \/ i = n + 1
        /\ \A i \in 1..(n + 1) : i \in 1..n \/ i = n + 1
    BY <1>7, <2>1
  <2>3. /\ more \in Part /\ more.from = start /\ more.to = start + frames /\ more.ends = tx_tnext
        /\ more.missed = m
    BY <1>3, <1>4, <2>0, <2>1 DEF Part
  <2>4. next \in [0..(n + 1) -> Part]
    BY <2>0, <2>1, <2>2, <2>3
  <2>5. \A i \in 0..(n + 1) :
          next[i].to <= next[i].ends /\ next[i].ends <= tx_tnext /\ next[i].missed <= m
    <3>1. more.to <= more.ends /\ more.ends <= tx_tnext /\ more.missed <= m
      BY <1>3, <1>4, <2>0, <2>3
    <3>. QED
      BY <2>0, <2>2, <3>1, Zenon
  <2>6. \A i \in 1..(n + 1) : Brings(queue[i], next[i])'
    <3>1. Brings(sent, more)'
      <4>1. more.from < more.to /\ more.ends - bsize <= more.from /\ sent.packet.nfram = more.to - more.from
        BY <1>10, <1>2, <1>3, <1>4, <2>3
      <4>2. FL_TIMED \in sent.packet.flags <=> more.from = more.ends - bsize
        BY <1>10, <1>4, <1>5, <2>3
      <4>. QED
        BY <1>0, <1>10, <1>2, <1>3, <2>3, <4>1, <4>2 DEF Brings, Timed
    <3>2. \A i \in 1..n : Brings(old[i], parts[i])'
      BY <1>0, <1>2, <2>0 DEF Brings
    <3>. QED
      BY <1>7, <2>2, <3>1, <3>2, Zenon
  <2>7. sum < bsize
    BY <1>0, <1>2 DEF Packet
  <2>8. \A i \in 1..(n + 1) : MayFollow(next[i - 1], next[i])'
    <3>1. \A i \in 1..n : MayFollow(parts[i - 1], parts[i])'
      BY <1>2, <2>0 DEF MayFollow, Follows
    <3>2. MayFollow(parts[n], more)'
      BY <1>1, <1>2, <1>4, <2>0, <2>3, <2>7 DEF MayFollow, SentLast, Follows
    <3>3. next[n + 1] = more /\ next[n + 1 - 1] = parts[n]
      BY <1>7, <2>2
    <3>4. \A i \in 1..n : next[i] = parts[i] /\ next[i - 1] = parts[i - 1]
      BY <2>2
    <3>. QED
      BY <2>2, <3>1, <3>2, <3>3, <3>4
  <2>9. SentLast(more, m)'
    BY <1>0, <1>2, <1>3, <1>4, <2>0, <2>3 DEF SentLast, Follows
  <2>10. Chain(next, m)'
    <3>1. Len(air') = n + 1 /\ air' = queue /\ tx_tnext' = tx_tnext /\ next[n + 1] = more
      BY <1>0, <1>1, <1>7, <2>2
    <3>. QED
      BY <2>0, <2>4, <2>5, <2>6, <2>8, <2>9, <3>1 DEF Chain, Brings, MayFollow, SentLast, Follows
  <2>11. next[0] = parts[0]
    BY <1>7, <2>2
  <2>12. Received(next[0])'
    BY <1>0, <1>9, <2>11 DEF Received
  <2>. QED
    BY <2>10, <2>11, <2>12
<1>11. ASSUME NEW to \in Nat, NEW ends \in Nat, Linked(g, to, ends)
       PROVE  Linked(g, to, ends)'
  <2>1. PICK parts, m : /\ Chain(parts, m) /\ Received(parts[0])
                        /\ parts[0].to = to /\ parts[0].ends = ends
                        /\ m - parts[0].missed <= faults * g
    BY <1>11 DEF Linked
  <2>2. PICK next : (Chain(next, m) /\ Received(next[0]))' /\ next[0] = parts[0]
    BY <1>9, <2>1
  <2>3. m - next[0].missed <= faults' * g
    BY <1>0, <2>1, <2>2
  <2>. QED
    BY <2>1, <2>2, <2>3 DEF Linked
<1>. QED
  BY <1>0, <1>2, <1>6, <1>8, <1>11 DEF Keeps, TimesSound, TimesBase

(* What one packet less changes on the network.                              *)
LEMMA AirShortened ==
  ASSUME TimesBase, air # <<>>, NEW old, old = air, NEW queue, queue = Tail(air)
  PROVE  /\ \E S : queue \in Seq(S)
         /\ Len(air) \in Nat /\ Len(air) >= 1 /\ Len(queue) = Len(air) - 1
         /\ Head(air) = old[1]
         /\ \A i \in 1..(Len(air) - 1) : i + 1 \in 1..Len(air) /\ queue[i] = old[i + 1]
<1>1. PICK S : air \in Seq(S)
  BY DEF TimesBase, AirTimes
<1>2. Len(air) \in Nat /\ Len(air) >= 1
  BY <1>1
<1>3. queue \in Seq(S) /\ Len(queue) = Len(air) - 1 /\ \A i \in 1..Len(queue) : queue[i] = old[i + 1]
  BY <1>1, HeadTailProperties
<1>. QED
  BY <1>1, <1>2, <1>3

(* The packets left are as much in time as before.                           *)
LEMMA TimesOfTheRest ==
  ASSUME TimesBase, air # <<>>, air' = Tail(air), now' = now
  PROVE  AirTimes'
<1>1. PICK old, queue, n : old = air /\ queue = air' /\ n = Len(air)
  OBVIOUS
<1>2. /\ \E S : queue \in Seq(S)
      /\ n \in Nat /\ n >= 1 /\ Len(queue) = n - 1
      /\ \A i \in 1..(n - 1) : i + 1 \in 1..n /\ queue[i] = old[i + 1]
  BY <1>1, AirShortened
<1>3. /\ \A i \in 1..n : OnTime(old[i])
      /\ \A i, k \in 1..n : i <= k => old[i].due <= old[k].due
  BY <1>1 DEF TimesBase, AirTimes
<1>4. \A i \in 1..(n - 1) : OnTime(queue[i])'
  BY <1>1, <1>2, <1>3 DEF OnTime
<1>5. \A i, k \in 1..(n - 1) : i <= k => queue[i].due <= queue[k].due
  <2> SUFFICES ASSUME NEW i \in 1..(n - 1), NEW k \in 1..(n - 1), i <= k
               PROVE  queue[i].due <= queue[k].due
    OBVIOUS
  <2>1. i + 1 \in 1..n /\ k + 1 \in 1..n /\ queue[i] = old[i + 1] /\ queue[k] = old[k + 1]
    BY <1>2
  <2>2. i + 1 <= k + 1
    BY <1>2
  <2>3. old[i + 1].due <= old[k + 1].due
    BY <1>3, <2>1, <2>2
  <2>. QED
    BY <2>1, <2>3
<1>. QED
  BY <1>1, <1>2, <1>4, <1>5 DEF AirTimes, OnTime

(* A part that may come before what comes after another one.                    *)
StandsFor(p, q, m) ==
  /\ p \in Part /\ p.to <= p.ends /\ p.ends <= tx_tnext /\ p.missed <= m /\ MayFollow(p, q)
  /\ \A from, ends \in Nat, missed \in Int :
       from < ends /\ Follows(q, from, ends, missed) => Follows(p, from, ends, missed)
  /\ q.to = q.ends /\ tx_tnext - q.to <= m - q.missed =>
       p.to = p.ends /\ tx_tnext - p.to <= m - p.missed

(* The first packet leaves the network, and the part received last is p: that    *)
(* before, or the one in this packet.                                        *)
LEMMA ChainOfTheRest ==
  ASSUME TimesBase, NEW parts, NEW m, Chain(parts, m), air # <<>>, air' = Tail(air),
         UNCHANGED <<session, bsize, sum, tx_tnext>>,
         NEW p, NEW q, q = parts[1], StandsFor(p, q, m)
  PROVE  \E next : Chain(next, m)' /\ next[0] = p
<1>0. /\ p \in Part /\ p.to <= p.ends /\ p.ends <= tx_tnext /\ p.missed <= m /\ MayFollow(p, q)
      /\ \A from, ends \in Nat, missed \in Int :
           from < ends /\ Follows(q, from, ends, missed) => Follows(p, from, ends, missed)
      /\ q.to = q.ends /\ tx_tnext - q.to <= m - q.missed =>
           p.to = p.ends /\ tx_tnext - p.to <= m - p.missed
  BY DEF StandsFor
<1>. USE <1>0
<1>1. PICK old, queue, n : old = air /\ queue = air' /\ n = Len(air)
  OBVIOUS
<1>2. /\ n \in Nat /\ n >= 1 /\ Len(queue) = n - 1
      /\ \A i \in 1..(n - 1) : i + 1 \in 1..n /\ queue[i] = old[i + 1]
  BY <1>1, AirShortened
<1>3. /\ parts \in [0..n -> Part] /\ m \in Int
      /\ \A i \in 0..n :
           parts[i].to <= parts[i].ends /\ parts[i].ends <= tx_tnext /\ parts[i].missed <= m
      /\ \A i \in 1..n : Brings(old[i], parts[i])
      /\ \A i \in 1..n : MayFollow(parts[i - 1], parts[i])
      /\ SentLast(parts[n], m)
  BY <1>1 DEF Chain
<1>4. \A i \in 0..n : /\ parts[i].from \in Nat /\ parts[i].to \in Nat /\ parts[i].ends \in Nat
                      /\ parts[i].missed \in Int
  BY <1>1, PartNumbers
<1>5. PICK next : next = [i \in 0..(n - 1) |-> IF i = 0 THEN p ELSE parts[i + 1]]
  OBVIOUS
<1>6. next[0] = p /\ \A i \in 1..(n - 1) : next[i] = parts[i + 1] /\ i + 1 \in 1..n /\ i + 1 \in 0..n
  BY <1>2, <1>5
<1>7. next \in [0..(n - 1) -> Part]
  BY <1>2, <1>3, <1>5
<1>8. \A i \in 0..(n - 1) :
        next[i].to <= next[i].ends /\ next[i].ends <= tx_tnext /\ next[i].missed <= m
  <2>1. \A i \in 0..(n - 1) : i = 0 \/ i \in 1..(n - 1)
    BY <1>2
  <2>. QED
    BY <1>3, <1>6, <2>1, Zenon
<1>9. \A i \in 1..(n - 1) : Brings(queue[i], next[i])
  BY <1>2, <1>3, <1>6
<1>10. \A i \in 1..n : parts[i].from < parts[i].ends
  <2> SUFFICES ASSUME NEW i \in 1..n PROVE parts[i].from < parts[i].ends
    OBVIOUS
  <2>1. i \in 0..n
    BY <1>2
  <2>2. parts[i].from < parts[i].to
    BY <1>3 DEF Brings
  <2>. QED
    BY <1>3, <1>4, <2>1, <2>2
<1>11. ASSUME NEW i \in 1..(n - 1)
       PROVE  MayFollow(next[i - 1], next[i])
  <2>1. /\ MayFollow(parts[i], parts[i + 1]) /\ next[i] = parts[i + 1]
        /\ parts[i + 1].from \in Nat /\ parts[i + 1].ends \in Nat /\ parts[i + 1].missed \in Int
        /\ parts[i + 1].from < parts[i + 1].ends
    <3>1. i + 1 \in 1..n /\ i + 1 \in 0..n /\ i + 1 - 1 = i
      BY <1>2
    <3>. QED
      BY <1>3, <1>4, <1>6, <1>10, <3>1
  <2>2. CASE i = 1
    <3>1. next[i - 1] = p /\ parts[i] = q
      BY <1>6, <2>2
    <3>2. CASE parts[i + 1] = q
      BY <2>1, <3>1, <3>2
    <3>3. CASE Follows(q, parts[i + 1].from, parts[i + 1].ends, parts[i + 1].missed)
      <4>1. Follows(p, parts[i + 1].from, parts[i + 1].ends, parts[i + 1].missed)
        BY <2>1, <3>3
      <4>. QED
        BY <2>1, <3>1, <4>1 DEF MayFollow
    <3>. QED
      BY <2>1, <3>1, <3>2, <3>3 DEF MayFollow
  <2>3. CASE i # 1
    <3>1. i - 1 \in 1..(n - 1) /\ i - 1 + 1 = i
      BY <1>2, <2>3
    <3>2. next[i - 1] = parts[i]
      BY <1>6, <3>1
    <3>. QED
      BY <2>1, <3>2
  <2>. QED
    BY <2>2, <2>3
<1>12. SentLast(next[n - 1], m)
  <2>1. CASE n = 1
    <3>1. next[n - 1] = p /\ parts[n] = q
      BY <1>6, <2>1
    <3>2. sum < bsize => Upcoming \in Nat /\ tx_tnext \in Nat /\ Upcoming < tx_tnext
      <4>1. bsize \in Nat \ {0} /\ sum \in 0..bsize /\ tx_tnext \in Nat /\ bsize <= tx_tnext
        BY SumStaysWithin DEF TimesBase, SenderTimes, SumWithin
      <4>. QED
        BY <4>1 DEF Upcoming
    <3>. QED
      BY <1>3, <3>1, <3>2 DEF SentLast
  <2>2. CASE n # 1
    <3>1. n - 1 \in 1..(n - 1) /\ n - 1 + 1 = n
      BY <1>2, <2>2
    <3>2. next[n - 1] = parts[n]
      BY <1>6, <3>1
    <3>. QED
      BY <1>3, <3>2
  <2>. QED
    BY <2>1, <2>2
<1>13. Chain(next, m)'
  <2>1. Len(air') = n - 1 /\ air' = queue /\ tx_tnext' = tx_tnext /\ bsize' = bsize
        /\ sum' = sum /\ session' = session
    BY <1>1, <1>2
  <2>2. \A i \in 1..(n - 1) : Brings(queue[i], next[i])'
    BY <1>9, <2>1 DEF Brings
  <2>3. \A i \in 1..(n - 1) : MayFollow(next[i - 1], next[i])'
    BY <1>11, <2>1 DEF MayFollow, Follows
  <2>4. SentLast(next[n - 1], m)'
    BY <1>12, <2>1 DEF SentLast, Follows, Upcoming
  <2>5. m \in Int
    BY <1>3
  <2>6. (\A i \in 1..Len(air) : Brings(air[i], next[i]))'
    BY <2>1, <2>2 DEF Brings
  <2>7. (\A i \in 1..Len(air) : MayFollow(next[i - 1], next[i]))'
    BY <2>1, <2>3 DEF MayFollow, Follows
  <2>8. SentLast(next[Len(air)], m)'
    BY <2>1, <2>4 DEF SentLast, Follows, Upcoming
  <2>9. (next \in [0..Len(air) -> Part])' /\ (\A i \in 0..Len(air) :
          next[i].to <= next[i].ends /\ next[i].ends <= tx_tnext /\ next[i].missed <= m)'
    BY <1>7, <1>8, <2>1
  <2>. QED
    BY <2>5, <2>6, <2>7, <2>8, <2>9 DEF Chain
<1>. QED
  BY <1>6, <1>13

(* A period lost whole is missing, and the part before it is still the last  *)
(* one received; a part of a period lost would shake the receiver.           *)
LEMMA LoseTimes ==
  ASSUME NEW g, Tolerates(g), TimesSound(g), Lose
  PROVE  Keeps(g)
<1>0. /\ air # <<>> /\ air' = Tail(air) /\ faults < MaxFaults /\ faults' = faults + 1
      /\ shaken' = (shaken \/ Head(air).packet.nfram # bsize)
      /\ UNCHANGED <<session, now, vars, txvars, first, t0, err, nwr>>
  BY DEF Lose, rxvars
<1>1. Sound'
  BY <1>0 DEF TimesSound, TimesBase, Sound, SplitFits, vars, npack, bstep
<1>2. SenderTimes'
  BY <1>0 DEF TimesSound, TimesBase, SenderTimes, Upcoming, vars, txvars
<1>3. AirTimes'
  BY <1>0, TimesOfTheRest DEF TimesSound
<1>4. /\ g \in Nat /\ bsize \in Nat \ {0} /\ bsize <= g
      /\ faults' \in Nat /\ faults' <= MaxFaults
      /\ faults * g \in Nat /\ faults' * g = faults * g + g
  <2>1. bsize \in Nat \ {0} /\ session \in Sessions /\ bsize = session.tx_fsize
    BY SumStaysWithin DEF TimesSound, TimesBase, SumWithin, SenderTimes
  <2>2. g \in Nat /\ bsize <= g
    BY <2>1 DEF Tolerates
  <2>. QED
    BY <1>0, <2>1, <2>2, FaultsCount DEF TimesSound
<1>5. ASSUME NEW parts, NEW m, Chain(parts, m), Received(parts[0]), Head(air).packet.nfram = bsize,
             m - parts[0].missed <= faults * g
      PROVE  \E next : /\ (Chain(next, m) /\ Received(next[0]) /\ m - next[0].missed <= faults * g)'
                       /\ next[0].to = parts[0].to /\ next[0].ends = parts[0].ends
  <2>1. PICK p, q : p = parts[0] /\ q = parts[1]
    OBVIOUS
  <2>2. Len(air) \in Nat /\ 0 \in 0..Len(air) /\ 1 \in 0..Len(air) /\ 1 \in 1..Len(air) /\ Head(air) = air[1]
    BY <1>0, AirShortened DEF TimesSound
  <2>3. /\ p \in Part /\ p.from \in Nat /\ p.to \in Nat /\ p.ends \in Nat /\ p.missed \in Int
        /\ q.from \in Nat /\ q.to \in Nat /\ q.ends \in Nat /\ q.missed \in Int /\ m \in Int
    BY <1>5, <2>1, <2>2, PartNumbers DEF TimesSound
  <2>4. p.to <= p.ends /\ p.ends <= tx_tnext /\ p.missed <= m /\ q.to <= q.ends
    BY <1>5, <2>1, <2>2 DEF Chain
  <2>5. q = p \/ Follows(p, q.from, q.ends, q.missed)
    <3>1. 1 - 1 = 0
      OBVIOUS
    <3>. QED
      BY <1>5, <2>1, <2>2, <3>1 DEF Chain, MayFollow
  <2>6. q.from = q.ends - bsize /\ q.to = q.ends
    <3>1. bsize = q.to - q.from /\ q.ends - bsize <= q.from
      BY <1>5, <2>1, <2>2 DEF Chain, Brings
    <3>2. bsize \in Nat /\ q.from \in Nat /\ q.to \in Nat /\ q.ends \in Nat /\ q.to <= q.ends
      BY <1>4, <2>3, <2>4
    <3>. QED
      BY <3>1, <3>2
  <2>7. UNCHANGED <<session, bsize, sum, tx_tnext>>
    BY <1>0 DEF vars, txvars
  <2>8. CASE q = p
    <3>1. \E next : Chain(next, m)' /\ next[0] = p
      <4>1. MayFollow(p, q)
        BY <2>8 DEF MayFollow
      <4>2. \A from, ends \in Nat, missed \in Int :
              from < ends /\ Follows(q, from, ends, missed) => Follows(p, from, ends, missed)
        BY <2>8
      <4>3. q.to = q.ends /\ tx_tnext - q.to <= m - q.missed =>
              p.to = p.ends /\ tx_tnext - p.to <= m - p.missed
        BY <2>8
      <4>4. StandsFor(p, q, m)
        BY <2>3, <2>4, <4>1, <4>2, <4>3 DEF StandsFor
      <4>5. TimesBase /\ air # <<>> /\ air' = Tail(air) /\ Chain(parts, m) /\ q = parts[1]
        BY <1>0, <1>5, <2>1 DEF TimesSound
      <4>. QED
        BY <2>7, <4>4, <4>5, ChainOfTheRest
    <3>2. Received(p)'
      BY <1>0, <1>5, <2>1 DEF Received
    <3>3. m - p.missed <= faults' * g
      BY <1>4, <1>5, <2>1, <2>3
    <3>. QED
      BY <2>1, <3>1, <3>2, <3>3
  <2>9. CASE Follows(p, q.from, q.ends, q.missed)
    <3>1. PICK r : r = [from |-> p.from, to |-> p.to, ends |-> p.ends, missed |-> p.missed - bsize]
      OBVIOUS
    <3>2. /\ r \in Part /\ r.from = p.from /\ r.to = p.to /\ r.ends = p.ends
          /\ r.missed = p.missed - bsize /\ r.missed \in Int /\ r.missed <= m
      BY <1>4, <2>3, <2>4, <3>1 DEF Part
    <3>3. q.from - p.to <= q.missed - p.missed /\ p.to = p.ends /\ p.to <= q.from
      BY <2>6, <2>9 DEF Follows
    <3>4. MayFollow(r, q)
      <4>1. q.from - r.to <= q.missed - r.missed
        BY <1>4, <2>3, <3>2, <3>3
      <4>. QED
        BY <2>6, <3>2, <3>3, <4>1 DEF MayFollow, Follows
    <3>5. ASSUME NEW from \in Nat, NEW ends \in Nat, NEW missed \in Int,
                 from < ends, Follows(q, from, ends, missed)
          PROVE  Follows(r, from, ends, missed)
      <4>1. from = ends - bsize /\ q.to <= from /\ from - q.to <= missed - q.missed
        BY <2>6, <3>5 DEF Follows
      <4>2. from - r.to <= missed - r.missed /\ r.to <= from
        BY <1>4, <2>3, <2>6, <3>2, <3>3, <4>1
      <4>. QED
        BY <3>2, <3>3, <4>1, <4>2 DEF Follows
    <3>6. tx_tnext - q.to <= m - q.missed => tx_tnext - r.to <= m - r.missed
      <4>1. tx_tnext \in Nat
        BY DEF TimesSound, TimesBase, SenderTimes
      <4>. QED
        BY <1>4, <2>3, <2>6, <3>2, <3>3, <4>1
    <3>7. \E next : Chain(next, m)' /\ next[0] = r
      <4>1. StandsFor(r, q, m)
        BY <2>4, <2>6, <3>2, <3>3, <3>4, <3>5, <3>6 DEF StandsFor
      <4>. QED
        BY <1>0, <1>5, <2>1, <2>7, <4>1, ChainOfTheRest DEF TimesSound
    <3>8. Received(r)'
      BY <1>0, <1>5, <2>1, <3>2 DEF Received
    <3>9. m - r.missed <= faults' * g
      BY <1>4, <1>5, <2>1, <2>3, <3>2
    <3>. QED
      BY <2>1, <3>2, <3>7, <3>8, <3>9
  <2>. QED
    BY <2>5, <2>8, <2>9
<1>6. ASSUME ~shaken', NEW to \in Nat, NEW ends \in Nat, Linked(g, to, ends)
      PROVE  Linked(g, to, ends)'
  <2>1. Head(air).packet.nfram = bsize
    BY <1>0, <1>6
  <2>2. PICK parts, m : /\ Chain(parts, m) /\ Received(parts[0])
                        /\ parts[0].to = to /\ parts[0].ends = ends
                        /\ m - parts[0].missed <= faults * g
    BY <1>6 DEF Linked
  <2>3. \E next : /\ (Chain(next, m) /\ Received(next[0]) /\ m - next[0].missed <= faults * g)'
                  /\ next[0].to = parts[0].to /\ next[0].ends = parts[0].ends
    BY <1>5, <2>1, <2>2
  <2>. QED
    BY <2>2, <2>3 DEF Linked
<1>. QED
  BY <1>0, <1>1, <1>2, <1>3, <1>4, <1>6 DEF Keeps, TimesSound, TimesBase

(* What a repeated packet changes on the network.                            *)
LEMMA AirRepeated ==
  ASSUME TimesBase, air # <<>>, NEW old, old = air, NEW queue, queue = <<Head(air)>> \o air
  PROVE  /\ \E S : queue \in Seq(S)
         /\ Len(air) \in Nat /\ Len(air) >= 1 /\ Len(queue) = Len(air) + 1
         /\ queue[1] = old[1]
         /\ \A i \in 2..(Len(air) + 1) : i - 1 \in 1..Len(air) /\ queue[i] = old[i - 1]
<1>1. PICK S : air \in Seq(S)
  BY DEF TimesBase, AirTimes
<1>2. Len(air) \in Nat /\ Len(air) >= 1 /\ Head(air) \in S /\ Head(air) = old[1]
  BY <1>1
<1>3. <<Head(air)>> \in Seq(S) /\ Len(<<Head(air)>>) = 1 /\ <<Head(air)>>[1] = old[1]
  BY <1>2
<1>4. /\ queue \in Seq(S) /\ Len(queue) = 1 + Len(air)
      /\ \A i \in 1..(1 + Len(air)) :
           queue[i] = IF i <= 1 THEN <<Head(air)>>[i] ELSE old[i - 1]
  BY <1>1, <1>3, ConcatProperties
<1>. QED
  BY <1>2, <1>3, <1>4

(* A repeated packet brings the same part again.                             *)
LEMMA RepeatTimes ==
  ASSUME NEW g \in Nat, TimesSound(g), Repeat
  PROVE  Keeps(g)
<1>0. /\ air # <<>> /\ air' = <<Head(air)>> \o air /\ faults < MaxFaults /\ faults' = faults + 1
      /\ UNCHANGED <<session, now, vars, txvars, first, t0, err, nwr, shaken>>
  BY DEF Repeat, rxvars
<1>1. Sound'
  BY <1>0 DEF TimesSound, TimesBase, Sound, SplitFits, vars, npack, bstep
<1>2. SenderTimes'
  BY <1>0 DEF TimesSound, TimesBase, SenderTimes, Upcoming, vars, txvars
<1>3. PICK old, queue, n : old = air /\ queue = air' /\ n = Len(air)
  OBVIOUS
<1>4. /\ \E S : queue \in Seq(S)
      /\ n \in Nat /\ n >= 1 /\ Len(queue) = n + 1 /\ queue[1] = old[1]
      /\ \A i \in 2..(n + 1) : i - 1 \in 1..n /\ queue[i] = old[i - 1]
  BY <1>0, <1>3, AirRepeated DEF TimesSound
<1>5. \A i \in 1..(n + 1) : i = 1 \/ i \in 2..(n + 1)
  BY <1>4
<1>6. AirTimes'
  <2>1. /\ \A i \in 1..n : OnTime(old[i])
        /\ \A i, k \in 1..n : i <= k => old[i].due <= old[k].due
    BY <1>3 DEF TimesSound, TimesBase, AirTimes
  <2>2. \A i \in 1..(n + 1) : OnTime(queue[i])
    BY <1>4, <1>5, <2>1
  <2>3. \A i, k \in 1..(n + 1) : i <= k => queue[i].due <= queue[k].due
    <3> SUFFICES ASSUME NEW i \in 1..(n + 1), NEW k \in 1..(n + 1), i <= k
                 PROVE  queue[i].due <= queue[k].due
      OBVIOUS
    <3>1. CASE i = 1 /\ k = 1
      <4>1. 1 \in 1..n /\ queue[i] = old[1] /\ queue[k] = old[1]
        BY <1>4, <3>1
      <4>. QED
        BY <2>1, <4>1
    <3>2. CASE i = 1 /\ k \in 2..(n + 1)
      <4>1. 1 \in 1..n /\ k - 1 \in 1..n /\ 1 <= k - 1 /\ queue[i] = old[1] /\ queue[k] = old[k - 1]
        BY <1>4, <3>2
      <4>. QED
        BY <2>1, <4>1
    <3>3. CASE i \in 2..(n + 1) /\ k \in 2..(n + 1)
      <4>1. /\ i - 1 \in 1..n /\ k - 1 \in 1..n /\ i - 1 <= k - 1
            /\ queue[i] = old[i - 1] /\ queue[k] = old[k - 1]
        BY <1>4, <3>3
      <4>. QED
        BY <2>1, <4>1
    <3>4. \/ i = 1 /\ k = 1
          \/ i = 1 /\ k \in 2..(n + 1)
          \/ i \in 2..(n + 1) /\ k \in 2..(n + 1)
      BY <1>4
    <3>. QED
      BY <3>1, <3>2, <3>3, <3>4
  <2>4. \A i \in 1..(n + 1) : OnTime(queue[i])'
    BY <1>0, <2>2 DEF OnTime
  <2>. QED
    BY <1>3, <1>4, <2>3, <2>4 DEF AirTimes, OnTime
<1>7. /\ faults' \in Nat /\ faults' <= MaxFaults
      /\ faults * g \in Nat /\ faults' * g = faults * g + g
  BY <1>0, FaultsCount DEF TimesSound
<1>8. ASSUME NEW parts, NEW m, Chain(parts, m), Received(parts[0]),
             m - parts[0].missed <= faults * g
      PROVE  \E next : /\ (Chain(next, m) /\ Received(next[0]) /\ m - next[0].missed <= faults * g)'
                       /\ next[0] = parts[0]
  <2>1. /\ parts \in [0..n -> Part] /\ m \in Int
        /\ \A i \in 0..n :
             parts[i].to <= parts[i].ends /\ parts[i].ends <= tx_tnext /\ parts[i].missed <= m
        /\ \A i \in 1..n : Brings(old[i], parts[i])
        /\ \A i \in 1..n : MayFollow(parts[i - 1], parts[i])
        /\ SentLast(parts[n], m)
    BY <1>3, <1>8 DEF Chain
  <2>2. PICK next : next = [i \in 0..(n + 1) |-> IF i <= 1 THEN parts[i] ELSE parts[i - 1]]
    OBVIOUS
  <2>3. /\ next[0] = parts[0] /\ next[1] = parts[1]
        /\ \A i \in 2..(n + 1) : next[i] = parts[i - 1] /\ i - 1 \in 0..n
        /\ \A i \in 0..(n + 1) : i = 0 \/ i = 1 \/ i \in 2..(n + 1)
        /\ 0 \in 0..n /\ 1 \in 0..n /\ 1 \in 1..n
    BY <1>4, <2>2
  <2>4. next \in [0..(n + 1) -> Part]
    <3>1. \A i \in 0..(n + 1) : next[i] \in Part
      BY <2>1, <2>3, Zenon
    <3>. QED
      BY <2>2, <3>1
  <2>5. \A i \in 0..(n + 1) :
          next[i].to <= next[i].ends /\ next[i].ends <= tx_tnext /\ next[i].missed <= m
    BY <2>1, <2>3, Zenon
  <2>6. \A i \in 1..(n + 1) : Brings(queue[i], next[i])
    BY <1>4, <1>5, <2>1, <2>3, Zenon
  <2>7. ASSUME NEW i \in 1..(n + 1)
        PROVE  MayFollow(next[i - 1], next[i])
    <3>1. CASE i = 1
      <4>1. 1 - 1 = 0
        OBVIOUS
      <4>. QED
        BY <2>1, <2>3, <3>1, <4>1
    <3>2. CASE i = 2
      <4>1. i \in 2..(n + 1) /\ i - 1 = 1
        BY <3>2
      <4>2. next[i] = parts[i - 1]
        BY <2>3, <4>1
      <4>. QED
        BY <2>3, <4>1, <4>2 DEF MayFollow
    <3>3. CASE i \in 3..(n + 1)
      <4>1. i \in 2..(n + 1) /\ i - 1 \in 2..(n + 1) /\ i - 1 \in 1..n
        BY <1>4, <3>3
      <4>2. next[i] = parts[i - 1] /\ next[i - 1] = parts[i - 1 - 1]
        BY <2>3, <4>1
      <4>. QED
        BY <2>1, <4>1, <4>2
    <3>4. i = 1 \/ i = 2 \/ i \in 3..(n + 1)
      BY <1>4
    <3>. QED
      BY <3>1, <3>2, <3>3, <3>4
  <2>8. next[n + 1] = parts[n]
    BY <1>4, <2>3
  <2>9. Chain(next, m)'
    <3>1. Len(air') = n + 1 /\ air' = queue /\ tx_tnext' = tx_tnext /\ bsize' = bsize
          /\ sum' = sum /\ session' = session
      BY <1>0, <1>3, <1>4 DEF vars, txvars
    <3>2. (\A i \in 1..Len(air) : Brings(air[i], next[i]))'
      BY <2>6, <3>1 DEF Brings
    <3>3. (\A i \in 1..Len(air) : MayFollow(next[i - 1], next[i]))'
      BY <2>7, <3>1 DEF MayFollow, Follows
    <3>4. SentLast(next[Len(air)], m)'
      BY <2>1, <2>8, <3>1 DEF SentLast, Follows, Upcoming
    <3>5. (next \in [0..Len(air) -> Part])' /\ (\A i \in 0..Len(air) :
            next[i].to <= next[i].ends /\ next[i].ends <= tx_tnext /\ next[i].missed <= m)'
      BY <2>4, <2>5, <3>1
    <3>6. m \in Int
      BY <2>1
    <3>. QED
      BY <3>2, <3>3, <3>4, <3>5, <3>6 DEF Chain
  <2>10. Received(next[0])'
    BY <1>0, <1>8, <2>3 DEF Received
  <2>11. m - next[0].missed <= faults' * g
    <3>1. m \in Int /\ parts[0].missed \in Int
      BY <1>8, PartNumbers DEF TimesSound
    <3>. QED
      BY <1>8, <1>7, <2>3, <3>1
  <2>. QED
    BY <2>3, <2>9, <2>10, <2>11
<1>9. ASSUME NEW to \in Nat, NEW ends \in Nat, Linked(g, to, ends)
      PROVE  Linked(g, to, ends)'
  <2>1. PICK parts, m : /\ Chain(parts, m) /\ Received(parts[0])
                        /\ parts[0].to = to /\ parts[0].ends = ends
                        /\ m - parts[0].missed <= faults * g
    BY <1>9 DEF Linked
  <2>. QED
    BY <1>8, <2>1 DEF Linked
<1>. QED
  BY <1>0, <1>1, <1>2, <1>6, <1>7, <1>9 DEF Keeps, TimesSound, TimesBase

(* The clock of the times, and differences of them, on the circle.           *)
LEMMA ClockAgrees ==
  ASSUME session \in Sessions, NEW t \in Nat
  PROVE  tjack(t) \in Int /\ tjack(t) % Clock = (session.clock + t) % Clock
<1>1. Clock \in Nat \ {0} /\ session.clock + t \in Int
  BY SessionNumbers
<1>. QED
  BY <1>1, OnCircleSame, Zenon DEF tjack

LEMMA DiffAgrees ==
  ASSUME NEW x \in Int, NEW y \in Int
  PROVE  tjack_diff(x, y) \in Int /\ tjack_diff(x, y) % Clock = (x - y) % Clock
<1>1. Clock \in Nat \ {0} /\ x - y \in Int
  BY PathParams
<1>. QED
  BY <1>1, OnCircleSame, Zenon DEF tjack_diff

(* A correction is of the error's sign and no larger.                        *)
LEMMA CorrectionsSmall ==
  ASSUME NEW x \in Int, NEW c \in Corrections(x)
  PROVE  /\ c \in Int
         /\ (x >= 0 => 0 <= c /\ c <= x)
         /\ (x < 0 => x <= c /\ c <= 0)
  BY DEF Corrections

(* Numbers of the same place on a circle.                                     *)
Agree(a, b, size) == a % size = b % size

(* Moved by the same, they have the same place again.                           *)
LEMMA AgreeMoved ==
  ASSUME NEW size \in Nat \ {0}, NEW a \in Int, NEW b \in Int, Agree(a, b, size), NEW k \in Int
  PROVE  Agree(a + k, b + k, size) /\ Agree(k - a, k - b, size) /\ Agree(a - k, b - k, size)
<1>1. a % size = b % size
  BY DEF Agree
<1>2. ASSUME NEW n \in Int
      PROVE  (a + n) % size = (b + n) % size /\ (n - a) % size = (n - b) % size
  BY <1>1, SameSums, SameDifferences
<1>3. PICK n : n = -k
  OBVIOUS
<1>4. n \in Int /\ a + n = a - k /\ b + n = b - k
  BY <1>3
<1>5. (a + n) % size = (b + n) % size
  BY <1>2, <1>4, Zenon
<1>6. (a + k) % size = (b + k) % size /\ (k - a) % size = (k - b) % size
  BY <1>2, Zenon
<1>. QED
  BY <1>4, <1>5, <1>6 DEF Agree

(* Their differences and sums have the same place too.                       *)
LEMMA AgreeDifference ==
  ASSUME NEW size \in Nat \ {0}, NEW a \in Int, NEW b \in Int, NEW u \in Int, NEW v \in Int,
         Agree(a, u, size), Agree(b, v, size)
  PROVE  Agree(a - b, u - v, size) /\ Agree(a + b, u + v, size)
<1>1. Agree(a - b, a - v, size) /\ Agree(a - v, u - v, size)
  BY AgreeMoved
<1>2. Agree(b + a, v + a, size) /\ Agree(a + v, u + v, size)
  BY AgreeMoved
<1>3. b + a = a + b /\ v + a = a + v
  OBVIOUS
<1>. QED
  BY <1>1, <1>2, <1>3 DEF Agree

(* A difference is exact if it is less than half the circle.                     *)
LEMMA CircleExact ==
  ASSUME NEW size \in Nat \ {0}, size % 2 = 0,
         NEW a \in Int, NEW b \in Int, NEW u \in Int, NEW v \in Int,
         Agree(a, u, size), Agree(b, v, size),
         -size < 2 * (u - v), 2 * (u - v) < size
  PROVE  OnCircle(a - b, size) = u - v
<1>1. PICK n, d : n = a - b /\ d = u - v
  OBVIOUS
<1>2. n \in Int /\ d \in Int /\ -size < 2 * d /\ 2 * d < size
  BY <1>1
<1>3. Agree(n, d, size)
  BY <1>1, AgreeDifference
<1>4. n % size = d % size
  BY <1>3 DEF Agree
<1>5. OnCircle(n, size) = d
  BY <1>2, <1>4, OnCircleExact, Zenon
<1>. QED
  BY <1>1, <1>5

(* How far apart the counters are is how far apart the frames are.            *)
LEMMA GapExact ==
  ASSUME session \in Sessions,
         NEW x \in Nat, NEW y \in Nat, NEW a \in Nat, NEW b \in Nat,
         -W < 2 * (x - y), 2 * (x - y) < W,
         a % W = (session.count + x) % W, b % W = (session.count + y) % W
  PROVE  Signed(a - b) = x - y
<1>1. W \in Nat \ {0} /\ W % 2 = 0 /\ session.count \in Nat
  BY SessionNumbers
<1>2. PICK u, v : u = session.count + x /\ v = session.count + y
  OBVIOUS
<1>3. u \in Int /\ v \in Int /\ a \in Int /\ b \in Int /\ u - v = x - y
      /\ -W < 2 * (u - v) /\ 2 * (u - v) < W
  <2>1. u \in Int /\ v \in Int /\ u - v = x - y
    BY <1>1, <1>2
  <2>. QED
    BY <2>1
<1>4. Agree(a, u, W) /\ Agree(b, v, W)
  BY <1>2 DEF Agree
<1>5. OnCircle(a - b, W) = u - v
  BY <1>1, <1>3, <1>4, CircleExact
<1>. QED
  BY <1>3, <1>5 DEF Signed

(* A packet with a period's time tells when the period was due, up to the       *)
(* jitter of the network.                                                    *)
LEMMA TimeOfArrival ==
  ASSUME TimesBase, NEW a, OnTime(a), Timed(a.packet), a.frame \in Nat
  PROVE  /\ tjack(now) - a.packet.dtime \in Int
         /\ \E late \in 0..Jitter :
              (tjack(now) - a.packet.dtime) % Clock = (session.clock + a.frame + late) % Clock
<1>1. PICK late : late = (now - a.packet.dtime) - a.frame
  OBVIOUS
<1>2. /\ session \in Sessions /\ now \in Nat /\ session.clock \in Nat /\ Jitter \in Nat
      /\ Clock \in Nat \ {0} /\ a.packet.dtime \in Nat
  BY SessionNumbers DEF TimesBase, SenderTimes, OnTime
<1>3. late \in 0..Jitter
  BY <1>1, <1>2 DEF OnTime
<1>. DEFINE x == tjack(now)
            y == session.clock + now
            k == -a.packet.dtime
<1>4. x \in Int /\ y \in Int /\ k \in Int /\ Clock \in Nat \ {0}
  BY <1>2, ClockAgrees
<1>5. x % Clock = y % Clock
  BY <1>2, ClockAgrees
<1>6. x - a.packet.dtime = x + k
  <2>. HIDE DEF x
  <2>. QED
    BY <1>2, <1>4
<1>7. y + k = session.clock + a.frame + late
  BY <1>1, <1>2
<1>. HIDE DEF x, y, k
<1>8. (x + k) % Clock = (y + k) % Clock
  <2>1. Agree(x, y, Clock)
    BY <1>4, <1>5 DEF Agree
  <2>2. Agree(x + k, y + k, Clock)
    BY <1>4, <1>5, <2>1, AgreeMoved
  <2>. QED
    BY <2>2 DEF Agree
<1>9. x + k \in Int
  BY <1>4
<1>. QED
  BY <1>3, <1>6, <1>7, <1>8, <1>9, Zenon DEF x

(* The next period is due a period later.                                    *)
LEMMA TimeOfNext ==
  ASSUME TimesBase, NEW from \in Nat, NEW ends \in Nat, from = ends - bsize, NEW late \in Int,
         NEW time \in Int, time % Clock = (session.clock + from + late) % Clock
  PROVE  /\ tjack_diff(time, -bsize) \in Int
         /\ tjack_diff(time, -bsize) % Clock = (session.clock + ends + late) % Clock
<1>1. bsize \in Nat /\ session.clock \in Nat /\ Clock \in Nat \ {0}
  BY SessionNumbers, SumStaysWithin DEF TimesBase, SenderTimes, SumWithin
<1>2. PICK y : y = session.clock + from + late /\ y \in Int /\ time % Clock = y % Clock
  BY <1>1
<1>3. (time + bsize) % Clock = (y + bsize) % Clock
  <2>1. Agree(time, y, Clock)
    BY <1>2 DEF Agree
  <2>2. Agree(time + bsize, y + bsize, Clock)
    BY <1>1, <1>2, <2>1, AgreeMoved
  <2>. QED
    BY <2>2 DEF Agree
<1>4. y + bsize = session.clock + ends + late /\ time - (-bsize) = time + bsize /\ -bsize \in Int
  BY <1>1, <1>2
<1>5. /\ tjack_diff(time, -bsize) \in Int
      /\ tjack_diff(time, -bsize) % Clock = (time - (-bsize)) % Clock
  BY <1>4, DiffAgrees, Zenon
<1>. QED
  BY <1>3, <1>4, <1>5, Zenon

(* The error of a prediction is the difference of what two packets were late.    *)
LEMMA ErrorExact ==
  ASSUME 2 * Jitter < Clock, NEW begin \in Int, NEW late \in 0..Jitter, NEW later \in 0..Jitter,
         NEW x \in Int, x % Clock = (begin + later) % Clock,
         NEW y \in Int, y % Clock = (begin + late) % Clock
  PROVE  tjack_diff(x, y) = later - late
<1>1. Clock \in Nat \ {0} /\ Clock % 2 = 0 /\ Jitter \in Nat
  BY PathParams
<1>2. PICK u, v : u = begin + later /\ v = begin + late
  OBVIOUS
<1>3. u \in Int /\ v \in Int /\ u - v = later - late
      /\ -Clock < 2 * (u - v) /\ 2 * (u - v) < Clock
  <2>1. u \in Int /\ v \in Int /\ u - v = later - late
    BY <1>1, <1>2
  <2>2. PICK d : d = u - v
    OBVIOUS
  <2>3. d \in Int /\ -Jitter <= d /\ d <= Jitter
    BY <1>1, <2>1, <2>2
  <2>4. -Clock < 2 * d /\ 2 * d < Clock
    BY <1>1, <2>3
  <2>. QED
    BY <2>1, <2>2, <2>4
<1>4. Agree(x, u, Clock) /\ Agree(y, v, Clock)
  BY <1>2 DEF Agree
<1>5. OnCircle(x - y, Clock) = u - v
  BY <1>1, <1>3, <1>4, CircleExact, SMTT(30)
<1>. QED
  BY <1>3, <1>5 DEF tjack_diff

(* The five things Netrx::thr_main may do with a packet.                     *)
LEMMA ReceiveCases ==
  ASSUME Receive, NEW a, a = Head(air), NEW dc, dc = Signed(a.packet.count - nwr),
         NEW tr, tr = tjack(now) - a.packet.dtime, NEW e, e = tjack_diff(tr, t0 + dc)
  PROVE  /\ air # <<>> /\ air' = Tail(air)
         /\ UNCHANGED <<session, now, vars, txvars, shaken>>
         /\ \/ /\ first /\ ~Timed(a.packet)
               /\ UNCHANGED <<rxvars, timeq>>
            \/ /\ first /\ Timed(a.packet) /\ Take(a.packet, a.packet.count, 0, tr)
               /\ ~first' /\ nwr' = (a.packet.count + 0 + a.packet.nfram) % W
               /\ t0' = tjack_diff(tr, -bsize) /\ err' = err /\ since' = a.frame
            \/ /\ ~first /\ dc < 0
               /\ UNCHANGED <<rxvars, timeq>>
            \/ /\ ~first /\ dc >= 0 /\ Timed(a.packet)
               /\ ~first' /\ nwr' = (nwr + dc + a.packet.nfram) % W
               /\ err' = IF e > bsize THEN bsize ELSE IF e < -bsize THEN -bsize ELSE e
               /\ \E c \in Corrections(err') : /\ Take(a.packet, nwr, dc, t0 + dc + c)
                                               /\ t0' = tjack_diff(t0 + dc + c, -bsize)
               /\ since' = since
            \/ /\ ~first /\ dc >= 0 /\ ~Timed(a.packet)
               /\ ~first' /\ nwr' = (nwr + dc + a.packet.nfram) % W
               /\ Take(a.packet, nwr, dc, t0 + dc + 0)
               /\ err' = err /\ t0' = t0 + dc + 0 /\ since' = since
<1>1. /\ air # <<>> /\ air' = Tail(air)
      /\ UNCHANGED <<session, now, vars, txvars, shaken>>
  BY DEF Receive
<1>2. \/ /\ first /\ ~Timed(a.packet)
         /\ UNCHANGED <<rxvars, timeq>>
      \/ /\ first /\ Timed(a.packet)
         /\ first' = FALSE /\ Take(a.packet, a.packet.count, 0, tr)
         /\ UNCHANGED err /\ since' = a.frame
      \/ /\ ~first /\ dc < 0
         /\ UNCHANGED <<rxvars, timeq>>
      \/ /\ ~first /\ dc >= 0
         /\ err' = IF ~Timed(a.packet) THEN err
                   ELSE IF e > bsize THEN bsize ELSE IF e < -bsize THEN -bsize ELSE e
         /\ \E c \in IF Timed(a.packet) THEN Corrections(err') ELSE {0} :
              Take(a.packet, nwr, dc, t0 + TimeOf(dc) + c)
         /\ UNCHANGED <<first, since>>
  BY Zenon DEF Receive, Timed, TimeOf
<1>3. \A base, gap, time :
        Take(a.packet, base, gap, time) =>
          /\ nwr' = (base + gap + a.packet.nfram) % W
          /\ t0' = IF Timed(a.packet) THEN tjack_diff(time, -bsize) ELSE time
  BY Zenon DEF Take, Timed
<1>4. TimeOf(dc) = dc
  BY DEF TimeOf
<1>5. CASE first /\ ~Timed(a.packet) /\ UNCHANGED <<rxvars, timeq>>
  BY <1>1, <1>5
<1>6. CASE /\ first /\ Timed(a.packet)
           /\ first' = FALSE /\ Take(a.packet, a.packet.count, 0, tr)
           /\ UNCHANGED err /\ since' = a.frame
  BY <1>1, <1>3, <1>6
<1>7. CASE ~first /\ dc < 0 /\ UNCHANGED <<rxvars, timeq>>
  BY <1>1, <1>7
<1>8. CASE /\ ~first /\ dc >= 0
           /\ err' = IF ~Timed(a.packet) THEN err
                     ELSE IF e > bsize THEN bsize ELSE IF e < -bsize THEN -bsize ELSE e
           /\ \E c \in IF Timed(a.packet) THEN Corrections(err') ELSE {0} :
                Take(a.packet, nwr, dc, t0 + TimeOf(dc) + c)
           /\ UNCHANGED <<first, since>>
  <2>1. PICK c \in IF Timed(a.packet) THEN Corrections(err') ELSE {0} :
          Take(a.packet, nwr, dc, t0 + dc + c)
    BY <1>4, <1>8
  <2>2. /\ nwr' = (nwr + dc + a.packet.nfram) % W
        /\ t0' = IF Timed(a.packet) THEN tjack_diff(t0 + dc + c, -bsize) ELSE t0 + dc + c
    BY <1>3, <2>1, Zenon
  <2>3. CASE Timed(a.packet)
    BY <1>1, <1>8, <2>1, <2>2, <2>3
  <2>4. CASE ~Timed(a.packet)
    <3>1. c = 0
      BY <2>1, <2>4
    <3>. QED
      BY <1>1, <1>8, <2>1, <2>2, <2>4, <3>1
  <2>. QED
    BY <2>3, <2>4
<1>. QED
  BY <1>1, <1>2, <1>5, <1>6, <1>7, <1>8

(* A packet behind the frame to, where a period that ends at ends was received   *)
(* so far, is taken, and it is a part of the period that ends at next.         *)
Accepted(a, to, ends, next) ==
  /\ to <= a.frame
  /\ IF Timed(a.packet) THEN to = ends /\ a.frame = next - bsize
     ELSE ~first /\ a.frame = to /\ next = ends
  /\ ~first'
  /\ IF first THEN /\ since' = a.frame /\ to = 0 /\ ends = 0
                   /\ Take(a.packet, a.packet.count, 0, tjack(now) - a.packet.dtime)
     ELSE /\ since' = since
          /\ \E c \in IF Timed(a.packet) THEN Corrections(err') ELSE {0} :
               Take(a.packet, nwr, a.frame - to, t0 + (a.frame - to) + c)

(* What a packet does to the receive thread's time and counter when no part of   *)
(* a period was lost: it is a repeated one, or follows the one before.         *)
LEMMA PartReceived ==
  ASSUME TimesBase, Receive, 2 * Jitter < Clock, err \in (-Jitter)..Jitter,
         NEW p \in Part, NEW q \in Part, Received(p), p.to <= p.ends, q.to <= q.ends,
         MayFollow(p, q), Brings(Head(air), q), OnTime(Head(air)),
         NEW most \in Nat, bsize <= most, q.missed - p.missed <= most, 2 * most < W
  PROVE  /\ err' \in (-Jitter)..Jitter
         /\ Received(q)'
         /\ \/ q = p /\ ~first /\ UNCHANGED <<rxvars, timeq>>
            \/ Accepted(Head(air), p.to, p.ends, q.ends)
<1>1. PICK a, dc, tr, e :
        /\ a = Head(air) /\ dc = Signed(a.packet.count - nwr)
        /\ tr = tjack(now) - a.packet.dtime /\ e = tjack_diff(tr, t0 + dc)
  OBVIOUS
<1>2. /\ session \in Sessions /\ session.count \in Nat /\ session.clock \in Nat
      /\ bsize \in Nat \ {0} /\ W \in Nat \ {0} /\ Clock \in Nat \ {0} /\ Jitter \in Nat
  BY SessionNumbers, SumStaysWithin DEF TimesBase, SenderTimes, SumWithin
<1>3. /\ p.from \in Nat /\ p.to \in Nat /\ p.ends \in Nat /\ p.missed \in Int
      /\ q.from \in Nat /\ q.to \in Nat /\ q.ends \in Nat /\ q.missed \in Int
  BY DEF Part
<1>4. /\ q.from < q.to /\ q.ends - bsize <= q.from /\ a.frame = q.from
      /\ a.packet.nfram = q.to - q.from /\ a.packet.count \in Nat
      /\ a.packet.count % W = (session.count + q.from) % W
      /\ (Timed(a.packet) <=> q.from = q.ends - bsize)
  BY <1>1 DEF Brings
<1>5. UNCHANGED <<session, bsize>>
  BY <1>1, ReceiveCases DEF vars
<1>6. CASE first /\ ~Timed(a.packet) /\ UNCHANGED <<rxvars, timeq>>
  <2>1. p.from = 0 /\ p.to = 0 /\ p.ends = 0
    BY <1>6 DEF Received
  <2>2. q = p \/ (q.from = 0 /\ q.ends = 0)
    BY <1>4, <1>6, <2>1 DEF MayFollow, Follows
  <2>. QED
    BY <1>3, <1>4, <2>1, <2>2
<1>7. CASE /\ first /\ Timed(a.packet) /\ Take(a.packet, a.packet.count, 0, tr)
           /\ ~first' /\ nwr' = (a.packet.count + 0 + a.packet.nfram) % W
           /\ t0' = tjack_diff(tr, -bsize) /\ err' = err /\ since' = a.frame
  <2>1. PICK late \in 0..Jitter :
          tr \in Int /\ tr % Clock = (session.clock + q.from + late) % Clock
    BY <1>1, <1>3, <1>4, <1>7, TimeOfArrival
  <2>2. t0' \in Int /\ t0' % Clock = (session.clock + q.ends + late) % Clock
    <3>1. late \in Int /\ q.from = q.ends - bsize
      BY <1>2, <1>4, <1>7
    <3>. QED
      BY <1>3, <1>7, <2>1, <3>1, TimeOfNext
  <2>3. nwr' \in Nat /\ nwr' % W = (session.count + q.to) % W
    <3>. DEFINE x == a.packet.count
                y == session.count + q.from
                k == a.packet.nfram
    <3>1. W \in Nat \ {0} /\ x \in Int /\ y \in Int /\ k \in Int /\ x % W = y % W
          /\ y + k = session.count + q.to /\ x + 0 + k = x + k
      <4>1. x % W = y % W
        BY <1>4
      <4>2. x \in Int /\ y \in Int /\ k \in Int /\ k = q.to - q.from
        BY <1>2, <1>3, <1>4
      <4>3. y + k = session.count + q.to
        BY <1>2, <1>3, <4>2
      <4>. HIDE DEF x, y, k
      <4>. QED
        BY <1>2, <4>1, <4>2, <4>3
    <3>2. nwr' = (x + k) % W
      BY <1>7, <3>1
    <3>. HIDE DEF x, y, k
    <3>3. (x + k) % W = (y + k) % W
      <4>1. Agree(x, y, W)
        BY <3>1 DEF Agree
      <4>2. Agree(x + k, y + k, W)
        BY <3>1, <4>1, AgreeMoved
      <4>. QED
        BY <4>2 DEF Agree
    <3>4. x + k \in Int
      BY <3>1
    <3>5. (x + k) % W \in 0..(W - 1)
      BY <3>1, <3>4, Remainder, Zenon
    <3>6. ((x + k) % W) % W = (x + k) % W
      BY <3>1, <3>5, SmallRemainder, Zenon
    <3>. QED
      BY <3>1, <3>2, <3>3, <3>5, <3>6
  <2>4. p.to = 0 /\ p.ends = 0 /\ p.to <= a.frame /\ p.to = p.ends
    BY <1>3, <1>4, <1>7 DEF Received
  <2>5. Accepted(a, p.to, p.ends, q.ends)
    BY <1>1, <1>4, <1>7, <2>4 DEF Accepted
  <2>6. Received(q)'
    BY <1>4, <1>5, <1>7, <2>1, <2>2, <2>3 DEF Received
  <2>. QED
    BY <1>1, <1>7, <2>5, <2>6
<1>. DEFINE gap == q.from - p.to
<1>8. ASSUME ~first
      PROVE  /\ p.from < p.to /\ nwr \in Nat /\ nwr % W = (session.count + p.to) % W /\ t0 \in Int
             /\ dc = gap
             /\ (q = p => gap < 0)
             /\ (q # p => gap >= 0)
             /\ (q # p /\ Timed(a.packet) => p.to = p.ends)
             /\ (q # p /\ ~Timed(a.packet) => gap = 0 /\ q.ends = p.ends)
  <2>1. p.from < p.to /\ nwr \in Nat /\ nwr % W = (session.count + p.to) % W /\ t0 \in Int
    BY <1>8 DEF Received
  <2>2. dc = gap
    <3>1. -W < 2 * (q.from - p.to) /\ 2 * (q.from - p.to) < W
      <4>1. CASE q = p
        <5>1. /\ p.ends - bsize <= p.from /\ p.from < p.to /\ p.to <= p.ends
              /\ p.from \in Nat /\ p.to \in Nat /\ p.ends \in Nat /\ bsize \in Nat /\ W \in Nat
          BY <1>2, <1>3, <1>4, <4>1
        <5>2. 0 <= p.to - p.from /\ p.to - p.from <= most
          BY <5>1
        <5>. QED
          BY <4>1, <5>1, <5>2
      <4>2. CASE Follows(p, q.from, q.ends, q.missed)
        <5>1. q.from - p.to <= q.missed - p.missed
          BY <4>2 DEF Follows
        <5>2. p.to <= q.from
          BY <1>3, <4>2 DEF Follows
        <5>3. 0 <= q.from - p.to /\ q.from - p.to <= most
          BY <1>3, <5>1, <5>2
        <5>. QED
          BY <1>2, <1>3, <5>3
      <4>. QED
        BY <4>1, <4>2 DEF MayFollow
    <3>2. PICK counted : counted = a.packet.count
      OBVIOUS
    <3>3. /\ counted \in Nat /\ counted % W = (session.count + q.from) % W
          /\ q.from \in Nat /\ p.to \in Nat /\ session \in Sessions
      BY <1>2, <1>3, <1>4, <3>2
    <3>4. Signed(counted - nwr) = q.from - p.to
      BY <2>1, <3>1, <3>3, GapExact, Zenon
    <3>. QED
      BY <1>1, <3>2, <3>4
  <2>. QED
    BY <1>3, <1>4, <2>1, <2>2 DEF MayFollow, Follows
<1>9. CASE ~first /\ dc < 0 /\ UNCHANGED <<rxvars, timeq>>
  <2>1. q = p
    BY <1>3, <1>8, <1>9
  <2>. QED
    BY <1>5, <1>9, <2>1 DEF Received, rxvars
<1>10. ASSUME ~first, nwr' = (nwr + dc + a.packet.nfram) % W
       PROVE  nwr' \in Nat /\ nwr' % W = (session.count + q.to) % W
  <2>. DEFINE y == session.count + p.to
              k == dc + a.packet.nfram
  <2>1. W \in Nat \ {0} /\ nwr \in Int /\ y \in Int /\ k \in Int /\ nwr % W = y % W
        /\ y + k = session.count + q.to /\ nwr + dc + a.packet.nfram = nwr + k
    <3>1. nwr \in Nat /\ nwr % W = y % W /\ dc = q.from - p.to /\ a.packet.nfram = q.to - q.from
      BY <1>4, <1>8, <1>10
    <3>2. session.count \in Nat /\ q.from \in Nat /\ q.to \in Nat /\ p.to \in Nat
      BY <1>2, <1>3
    <3>3. y \in Int /\ k \in Int /\ k = q.to - p.to
      BY <3>1, <3>2
    <3>4. y + k = session.count + q.to
      BY <3>2, <3>3
    <3>. HIDE DEF y
    <3>5. nwr + dc + a.packet.nfram = nwr + k
      BY <3>1, <3>2
    <3>. QED
      BY <1>2, <3>1, <3>3, <3>4, <3>5
  <2>2. nwr' = (nwr + k) % W
    BY <1>10, <2>1
  <2>. HIDE DEF y, k
  <2>3. (nwr + k) % W = (y + k) % W
    <3>1. Agree(nwr, y, W)
      BY <2>1 DEF Agree
    <3>2. Agree(nwr + k, y + k, W)
      BY <2>1, <3>1, AgreeMoved
    <3>. QED
      BY <3>2 DEF Agree
  <2>4. nwr + k \in Int
    BY <2>1
  <2>5. (nwr + k) % W \in 0..(W - 1)
    BY <2>1, <2>4, Remainder, Zenon
  <2>6. ((nwr + k) % W) % W = (nwr + k) % W
    BY <2>1, <2>5, SmallRemainder, Zenon
  <2>. QED
    BY <2>1, <2>2, <2>3, <2>5, <2>6
<1>11. CASE /\ ~first /\ dc >= 0 /\ Timed(a.packet)
            /\ ~first' /\ nwr' = (nwr + dc + a.packet.nfram) % W
            /\ err' = IF e > bsize THEN bsize ELSE IF e < -bsize THEN -bsize ELSE e
            /\ \E c \in Corrections(err') : /\ Take(a.packet, nwr, dc, t0 + dc + c)
                                            /\ t0' = tjack_diff(t0 + dc + c, -bsize)
            /\ since' = since
  <2>1. dc = q.from - p.ends /\ dc \in Int
    BY <1>3, <1>8, <1>11
  <2>2. PICK later \in 0..Jitter :
          tr \in Int /\ tr % Clock = (session.clock + q.from + later) % Clock
    BY <1>1, <1>3, <1>4, <1>11, TimeOfArrival
  <2>3. PICK late \in 0..Jitter : t0 % Clock = (session.clock + p.ends + late) % Clock
    BY <1>11 DEF Received
  <2>. DEFINE begin == session.clock + q.from
  <2>4. begin \in Int /\ late \in Int /\ later \in Int
    BY <1>2, <1>3
  <2>5. t0 + dc \in Int /\ (t0 + dc) % Clock = (begin + late) % Clock
    <3>. DEFINE y == session.clock + p.ends + late
    <3>1. Clock \in Nat \ {0} /\ t0 \in Int /\ y \in Int /\ dc \in Int /\ t0 % Clock = y % Clock
      BY <1>2, <1>3, <1>8, <1>11, <2>1, <2>3
    <3>2. y + dc = begin + late
      BY <1>2, <1>3, <2>1
    <3>. HIDE DEF y, begin
    <3>3. (t0 + dc) % Clock = (y + dc) % Clock
      <4>1. Agree(t0, y, Clock)
        BY <3>1 DEF Agree
      <4>2. Agree(t0 + dc, y + dc, Clock)
        BY <3>1, <4>1, AgreeMoved
      <4>. QED
        BY <4>2 DEF Agree
    <3>. QED
      BY <3>1, <3>2, <3>3
  <2>. HIDE DEF begin
  <2>6. e = later - late
    BY <1>1, <2>2, <2>4, <2>5, ErrorExact DEF begin
  <2>7. PICK x \in Int : /\ x = err'
                         /\ x \in (-Jitter)..Jitter
                         /\ (x >= 0 => x <= later - late)
                         /\ (x < 0 => later - late <= x)
    <3>1. PICK x : x = err'
      OBVIOUS
    <3>2. x = IF e > bsize THEN bsize ELSE IF e < -bsize THEN -bsize ELSE e
      BY <1>11, <3>1
    <3>3. /\ x \in Int /\ x \in (-Jitter)..Jitter
          /\ (x >= 0 => x <= later - late)
          /\ (x < 0 => later - late <= x)
      BY <1>2, <2>6, <3>2
    <3>. QED
      BY <3>1, <3>3
  <2>8. PICK c \in Corrections(x) : /\ Take(a.packet, nwr, dc, t0 + dc + c)
                                    /\ t0' = tjack_diff(t0 + dc + c, -bsize)
    BY <1>11, <2>7
  <2>9. c \in Int /\ late + c \in 0..Jitter /\ late + c \in Int
    <3>1. /\ c \in Int
          /\ (x >= 0 => 0 <= c /\ c <= x)
          /\ (x < 0 => x <= c /\ c <= 0)
      BY CorrectionsSmall
    <3>. QED
      BY <1>2, <2>7, <3>1
  <2>10. t0' \in Int /\ t0' % Clock = (session.clock + q.ends + (late + c)) % Clock
    <3>. DEFINE time == t0 + dc + c
    <3>1. (t0 + dc) + c = time /\ time \in Int /\ begin + late \in Int
      BY <2>4, <2>5, <2>9
    <3>2. ((t0 + dc) + c) % Clock = ((begin + late) + c) % Clock
      <4>. DEFINE u == t0 + dc
                  v == begin + late
      <4>1. Clock \in Nat \ {0} /\ u \in Int /\ v \in Int /\ c \in Int /\ u % Clock = v % Clock
        BY <1>2, <2>5, <2>9, <3>1
      <4>. HIDE DEF u, v
      <4>2. (u + c) % Clock = (v + c) % Clock
        <5>1. Agree(u, v, Clock)
          BY <4>1 DEF Agree
        <5>2. Agree(u + c, v + c, Clock)
          BY <4>1, <5>1, AgreeMoved
        <5>. QED
          BY <5>2 DEF Agree
      <4>. QED
        BY <4>2 DEF u, v
    <3>3. (begin + late) + c = session.clock + q.from + (late + c)
      BY <1>2, <1>3, <2>4, <2>9 DEF begin
    <3>4. time % Clock = (session.clock + q.from + (late + c)) % Clock
      BY <3>2, <3>3
    <3>5. q.from = q.ends - bsize
      BY <1>4, <1>11
    <3>6. t0' = tjack_diff(time, -bsize)
      BY <2>8
    <3>. HIDE DEF time
    <3>. QED
      BY <1>3, <2>9, <3>1, <3>4, <3>5, <3>6, TimeOfNext
  <2>11. Received(q)'
    BY <1>4, <1>5, <1>10, <1>11, <2>9, <2>10 DEF Received
  <2>12. dc = a.frame - p.to /\ p.to <= a.frame /\ p.to = p.ends /\ a.frame = q.ends - bsize
    BY <1>3, <1>4, <1>8, <1>11
  <2>13. Accepted(a, p.to, p.ends, q.ends)
    BY <1>11, <2>7, <2>8, <2>12 DEF Accepted
  <2>. QED
    BY <1>1, <2>7, <2>11, <2>13
<1>12. CASE /\ ~first /\ dc >= 0 /\ ~Timed(a.packet)
            /\ ~first' /\ nwr' = (nwr + dc + a.packet.nfram) % W
            /\ Take(a.packet, nwr, dc, t0 + dc + 0)
            /\ err' = err /\ t0' = t0 + dc + 0 /\ since' = since
  <2>1. dc = 0 /\ q.ends = p.ends /\ t0' = t0
    BY <1>3, <1>8, <1>12
  <2>2. \E late \in 0..Jitter : t0 % Clock = (session.clock + q.ends + late) % Clock
    BY <1>12, <2>1 DEF Received
  <2>3. Received(q)'
    BY <1>4, <1>5, <1>8, <1>10, <1>12, <2>1, <2>2 DEF Received
  <2>4. dc = a.frame - p.to /\ p.to <= a.frame /\ a.frame = p.to
    <3>1. ~first
      BY <1>12
    <3>. QED
      BY <1>3, <1>4, <1>8, <2>1, <3>1
  <2>5. Accepted(a, p.to, p.ends, q.ends)
    BY <1>12, <2>1, <2>4 DEF Accepted
  <2>. QED
    BY <1>1, <1>12, <2>3, <2>5
<1>. QED
  BY <1>1, <1>6, <1>7, <1>9, <1>11, <1>12, ReceiveCases

(* The receive thread ignores a repeated packet, and takes any other, whose part  *)
(* is the first of the chain from here on.                                   *)
Brought(g, to, ends) ==
  /\ err' \in (-Jitter)..Jitter
  /\ \/ /\ ~first /\ UNCHANGED <<rxvars, timeq>> /\ Linked(g, to, ends)'
        /\ to = Head(air).frame + Head(air).packet.nfram
     \/ \E upto, next \in Nat :
          /\ Accepted(Head(air), to, ends, next)
          /\ upto = Head(air).frame + Head(air).packet.nfram
          /\ Linked(g, upto, next)'

LEMMA ReceiveTimes ==
  ASSUME NEW g, Tolerates(g), TimesSound(g), Receive,
         2 * ((MaxFaults + 1) * g) < W, 2 * Jitter < Clock
  PROVE  /\ TimesSound(g)'
         /\ ~shaken => \A to, ends \in Nat : Linked(g, to, ends) => Brought(g, to, ends)
<1>0. /\ air # <<>> /\ air' = Tail(air) /\ faults' = faults
      /\ UNCHANGED <<session, now, vars, txvars, shaken>>
  BY DEF Receive
<1>1. Sound'
  BY <1>0 DEF TimesSound, TimesBase, Sound, SplitFits, vars, npack, bstep
<1>2. SenderTimes'
  BY <1>0 DEF TimesSound, TimesBase, SenderTimes, Upcoming, vars, txvars
<1>3. AirTimes'
  BY <1>0, TimesOfTheRest DEF TimesSound
<1>4. PICK most : most = (MaxFaults + 1) * g
  OBVIOUS
<1>5. most \in Nat /\ bsize <= most /\ faults * g \in Nat /\ faults * g <= most /\ 2 * most < W
  <2>1. bsize \in Nat \ {0} /\ session \in Sessions /\ bsize = session.tx_fsize
    BY SumStaysWithin DEF TimesSound, TimesBase, SumWithin, SenderTimes
  <2>2. g \in Nat /\ bsize <= g
    BY <2>1 DEF Tolerates
  <2>3. faults \in Nat /\ MaxFaults \in Nat /\ faults <= MaxFaults
    BY PathParams DEF TimesSound, TimesBase
  <2>4. PICK k \in Nat : MaxFaults = faults + k
    BY <2>3
  <2>5. g * ((faults + k) + 1) = g * (faults + k) + g * 1 /\ g * (faults + k) = g * faults + g * k
    BY <2>2, <2>3, <2>4, Distributes
  <2>6. g * faults \in Nat /\ g * k \in Nat /\ g * faults = faults * g
        /\ most = g * ((faults + k) + 1)
    BY <1>4, <2>2, <2>3, <2>4
  <2>. QED
    BY <1>4, <2>1, <2>2, <2>5, <2>6
<1>6. ASSUME err \in (-Jitter)..Jitter, NEW parts, NEW m, Chain(parts, m), Received(parts[0]),
             m - parts[0].missed <= faults * g
      PROVE  /\ Brought(g, parts[0].to, parts[0].ends)
             /\ \E to, ends \in Nat : Linked(g, to, ends)'
  <2>1. PICK p, q : p = parts[0] /\ q = parts[1]
    OBVIOUS
  <2>2. Len(air) \in Nat /\ 0 \in 0..Len(air) /\ 1 \in 0..Len(air) /\ 1 \in 1..Len(air) /\ Head(air) = air[1]
    BY <1>0, AirShortened DEF TimesSound
  <2>3. p \in Part /\ q \in Part /\ p.missed \in Int /\ q.missed \in Int /\ m \in Int
    BY <1>6, <2>1, <2>2, PartNumbers DEF TimesSound
  <2>4. p.to <= p.ends /\ q.to <= q.ends /\ q.ends <= tx_tnext /\ q.missed <= m
    BY <1>6, <2>1, <2>2 DEF Chain
  <2>5. MayFollow(p, q)
    <3>1. 1 - 1 = 0
      OBVIOUS
    <3>. QED
      BY <1>6, <2>1, <2>2, <3>1 DEF Chain
  <2>6. Brings(Head(air), q) /\ OnTime(Head(air)) /\ TimesBase
    BY <1>6, <2>1, <2>2 DEF Chain, TimesSound, TimesBase, AirTimes
  <2>7. q.missed - p.missed <= most
    BY <1>5, <1>6, <2>1, <2>3, <2>4
  <2>8. /\ err' \in (-Jitter)..Jitter
        /\ Received(q)'
        /\ \/ q = p /\ ~first /\ UNCHANGED <<rxvars, timeq>>
           \/ Accepted(Head(air), p.to, p.ends, q.ends)
    BY <1>5, <1>6, <2>1, <2>3, <2>4, <2>5, <2>6, <2>7, PartReceived
  <2>9. UNCHANGED <<session, bsize, sum, tx_tnext>>
    BY <1>0 DEF vars, txvars
  <2>10. \E next : Chain(next, m)' /\ next[0] = q
    <3>1. MayFollow(q, q)
      BY DEF MayFollow
    <3>2. air # <<>> /\ air' = Tail(air)
      BY <1>0
    <3>3. StandsFor(q, q, m)
      BY <2>3, <2>4, <3>1 DEF StandsFor
    <3>. QED
      BY <1>6, <2>1, <2>6, <2>9, <3>2, <3>3, ChainOfTheRest
  <2>11. m - q.missed <= faults' * g
    <3>1. p.missed <= q.missed
      <4>1. /\ p.to \in Nat /\ q.from \in Nat
        BY <2>3 DEF Part
      <4>. QED
        BY <2>3, <2>5, <4>1 DEF MayFollow, Follows
    <3>2. PICK x, y, spent : x = p.missed /\ y = q.missed /\ spent = faults * g
      OBVIOUS
    <3>3. x \in Int /\ y \in Int /\ m \in Int /\ x <= y /\ m - x <= spent /\ spent \in Int
      BY <1>5, <1>6, <2>1, <2>3, <3>1, <3>2
    <3>4. m - y <= spent
      BY <3>3
    <3>. QED
      BY <1>0, <3>2, <3>4
  <2>12. PICK next : Chain(next, m)' /\ next[0] = q
    BY <2>10
  <2>13. Received(next[0])'
    BY <2>1, <2>8, <2>12
  <2>14. Linked(g, q.to, q.ends)'
    BY <2>11, <2>12, <2>13 DEF Linked
  <2>15. /\ q.to \in Nat /\ q.ends \in Nat
         /\ q.to = Head(air).frame + Head(air).packet.nfram
    BY <2>3, <2>6 DEF Part, Brings
  <2>18. CASE q = p /\ ~first /\ UNCHANGED <<rxvars, timeq>>
    BY <2>1, <2>8, <2>14, <2>15, <2>18 DEF Brought
  <2>19. CASE Accepted(Head(air), p.to, p.ends, q.ends)
    BY <2>1, <2>8, <2>14, <2>15, <2>19 DEF Brought
  <2>. QED
    BY <2>8, <2>18, <2>19
<1>7. ASSUME ~shaken
      PROVE  /\ \A to, ends \in Nat : Linked(g, to, ends) => Brought(g, to, ends)
             /\ err' \in (-Jitter)..Jitter
             /\ \E to, ends \in Nat : Linked(g, to, ends)'
  <2>1. err \in (-Jitter)..Jitter /\ \E to, ends \in Nat : Linked(g, to, ends)
    BY <1>7 DEF TimesSound
  <2>2. ASSUME NEW to \in Nat, NEW ends \in Nat, Linked(g, to, ends)
        PROVE  Brought(g, to, ends) /\ \E x, y \in Nat : Linked(g, x, y)'
    <3>1. PICK parts, m : /\ Chain(parts, m) /\ Received(parts[0])
                          /\ parts[0].to = to /\ parts[0].ends = ends
                          /\ m - parts[0].missed <= faults * g
      BY <2>2 DEF Linked
    <3>. QED
      BY <1>6, <2>1, <3>1
  <2>. QED
    BY <2>1, <2>2 DEF Brought
<1>. QED
  BY <1>0, <1>1, <1>2, <1>3, <1>7 DEF TimesSound, TimesBase

(* Every step keeps the times.                                               *)
LEMMA TimesKept ==
  ASSUME NEW g, Tolerates(g), TimesSound(g), [PathNext]_pathvars,
         2 * ((MaxFaults + 1) * g) < W, 2 * Jitter < Clock
  PROVE  TimesSound(g)'
<1>0. g \in Nat
  BY DEF Tolerates
<1>1. CASE ReadList \/ SetUp \/ UNCHANGED pathvars
  <2>1. UNCHANGED <<session, now, vars, txvars, air, first, t0, err, nwr, shaken, faults>>
    BY <1>1 DEF ReadList, SetUp, pathvars, rxvars
  <2>. QED
    BY <1>0, <2>1, TimesStay, KeepsSound
<1>2. CASE \E skip \in {0} \cup Skips : TxCycle(skip)
  BY <1>2, TxCycleTimes, KeepsSound
<1>3. CASE TxPacket
  BY <1>0, <1>3, TxPacketTimes, KeepsSound
<1>4. CASE Lose
  BY <1>4, LoseTimes, KeepsSound
<1>5. CASE Repeat
  BY <1>0, <1>5, RepeatTimes, KeepsSound
<1>6. CASE Receive
  BY <1>6, ReceiveTimes
<1>7. CASE \E skip \in {0} \cup Skips : RxCycle(skip)
  <2>1. /\ UNCHANGED <<session, now, vars, txvars, air, first, t0, err, nwr, shaken>>
        /\ faults' = faults \/ (faults < MaxFaults /\ faults' = faults + 1)
    BY <1>7 DEF RxCycle, Skipped, rxvars
  <2>. QED
    BY <1>0, <2>1, TimesStay, KeepsSound
<1>8. CASE Tick
  BY <1>0, <1>8, TickTimes, KeepsSound
<1>. QED
  BY <1>1, <1>2, <1>3, <1>4, <1>5, <1>6, <1>7, <1>8 DEF PathNext

(* Netrx::thr_main predicts the time of every period to within the network's    *)
(* jitter, through late senders, skipped cycles, lost periods, repeated packets *)
(* and wraps of the counters and the clock, in sessions of any length, as long   *)
(* as the frames that are missing are fewer than half the range of the counters.*)
THEOREM TimesStayUndisturbed ==
  ASSUME NEW g \in Nat,
         \A skip \in Skips : skip <= g,
         \A s \in Sessions : s.tx_fsize <= g,
         2 * ((MaxFaults + 1) * g) < W, 2 * Jitter < Clock
  PROVE  PathSpec => []TimesUndisturbed
<1>1. Tolerates(g)
  BY DEF Tolerates
<1>2. PathInit => TimesSound(g)
  BY TimesStart
<1>3. TimesSound(g) /\ [PathNext]_pathvars => TimesSound(g)'
  BY <1>1, TimesKept
<1>4. TimesSound(g) => TimesUndisturbed
  BY DEF TimesSound, TimesUndisturbed
<1>. QED
  BY <1>2, <1>3, <1>4, PTL DEF PathSpec

-----------------------------------------------------------------------------
(* The delay                                                                 *)

(* Neither program's clock is further behind than a fault and a late cycle      *)
(* allow, and a packet is not later than the jitter.                         *)
Clocks(g) ==
  /\ rx_tnext \in Nat
  /\ now <= tx_tnext + g + Late
  /\ now <= rx_tnext + g + Late
  /\ tx_tnext - bsize <= now
  /\ sum < bsize => now <= tx_tnext - bsize + Late
  /\ \A i \in 1..Len(air) : air[i].frame \in Nat /\ air[i].due <= air[i].frame + Late + Jitter

(* At the start the time is 0.                                                 *)
LEMMA ClocksStart ==
  ASSUME NEW g \in Nat
  PROVE  PathInit => Clocks(g)
<1> SUFFICES ASSUME PathInit PROVE Clocks(g)
  OBVIOUS
<1>1. /\ session \in Sessions /\ session.tx_fsize \in Nat /\ Late \in Nat
  BY SessionNumbers DEF PathInit
<1>2. session.phase \in Nat
  BY <1>1, PathParams
<1>3. Len(air) = 0 /\ 1..0 = {}
  BY DEF PathInit
<1>. QED
  BY <1>1, <1>2, <1>3 DEF PathInit, Clocks

(* The greatest of some numbers, which Max of the community modules chooses.     *)
LEMMA MaxWithin ==
  ASSUME NEW n \in Nat, NEW T, T \subseteq 0..n, T # {}
  PROVE  Max(T) \in T
<1>. DEFINE U == {n - x : x \in T}
<1>1. U \subseteq Nat /\ U # {}
  <2>1. \A x \in T : n - x \in Nat
    OBVIOUS
  <2>2. PICK x : x \in T
    OBVIOUS
  <2>3. n - x \in U
    BY <2>2
  <2>. QED
    BY <2>1, <2>3
<1>2. Min(U) \in U /\ \A y \in U : Min(U) <= y
  BY <1>1, MinIsLeast
<1>3. PICK x \in T : Min(U) = n - x
  BY <1>2
<1>4. \A y \in T : x >= y
  BY <1>2, <1>3
<1>. QED
  BY <1>3, <1>4 DEF Max

(* No cycle starts later than a fault allows.                                  *)
LEMMA SkipsBounded ==
  ASSUME NEW g, Tolerates(g)
  PROVE  Max(SkipsLeft) \in 0..g
<1>1. g \in Nat /\ Skips \subseteq 0..g
  BY PathParams DEF Tolerates
<1>2. SkipsLeft \subseteq 0..g /\ SkipsLeft # {}
  BY <1>1 DEF SkipsLeft
<1>. QED
  BY <1>1, <1>2, MaxWithin

(* Time waits for both cycles and for the packets, and nothing else moves it.       *)
LEMMA ClocksKept ==
  ASSUME NEW g, Tolerates(g), TimesBase, Clocks(g), [PathNext]_pathvars
  PROVE  Clocks(g)'
<1>0. /\ g \in Nat /\ Late \in Nat /\ Jitter \in Nat /\ session \in Sessions
      /\ session.bsize \in Nat /\ now \in Nat /\ tx_tnext \in Nat
      /\ bsize \in Nat \ {0} /\ sum \in 0..bsize /\ (j = npack => sum = bsize)
      /\ \A skip \in {0} \cup Skips : skip \in Nat
  <2>1. session \in Sessions /\ now \in Nat /\ tx_tnext \in Nat /\ Sound
    BY DEF TimesBase, SenderTimes
  <2>2. session.bsize \in Nat
    BY <2>1, PathParams
  <2>. QED
    BY <2>1, <2>2, SessionNumbers, SumInPeriod DEF Tolerates
<1>1. CASE UNCHANGED <<session, now, vars, tx_tnext, rx_tnext, air>>
  BY <1>1 DEF Clocks, vars
<1>2. ASSUME NEW skip \in {0} \cup Skips, TxCycle(skip)
      PROVE  Clocks(g)'
  <2>1. /\ now \in (tx_tnext + skip)..(tx_tnext + skip + Late)
        /\ tx_tnext' = tx_tnext + skip + bsize
        /\ bsize' = bsize /\ UNCHANGED <<now, rx_tnext, air>>
    BY <1>2 DEF TxCycle, Period, jrxvars
  <2>2. skip \in Nat
    BY <1>0
  <2>. QED
    BY <1>0, <2>1, <2>2 DEF Clocks
<1>3. CASE TxPacket
  <2>1. PICK sent : /\ air' = Append(air, sent)
                    /\ sent.frame = Upcoming /\ sent.due = now + Jitter
    <3>. DEFINE empty == init_audio_data(IF j = 0 THEN {FL_TIMED} ELSE {}, session.form,
                                        session.nchan, count, nfram', dtime)
                new == [packet |-> Filled(empty, Upcoming), frame |-> Upcoming,
                        due |-> now + Jitter]
    <3>1. air' = Append(air, new)
      BY <1>3 DEF TxPacket, Upcoming
    <3>2. new.frame = Upcoming /\ new.due = now + Jitter
      OBVIOUS
    <3>. HIDE DEF new
    <3>. QED
      BY <3>1, <3>2
  <2>2. UNCHANGED <<session, now, tx_tnext, rx_tnext, bsize>> /\ j < npack
    BY <1>3 DEF TxPacket, Packet, jrxvars
  <2>3. sum < bsize /\ sum' \in 0..bsize /\ bsize <= tx_tnext
    <3>2. Sound' /\ SumWithin /\ SumWithin'
      BY <1>3, PacketSound, SumStaysWithin, SumNext DEF TimesBase, TxPacket
    <3>3. sum' = sum + nfram' /\ j' = j + 1
      BY <1>3 DEF TxPacket, Packet
    <3>. QED
      BY <1>0, <2>2, <3>2, <3>3 DEF SumWithin, TimesBase, SenderTimes
  <2>4. PICK S : air \in Seq(S)
    BY DEF TimesBase, AirTimes
  <2>5. /\ Len(air) \in Nat /\ Len(air') = Len(air) + 1
        /\ \A i \in 1..Len(air) : air'[i] = air[i]
        /\ air'[Len(air) + 1] = sent
    BY <2>1, <2>4, AirAppended
  <2>6. Upcoming \in Nat /\ now + Jitter <= Upcoming + Late + Jitter
    BY <1>0, <2>3 DEF Upcoming, Clocks
  <2>7. ASSUME NEW i \in 1..Len(air')
        PROVE  air'[i].frame \in Nat /\ air'[i].due <= air'[i].frame + Late + Jitter
    <3>1. CASE i \in 1..Len(air)
      BY <2>5, <3>1 DEF Clocks
    <3>2. CASE i = Len(air) + 1
      BY <2>1, <2>5, <2>6, <3>2
    <3>. QED
      BY <2>5, <3>1, <3>2
  <2>. QED
    BY <1>0, <2>2, <2>3, <2>7 DEF Clocks
<1>4. CASE Lose \/ Receive
  <2>1. air # <<>> /\ air' = Tail(air) /\ UNCHANGED <<session, now, vars, tx_tnext, rx_tnext>>
    BY <1>4 DEF Lose, Receive, jrxvars, txvars
  <2>2. PICK S : air \in Seq(S)
    BY DEF TimesBase, AirTimes
  <2>3. \A i \in 1..Len(air') : i + 1 \in 1..Len(air) /\ air'[i] = air[i + 1]
    BY <2>1, <2>2
  <2>. QED
    BY <2>1, <2>3 DEF Clocks, vars
<1>5. CASE Repeat
  <2>1. /\ air # <<>> /\ air' = <<Head(air)>> \o air
        /\ UNCHANGED <<session, now, vars, tx_tnext, rx_tnext>>
    BY <1>5 DEF Repeat, jrxvars, txvars
  <2>2. /\ Len(air) \in Nat /\ Len(air') = Len(air) + 1 /\ air'[1] = air[1] /\ 1 \in 1..Len(air)
        /\ \A i \in 2..(Len(air) + 1) : i - 1 \in 1..Len(air) /\ air'[i] = air[i - 1]
    <3>1. PICK old, queue, n : old = air /\ queue = air' /\ n = Len(air)
      OBVIOUS
    <3>2. /\ n \in Nat /\ n >= 1 /\ Len(queue) = n + 1 /\ queue[1] = old[1]
          /\ \A i \in 2..(n + 1) : i - 1 \in 1..n /\ queue[i] = old[i - 1]
      BY <2>1, <3>1, AirRepeated
    <3>. QED
      BY <3>1, <3>2
  <2>3. \A i \in 1..Len(air') : \E k \in 1..Len(air) : air'[i] = air[k]
    <3>1. \A i \in 1..(Len(air) + 1) : i = 1 \/ i \in 2..(Len(air) + 1)
      BY <2>2
    <3>. QED
      BY <2>2, <3>1
  <2>. QED
    BY <2>1, <2>3 DEF Clocks, vars
<1>6. ASSUME NEW skip \in {0} \cup Skips, RxCycle(skip)
      PROVE  Clocks(g)'
  <2>1. /\ rx_tnext' = rx_tnext + skip + session.bsize
        /\ UNCHANGED <<now, vars, tx_tnext, air>>
    BY <1>6 DEF RxCycle, txvars
  <2>2. skip \in Nat
    BY <1>0
  <2>3. rx_tnext' \in Nat /\ now' <= rx_tnext' + g + Late
    <3>1. rx_tnext \in Nat /\ now <= rx_tnext + g + Late
      BY DEF Clocks
    <3>2. PICK size : size = session.bsize
      OBVIOUS
    <3>3. size \in Nat /\ rx_tnext' = rx_tnext + skip + size
      BY <1>0, <2>1, <3>2
    <3>. QED
      BY <1>0, <2>1, <2>2, <3>1, <3>3
  <2>4. UNCHANGED <<now, tx_tnext, bsize, sum, air>>
    BY <2>1 DEF vars
  <2>. QED
    BY <2>3, <2>4 DEF Clocks
<1>7. CASE Tick
  <2>1. /\ j = npack /\ now' = now + 1
        /\ now < tx_tnext + Max(SkipsLeft) + Late /\ now < rx_tnext + Max(SkipsLeft) + Late
        /\ UNCHANGED <<vars, tx_tnext, rx_tnext, air>>
    BY <1>7 DEF Tick, jrxvars, txvars
  <2>2. PICK most : most = Max(SkipsLeft) /\ most \in 0..g
    BY SkipsBounded
  <2>3. /\ now + 1 <= tx_tnext + g + Late /\ now + 1 <= rx_tnext + g + Late
        /\ tx_tnext - bsize <= now + 1 /\ sum = bsize
    <3>1. now < tx_tnext + most + Late /\ now < rx_tnext + most + Late /\ sum = bsize
      BY <1>0, <2>1, <2>2
    <3>2. rx_tnext \in Nat /\ tx_tnext - bsize <= now
      BY DEF Clocks
    <3>. QED
      BY <1>0, <2>2, <3>1, <3>2
  <2>4. tx_tnext' = tx_tnext /\ rx_tnext' = rx_tnext /\ bsize' = bsize /\ sum' = sum /\ air' = air
    BY <2>1 DEF vars
  <2>5. ~(sum' < bsize')
    BY <1>0, <2>3, <2>4
  <2>6. /\ rx_tnext \in Nat
        /\ \A i \in 1..Len(air) : air[i].frame \in Nat /\ air[i].due <= air[i].frame + Late + Jitter
    BY DEF Clocks
  <2>. QED
    BY <2>1, <2>3, <2>4, <2>5, <2>6 DEF Clocks
<1>8. CASE ReadList \/ SetUp \/ UNCHANGED pathvars
  BY <1>1, <1>8 DEF ReadList, SetUp, pathvars, txvars, jrxvars
<1>. QED
  BY <1>2, <1>3, <1>4, <1>5, <1>6, <1>7, <1>8 DEF PathNext

(* A ratio that is a whole number is not rounded.                               *)
LEMMA RoundedExact ==
  ASSUME NEW d \in Nat \ {0}, NEW x \in Int
  PROVE  RoundedRatio(d * x, d) = x
<1>1. d * x \in Int /\ (2 * d) * x = 2 * (d * x) /\ 2 * d \in Nat \ {0}
  OBVIOUS
<1>2. PICK a, b : a = 2 * (d * x) + d /\ b = 2 * d
  OBVIOUS
<1>3. a \in Int /\ b \in Nat \ {0} /\ b * x <= a /\ a < b * x + b
  BY <1>1, <1>2
<1>4. a \div b = x
  BY <1>3, QuotientUnique
<1>. QED
  BY <1>2, <1>4 DEF RoundedRatio

(* A time point: a period that begins at the frame f was received late frames      *)
(* after it.                                                                  *)
PointAt(c, t, f, late) ==
  /\ f \in Nat
  /\ c \in Nat /\ Agree(c, session.count + f, W)
  /\ t \in Int /\ Agree(t, session.clock + f + late, Clock)

(* From two time points the time that passed since the first is found, and so     *)
(* the delay.                                                                 *)
LEMMA DelayFound ==
  ASSUME session \in Sessions, NEW p, NEW f0, NEW f1, NEW late \in Int, f0 < f1,
         PointAt(p.k0, p.t0, f0, late), PointAt(p.k1, p.t1, f1, late),
         NEW start \in Nat, NEW at \in Int,
         2 * (f1 - f0) < W, 2 * (f1 - f0) < Clock,
         -Clock < 2 * (start - f0 - late), 2 * (start - f0 - late) < Clock
  PROVE  DelayError(p, start, at) = Signed(p.k0 - at) - k_del + (start - f0 - late)
<1>1. /\ session.count \in Nat /\ session.clock \in Nat /\ f0 \in Nat /\ f1 \in Nat
      /\ W \in Nat \ {0} /\ W % 2 = 0 /\ Clock \in Nat \ {0} /\ Clock % 2 = 0
      /\ p.k0 \in Nat /\ p.k1 \in Nat /\ p.t0 \in Int /\ p.t1 \in Int
      /\ Agree(p.k0, session.count + f0, W) /\ Agree(p.k1, session.count + f1, W)
      /\ Agree(p.t0, session.clock + f0 + late, Clock)
      /\ Agree(p.t1, session.clock + f1 + late, Clock)
  BY SessionNumbers DEF PointAt
<1>2. Signed(p.k1 - p.k0) = f1 - f0
  <2>1. PICK u, v : u = session.count + f1 /\ v = session.count + f0
    OBVIOUS
  <2>2. /\ u \in Int /\ v \in Int /\ u - v = f1 - f0 /\ p.k1 \in Int /\ p.k0 \in Int
        /\ -W < 2 * (u - v) /\ 2 * (u - v) < W
        /\ Agree(p.k1, u, W) /\ Agree(p.k0, v, W)
    <3>1. Agree(p.k1, u, W) /\ Agree(p.k0, v, W)
      BY <1>1, <2>1
    <3>2. /\ f0 \in Nat /\ f1 \in Nat /\ session.count \in Nat /\ W \in Nat
          /\ p.k1 \in Nat /\ p.k0 \in Nat
      BY <1>1
    <3>3. u \in Int /\ v \in Int /\ u - v = f1 - f0
      BY <2>1, <3>2
    <3>. QED
      BY <3>1, <3>2, <3>3
  <2>3. OnCircle(p.k1 - p.k0, W) = u - v
    BY <1>1, <2>2, CircleExact
  <2>. QED
    BY <2>2, <2>3 DEF Signed
<1>3. tjack_diff(p.t1, p.t0) = f1 - f0
  <2>1. PICK u, v : u = session.clock + f1 + late /\ v = session.clock + f0 + late
    OBVIOUS
  <2>2. /\ u \in Int /\ v \in Int /\ u - v = f1 - f0
        /\ -Clock < 2 * (u - v) /\ 2 * (u - v) < Clock
        /\ Agree(p.t1, u, Clock) /\ Agree(p.t0, v, Clock)
    <3>1. Agree(p.t1, u, Clock) /\ Agree(p.t0, v, Clock)
      BY <1>1, <2>1
    <3>2. /\ f0 \in Nat /\ f1 \in Nat /\ session.clock \in Nat /\ Clock \in Nat
      BY <1>1
    <3>3. u \in Int /\ v \in Int /\ u - v = f1 - f0
      BY <2>1, <3>2
    <3>. QED
      BY <3>1, <3>2, <3>3
  <2>3. OnCircle(p.t1 - p.t0, Clock) = u - v
    BY <1>1, <2>2, CircleExact
  <2>. QED
    BY <2>2, <2>3 DEF tjack_diff
<1>4. tjack_diff(tjack(start), p.t0) = start - f0 - late
  <2>1. PICK u, v : u = session.clock + start /\ v = session.clock + f0 + late
    OBVIOUS
  <2>2. /\ u \in Int /\ v \in Int /\ u - v = start - f0 - late
        /\ -Clock < 2 * (u - v) /\ 2 * (u - v) < Clock
        /\ Agree(p.t0, v, Clock)
    <3>1. Agree(p.t0, v, Clock)
      BY <1>1, <2>1
    <3>2. /\ f0 \in Nat /\ session.clock \in Nat /\ Clock \in Nat
      BY <1>1
    <3>3. u \in Int /\ v \in Int /\ u - v = start - f0 - late
      BY <2>1, <3>2
    <3>. QED
      BY <3>1, <3>2, <3>3
  <2>3. tjack(start) \in Int /\ Agree(tjack(start), u, Clock)
    BY <2>1, ClockAgrees DEF Agree
  <2>4. OnCircle(tjack(start) - p.t0, Clock) = u - v
    BY <1>1, <2>2, <2>3, CircleExact
  <2>. QED
    BY <2>2, <2>4 DEF tjack_diff
<1>5. RoundedRatio((f1 - f0) * (start - f0 - late), f1 - f0) = start - f0 - late
  <2>1. f1 - f0 \in Nat \ {0} /\ start - f0 - late \in Int
    BY <1>1
  <2>. QED
    BY <2>1, RoundedExact
<1>. QED
  BY <1>2, <1>3, <1>4, <1>5 DEF DelayError

(* How far behind the time the end of the period received last may be.           *)
Behind(g) == MaxFaults * g + g + Late + Jitter

(* The numbers of the bounds.                                                  *)
LEMMA BehindNumber ==
  ASSUME NEW g \in Nat
  PROVE  /\ MaxFaults * g \in Nat /\ Late \in Nat /\ Jitter \in Nat /\ Behind(g) \in Nat
         /\ (2 * MaxFaults + 6) * g = 2 * (MaxFaults * g) + 6 * g
         /\ (MaxFaults + 1) * g = MaxFaults * g + g
<1>1. MaxFaults \in Nat /\ Late \in Nat /\ Jitter \in Nat
  BY PathParams
<1>2. PICK k \in Nat : k = MaxFaults
  BY <1>1
<1>3. k * g \in Nat /\ (2 * k + 6) * g = 2 * (k * g) + 6 * g /\ (k + 1) * g = k * g + g
  BY <1>2
<1>. QED
  BY <1>1, <1>2, <1>3 DEF Behind

(* What was received last and the period being sent are no further apart than      *)
(* the faults account for.                                                    *)
LEMMA Reached ==
  ASSUME NEW g \in Nat, TimesBase, Clocks(g), NEW to, NEW ends, Linked(g, to, ends), ~first
  PROVE  /\ to \in Nat /\ ends \in Nat /\ to <= ends /\ ends <= tx_tnext
         /\ now <= ends + Behind(g)
<1>0. /\ bsize \in Nat \ {0} /\ sum \in 0..bsize /\ now \in Nat /\ tx_tnext \in Nat
      /\ bsize <= tx_tnext
  BY SumInPeriod DEF TimesBase, SenderTimes
<1>1. PICK parts, m : /\ Chain(parts, m) /\ Received(parts[0])
                      /\ parts[0].to = to /\ parts[0].ends = ends
                      /\ m - parts[0].missed <= faults * g
  BY DEF Linked
<1>2. PICK p : p = parts[0]
  OBVIOUS
<1>3. /\ p \in Part /\ p.from \in Nat /\ p.to \in Nat /\ p.ends \in Nat /\ p.missed \in Int
      /\ m \in Int /\ p.to = to /\ p.ends = ends /\ p.to <= p.ends /\ p.ends <= tx_tnext
      /\ Len(air) \in Nat /\ p.from < p.to
  <2>1. Len(air) \in Nat /\ 0 \in 0..Len(air)
    BY <1>1, PartNumbers
  <2>2. parts[0] \in Part /\ parts[0].to <= parts[0].ends /\ parts[0].ends <= tx_tnext
    BY <1>1, <2>1 DEF Chain
  <2>3. /\ parts[0].from \in Nat /\ parts[0].to \in Nat /\ parts[0].ends \in Nat
        /\ parts[0].missed \in Int /\ m \in Int
    BY <1>1, <2>1, PartNumbers
  <2>4. parts[0].from < parts[0].to
    BY <1>1 DEF Received
  <2>. QED
    BY <1>1, <1>2, <2>1, <2>2, <2>3, <2>4
<1>4. PICK spent, most : spent = faults * g /\ most = MaxFaults * g
  OBVIOUS
<1>5. /\ spent \in Nat /\ most \in Nat /\ spent <= most /\ Late \in Nat /\ Jitter \in Nat
      /\ Behind(g) = most + g + Late + Jitter
  <2>1. g * faults <= g * MaxFaults /\ g * faults = faults * g /\ g * MaxFaults = MaxFaults * g
    BY PathParams, Monotone DEF TimesBase
  <2>2. faults \in Nat
    BY DEF TimesBase
  <2>. QED
    BY <1>4, <2>1, <2>2, BehindNumber DEF Behind
<1>6. m - p.missed <= spent
  BY <1>1, <1>2, <1>4
<1>9. \A n \in Int : p.to = p.ends /\ n - p.to <= m - p.missed => n <= p.ends + most
  <2>1. PICK l, x, y : l = m - p.missed /\ x = p.to /\ y = p.ends
    OBVIOUS
  <2>0. l \in Int /\ x \in Nat /\ l <= spent
    BY <1>3, <1>6, <2>1
  <2>2. l \in Int /\ x \in Nat /\ l <= most
    BY <1>5, <2>0
  <2>3. \A n \in Int : x = y /\ n - x <= l => n <= y + most
    BY <1>5, <2>2
  <2>. QED
    BY <2>1, <2>3
<1>10. now <= p.ends + most + g + Late => now <= ends + Behind(g)
  <2>1. PICK y : y = p.ends
    OBVIOUS
  <2>2. y \in Nat /\ y <= ends
    BY <1>3, <2>1
  <2>3. now <= y + most + g + Late => now <= ends + (most + g + Late + Jitter)
    BY <1>0, <1>3, <1>5, <2>2
  <2>. QED
    BY <1>5, <2>1, <2>3
<1>7. CASE Len(air) = 0
  <2>1. SentLast(p, m)
    BY <1>1, <1>2, <1>7 DEF Chain
  <2>2. CASE sum < bsize
    <3>1. now <= tx_tnext - bsize + Late
      BY <2>2 DEF Clocks
    <3>2. Follows(p, Upcoming, tx_tnext, m)
      BY <2>1, <2>2 DEF SentLast
    <3>3. \/ p.to = p.ends /\ Upcoming = tx_tnext - bsize /\ Upcoming - p.to <= m - p.missed
          \/ p.ends = tx_tnext
      BY <3>2 DEF Follows
    <3>4. tx_tnext - bsize \in Int
      BY <1>0
    <3>5. \/ tx_tnext - bsize <= p.ends + most
          \/ p.ends = tx_tnext
      BY <1>9, <3>3, <3>4
    <3>6. now <= p.ends + most + g + Late
      <4>1. PICK y : y = p.ends
        OBVIOUS
      <4>2. y \in Nat /\ (tx_tnext - bsize <= y + most \/ y = tx_tnext)
        BY <1>3, <3>5, <4>1
      <4>3. now <= y + most + g + Late
        BY <1>0, <1>5, <3>1, <4>2
      <4>. QED
        BY <4>1, <4>3
    <3>. QED
      BY <1>3, <1>10, <3>6
  <2>3. CASE ~(sum < bsize)
    <3>1. p.to = p.ends /\ tx_tnext - p.to <= m - p.missed /\ now <= tx_tnext + g + Late
      BY <2>1, <2>3 DEF SentLast, Clocks
    <3>2. tx_tnext <= p.ends + most
      BY <1>0, <1>9, <3>1
    <3>3. now <= p.ends + most + g + Late
      <4>1. PICK y : y = p.ends
        OBVIOUS
      <4>2. y \in Nat /\ tx_tnext <= y + most
        BY <1>3, <3>2, <4>1
      <4>3. now <= y + most + g + Late
        BY <1>0, <1>5, <3>1, <4>2
      <4>. QED
        BY <4>1, <4>3
    <3>. QED
      BY <1>3, <1>10, <3>3
  <2>. QED
    BY <2>2, <2>3
<1>8. CASE Len(air) # 0
  <2>0. 1 \in 1..Len(air) /\ 1 \in 0..Len(air) /\ 1 - 1 = 0
    BY <1>3, <1>8
  <2>1. PICK q, a : q = parts[1] /\ a = air[1]
    OBVIOUS
  <2>2. /\ MayFollow(p, q) /\ Brings(a, q) /\ q.missed <= m /\ OnTime(a)
        /\ a.due <= a.frame + Late + Jitter
    BY <1>1, <1>2, <2>0, <2>1 DEF Chain, Clocks, TimesBase, AirTimes
  <2>3. q.from \in Nat /\ q.missed \in Int
    BY <1>1, <2>0, <2>1, PartNumbers
  <2>4. a.frame = q.from /\ now <= a.due /\ a.due \in Int
    BY <2>2 DEF Brings, OnTime
  <2>5. now <= q.from + Late + Jitter
    BY <1>0, <1>5, <2>2, <2>3, <2>4
  <2>6. q = p \/ q.from - p.to <= q.missed - p.missed
    BY <2>2 DEF MayFollow, Follows
  <2>7. q.from <= p.to + most
    <3>1. CASE q = p
      BY <1>3, <1>5, <3>1
    <3>2. CASE q.from - p.to <= q.missed - p.missed
      <4>1. /\ p.to \in Nat /\ p.missed \in Int /\ m \in Int /\ q.missed <= m
            /\ m - p.missed <= spent /\ spent <= most /\ spent \in Nat /\ most \in Nat
        BY <1>3, <1>5, <1>6, <2>2
      <4>. QED
        BY <2>3, <3>2, <4>1
    <3>. QED
      BY <2>6, <3>1, <3>2
  <2>8. now <= p.ends + most + Late + Jitter
    <3>1. PICK x, y, from : x = p.to /\ y = p.ends /\ from = q.from
      OBVIOUS
    <3>2. /\ x \in Nat /\ y \in Nat /\ from \in Nat /\ x <= y /\ from <= x + most
          /\ now <= from + Late + Jitter
      BY <1>3, <2>3, <2>5, <2>7, <3>1
    <3>3. now <= y + most + Late + Jitter
      BY <1>0, <1>5, <3>2
    <3>. QED
      BY <3>1, <3>3
  <2>. QED
    BY <1>0, <1>3, <1>5, <2>8
<1>. QED
  BY <1>3, <1>7, <1>8

(* The largest of the numbers compared fit into half of the counters' range.     *)
Delays(g) ==
  /\ Tolerates(g)
  /\ \A s \in Sessions : s.bsize <= g /\ 2 * (s.buff + Late + Jitter) < W
  /\ Jitter <= 1
  /\ 2 * ((2 * MaxFaults + 6) * g + 3 * Late + 3 * Jitter) < W
  /\ 2 * ((2 * MaxFaults + 6) * g + 3 * Late + 3 * Jitter) < Clock

(* How far apart the two time points may be.                                  *)
Span(g) == 3 * g + Late + Behind(g)

(* The later of the client's time points is that of the period at f1, which is    *)
(* the last one received unless there are more in the queue.  The reader is where *)
(* the frames due at the next cycle are.                                       *)
Follower(g, f1, ends, late) ==
  /\ PointAt(points.k1, points.t1, f1, late)
  /\ f1 <= ends - bsize /\ (timeq = <<>> <=> f1 = ends - bsize)
  /\ rx_tnext <= f1 + 2 * g + Behind(g)
  /\ sync = TRACKING =>
       /\ Agree(nrd, session.count + rx_tnext - late - k_del, W)
       /\ \E f0 : /\ f0 < f1 /\ f1 - f0 <= Span(g)
                  /\ PointAt(points.k0, points.t0, f0, late)

(* Every time the receiver knows is late by the same.                          *)
Reading(g, ends, late) ==
  /\ t0 \in Int /\ Agree(t0, session.clock + ends + late, Clock)
  /\ \E S : timeq \in Seq(S)
  /\ timeq # <<>> => PointAt(Last(timeq).count, Last(timeq).tjack, ends - bsize, late)
  /\ nrd \in Nat /\ sync \in {0, 1, TRACKING}
  /\ sync # 0 => ~rx_first /\ \E f1 : Follower(g, f1, ends, late)

(* What a cycle of the receiver's Jack client does.                            *)
LEMMA RxCycleCases ==
  ASSUME NEW skip, RxCycle(skip), NEW start, start = rx_tnext + skip,
         NEW at, at = nrd + (IF rx_first THEN 0 ELSE start - rx_tnext),
         NEW p, p = PointsRead,
         NEW state, state = (IF timeq # <<>> /\ sync < 2 THEN sync + 1 ELSE sync),
         NEW e, e = (IF state >= 2 THEN DelayError(p, start, at) ELSE 0)
  PROVE  /\ now \in start..(start + Late)
         /\ ~rx_first' /\ rx_tnext' = start + session.bsize /\ points' = p /\ timeq' = <<>>
         /\ \/ state < 2 /\ sync' = state /\ nrd' = at % W /\ heard' = <<>>
            \/ /\ state = 2 /\ sync' = TRACKING
               /\ heard' = [start |-> start, error |-> 0,
                            frames |-> capture(at + e, session.bsize)]
               /\ nrd' = (at + e + session.bsize) % W
            \/ /\ state = TRACKING /\ sync' = TRACKING
               /\ \E used \in Used(e) :
                    /\ heard' = [start |-> start, error |-> e, frames |-> capture(at, used)]
                    /\ nrd' = (at + used) % W
         /\ UNCHANGED <<session, now, vars, txvars, air, rxvars, gone, shaken>>
  BY Zenon DEF RxCycle

(* The time points of a cycle: the later is that of the period received last, the  *)
(* other is not too far from it and from the cycle.                            *)
LEMMA PointsSound ==
  ASSUME NEW g, Delays(g), TimesBase, Clocks(g), NEW ends \in Nat, NEW late \in 0..Jitter,
         Reading(g, ends, late), now <= ends + Behind(g), ends <= tx_tnext,
         NEW skip \in {0} \cup Skips, NEW start, start = rx_tnext + skip, start \in Nat,
         now \in start..(start + Late), timeq # <<>> \/ sync # 0,
         NEW p, p = PointsRead
  PROVE  /\ PointAt(p.k1, p.t1, ends - bsize, late)
         /\ start + session.bsize <= (ends - bsize) + 2 * g + Behind(g)
         /\ (timeq # <<>> /\ sync # 0) \/ sync = TRACKING =>
              \E f0 : /\ f0 < ends - bsize /\ (ends - bsize) - f0 <= Span(g)
                      /\ PointAt(p.k0, p.t0, f0, late)
                      /\ -Late <= start - f0 /\ start - f0 <= g + Behind(g) + Span(g)
<1>0. /\ g \in Nat /\ Late \in Nat /\ Jitter \in Nat /\ Behind(g) \in Nat
      /\ bsize \in Nat \ {0} /\ bsize <= g /\ session.bsize \in Nat /\ session.bsize <= g
      /\ now \in Nat /\ tx_tnext \in Nat /\ rx_tnext \in Nat
      /\ now <= rx_tnext + g + Late /\ tx_tnext - bsize <= now
      /\ Span(g) = 3 * g + Late + Behind(g) /\ Span(g) \in Nat
  <2>1. g \in Nat /\ Late \in Nat /\ Jitter \in Nat /\ Behind(g) \in Nat
    BY BehindNumber DEF Delays, Tolerates
  <2>2. session \in Sessions /\ now \in Nat /\ tx_tnext \in Nat /\ bsize = session.tx_fsize
    BY DEF TimesBase, SenderTimes
  <2>3. bsize \in Nat \ {0}
    BY SumInPeriod DEF TimesBase
  <2>4. session.bsize \in Nat /\ session.bsize <= g /\ bsize <= g
    BY <2>2, PathParams DEF Delays, Tolerates
  <2>5. Span(g) = 3 * g + Late + Behind(g)
    BY DEF Span
  <2>6. Span(g) \in Nat
    BY <2>1, <2>5, SMTT(30)
  <2>. QED
    BY <2>1, <2>2, <2>3, <2>4, <2>5, <2>6 DEF Clocks
<1>1. PICK n : n = ends - bsize
  OBVIOUS
<1>2. n \in Int /\ start <= now /\ now <= start + Late /\ n <= now /\ now <= n + bsize + Behind(g)
  BY <1>0, <1>1
<1>3. PointAt(p.k1, p.t1, n, late)
  <2>1. CASE timeq # <<>>
    <3>1. p = [k0 |-> points.k1, t0 |-> points.t1,
               k1 |-> Last(timeq).count, t1 |-> Last(timeq).tjack]
      BY <2>1 DEF PointsRead
    <3>. QED
      BY <1>1, <2>1, <3>1 DEF Reading
  <2>2. CASE timeq = <<>>
    <3>1. p = points
      BY <2>2 DEF PointsRead
    <3>2. PICK f1 : Follower(g, f1, ends, late)
      BY <2>2 DEF Reading
    <3>. QED
      BY <1>1, <2>2, <3>1, <3>2 DEF Follower
  <2>. QED
    BY <2>1, <2>2
<1>4. start + session.bsize <= n + 2 * g + Behind(g)
  <2>1. PICK behind, size : behind = Behind(g) /\ size = session.bsize
    OBVIOUS
  <2>2. /\ behind \in Nat /\ size \in Nat /\ size <= g /\ start <= now
        /\ now <= n + bsize + behind /\ bsize <= g /\ bsize \in Nat
    BY <1>0, <1>2, <2>1
  <2>3. start <= n + g + behind
    BY <1>0, <1>2, <2>2
  <2>4. start + size <= n + 2 * g + behind
    BY <1>0, <1>2, <2>2, <2>3
  <2>. QED
    BY <2>1, <2>4
<1>5. ASSUME (timeq # <<>> /\ sync # 0) \/ sync = TRACKING
      PROVE  \E f0 : /\ f0 < n /\ n - f0 <= Span(g)
                     /\ PointAt(p.k0, p.t0, f0, late)
                     /\ -Late <= start - f0 /\ start - f0 <= g + Behind(g) + Span(g)
  <2>1. sync # 0
    BY <1>5 DEF TRACKING
  <2>2. PICK f1 : Follower(g, f1, ends, late)
    BY <2>1 DEF Reading
  <2>3. /\ PointAt(points.k1, points.t1, f1, late) /\ f1 \in Nat
        /\ f1 <= n /\ (timeq = <<>> <=> f1 = n)
        /\ rx_tnext <= f1 + 2 * g + Behind(g)
        /\ sync = TRACKING =>
             \E f0 : /\ f0 < f1 /\ f1 - f0 <= Span(g)
                     /\ PointAt(points.k0, points.t0, f0, late)
    BY <1>1, <2>2 DEF Follower, PointAt
  <2>6. ASSUME NEW f \in Nat, f < n, n - f <= Span(g)
        PROVE  -Late <= start - f /\ start - f <= g + Behind(g) + Span(g)
    <3>1. PICK behind, span : behind = Behind(g) /\ span = Span(g)
      OBVIOUS
    <3>2. behind \in Nat /\ span \in Nat /\ now <= n + bsize + behind /\ n <= f + span
      BY <1>0, <1>2, <2>6, <3>1
    <3>3. start <= n + g + behind
      BY <1>0, <1>2, <3>2
    <3>4. start - f <= g + behind + span
      BY <1>0, <1>2, <3>2, <3>3
    <3>5. -Late <= start - f
      BY <1>0, <1>2, <2>6
    <3>. QED
      BY <3>1, <3>4, <3>5
  <2>4. CASE timeq # <<>>
    <3>1. p = [k0 |-> points.k1, t0 |-> points.t1,
               k1 |-> Last(timeq).count, t1 |-> Last(timeq).tjack]
      BY <2>4 DEF PointsRead
    <3>2. PointAt(p.k0, p.t0, f1, late)
      BY <2>3, <3>1
    <3>5. f1 \in Nat /\ f1 <= n /\ f1 # n /\ rx_tnext <= f1 + 2 * g + Behind(g)
      BY <2>3, <2>4
    <3>3. f1 < n /\ n - f1 <= Span(g)
      <4>1. PICK behind, span : behind = Behind(g) /\ span = Span(g)
        OBVIOUS
      <4>2. behind \in Nat /\ span = 3 * g + Late + behind /\ rx_tnext <= f1 + 2 * g + behind
        BY <1>0, <3>5, <4>1
      <4>3. n <= rx_tnext + g + Late
        BY <1>0, <1>2
      <4>4. n - f1 <= span
        BY <1>0, <1>2, <3>5, <4>2, <4>3
      <4>. QED
        BY <1>2, <3>5, <4>1, <4>4
    <3>4. -Late <= start - f1 /\ start - f1 <= g + Behind(g) + Span(g)
      BY <2>6, <3>3, <3>5
    <3>. QED
      BY <3>2, <3>3, <3>4
  <2>5. CASE timeq = <<>>
    <3>1. p = points /\ sync = TRACKING /\ f1 = n
      BY <1>5, <2>3, <2>5 DEF PointsRead
    <3>2. PICK f0 : f0 < f1 /\ f1 - f0 <= Span(g) /\ PointAt(points.k0, points.t0, f0, late)
      BY <2>3, <3>1
    <3>3. f0 \in Nat
      BY <3>2 DEF PointAt
    <3>4. -Late <= start - f0 /\ start - f0 <= g + Behind(g) + Span(g)
      <4>1. f0 < n /\ n - f0 <= Span(g)
        BY <3>1, <3>2
      <4>. QED
        BY <2>6, <3>3, <4>1
    <3>. QED
      BY <3>1, <3>2, <3>4
  <2>. QED
    BY <2>4, <2>5
<1>. QED
  BY <1>1, <1>3, <1>4, <1>5

(* A cycle finds no error, and reads the frames of its time.                   *)
LEMMA CycleReads ==
  ASSUME NEW g, Delays(g), TimesBase, Clocks(g), NEW ends \in Nat, NEW late \in 0..Jitter,
         Reading(g, ends, late), now <= ends + Behind(g), ends <= tx_tnext,
         NEW skip \in {0} \cup Skips, RxCycle(skip)
  PROVE  /\ Reading(g, ends, late)'
         /\ \/ heard' = <<>>
            \/ /\ sync' = TRACKING
               /\ \E x \in Int :
                    /\ Agree(x, session.count + (rx_tnext + skip) - late - k_del, W)
                    /\ heard' = [start |-> rx_tnext + skip, error |-> 0,
                                 frames |-> capture(x, session.bsize)]
<1>1. PICK start, at, p, state, e :
        /\ start = rx_tnext + skip
        /\ at = nrd + (IF rx_first THEN 0 ELSE start - rx_tnext)
        /\ p = PointsRead
        /\ state = (IF timeq # <<>> /\ sync < 2 THEN sync + 1 ELSE sync)
        /\ e = (IF state >= 2 THEN DelayError(p, start, at) ELSE 0)
  OBVIOUS
<1>2. /\ now \in start..(start + Late)
      /\ ~rx_first' /\ rx_tnext' = start + session.bsize /\ points' = p /\ timeq' = <<>>
      /\ \/ state < 2 /\ sync' = state /\ nrd' = at % W /\ heard' = <<>>
         \/ /\ state = 2 /\ sync' = TRACKING
            /\ heard' = [start |-> start, error |-> 0,
                         frames |-> capture(at + e, session.bsize)]
            /\ nrd' = (at + e + session.bsize) % W
         \/ /\ state = TRACKING /\ sync' = TRACKING
            /\ \E used \in Used(e) :
                 /\ heard' = [start |-> start, error |-> e, frames |-> capture(at, used)]
                 /\ nrd' = (at + used) % W
      /\ UNCHANGED <<session, now, vars, txvars, air, rxvars, gone, shaken>>
  BY <1>1, RxCycleCases
<1>3. UNCHANGED <<session, bsize, t0>>
  BY <1>2 DEF vars, rxvars
<1>4. /\ session \in Sessions /\ session.count \in Nat /\ session.bsize \in Nat
      /\ session.buff \in Nat /\ k_del = session.buff /\ W \in Nat \ {0} /\ W % 2 = 0
      /\ skip \in Nat /\ rx_tnext \in Nat /\ start \in Nat /\ start = rx_tnext + skip
      /\ late \in Nat /\ late <= Jitter
      /\ g \in Nat /\ Late \in Nat /\ Jitter \in Nat /\ Behind(g) \in Nat
  <2>1. session \in Sessions
    BY DEF TimesBase, SenderTimes
  <2>2. session.bsize \in Nat /\ session.buff \in Nat
    BY <2>1, PathParams
  <2>3. g \in Nat /\ Late \in Nat /\ Jitter \in Nat /\ Behind(g) \in Nat
    BY BehindNumber DEF Delays, Tolerates
  <2>4. skip \in Nat /\ rx_tnext \in Nat /\ session.count \in Nat /\ W \in Nat \ {0} /\ W % 2 = 0
    BY <2>1, SessionNumbers DEF Clocks
  <2>5. start \in Nat
    BY <1>1, <2>4
  <2>. QED
    BY <1>1, <2>1, <2>2, <2>3, <2>4, <2>5 DEF k_del
<1>5. nrd \in Nat /\ at \in Int /\ sync \in {0, 1, TRACKING} /\ TRACKING = 3
      /\ (sync # 0 => at = nrd + skip)
  BY <1>1, <1>4 DEF Reading, TRACKING
<1>6. ASSUME NEW x \in Int
      PROVE  x % W \in Nat /\ Agree(x % W, x, W)
  <2>1. x % W \in 0..(W - 1)
    BY <1>4, Remainder
  <2>2. (x % W) % W = x % W
    BY <1>4, <2>1, SmallRemainder
  <2>. QED
    BY <1>4, <2>1, <2>2 DEF Agree
<1>7. \A S : timeq' \in Seq(S)
  BY <1>2
<1>8. CASE timeq = <<>> /\ sync = 0
  <2>1. state = 0
    BY <1>1, <1>8
  <2>2. sync' = 0 /\ nrd' = at % W /\ heard' = <<>>
    BY <1>2, <1>5, <2>1
  <2>3. nrd' \in Nat
    BY <1>5, <1>6, <2>2
  <2>4. Reading(g, ends, late)'
    BY <1>2, <1>3, <1>7, <2>2, <2>3 DEF Reading
  <2>. QED
    BY <2>2, <2>4
<1>9. CASE timeq # <<>> \/ sync # 0
  <2>1. PICK n : n = ends - bsize /\ n' = n
    BY <1>3
  <2>2. /\ PointAt(p.k1, p.t1, n, late)
        /\ start + session.bsize <= n + 2 * g + Behind(g)
        /\ (timeq # <<>> /\ sync # 0) \/ sync = TRACKING =>
             \E f0 : /\ f0 < n /\ n - f0 <= Span(g)
                     /\ PointAt(p.k0, p.t0, f0, late)
                     /\ -Late <= start - f0 /\ start - f0 <= g + Behind(g) + Span(g)
    <3>1. /\ PointAt(p.k1, p.t1, ends - bsize, late)
          /\ start + session.bsize <= (ends - bsize) + 2 * g + Behind(g)
          /\ (timeq # <<>> /\ sync # 0) \/ sync = TRACKING =>
              \E f0 : /\ f0 < ends - bsize /\ (ends - bsize) - f0 <= Span(g)
                      /\ PointAt(p.k0, p.t0, f0, late)
                      /\ -Late <= start - f0 /\ start - f0 <= g + Behind(g) + Span(g)
      BY <1>1, <1>2, <1>4, <1>9, PointsSound
    <3>. QED
      BY <2>1, <3>1
  <2>3. \A c, t, f : PointAt(c, t, f, late) => PointAt(c, t, f, late)'
    BY <1>3 DEF PointAt
  <2>4. n \in Nat
    BY <2>2 DEF PointAt
  <2>5. ASSUME nrd' \in Nat, sync' \in {1, TRACKING},
               sync' = TRACKING =>
                 /\ Agree(nrd', session.count + (start + session.bsize) - late - k_del, W)
                 /\ \E f0 : /\ f0 < n /\ n - f0 <= Span(g)
                            /\ PointAt(p.k0, p.t0, f0, late)
        PROVE  Reading(g, ends, late)'
    <3>1. Follower(g, n, ends, late)'
      <4>1. PointAt(points.k1, points.t1, n, late)'
        BY <1>2, <1>3, <2>2 DEF PointAt
      <4>2. (n <= ends - bsize /\ (timeq = <<>> <=> n = ends - bsize))'
        BY <1>2, <1>3, <2>1, <2>4
      <4>3. (rx_tnext <= n + 2 * g + Behind(g))'
        BY <1>2, <1>3, <2>2
      <4>4. (sync = TRACKING =>
               /\ Agree(nrd, session.count + rx_tnext - late - k_del, W)
               /\ \E f0 : /\ f0 < n /\ n - f0 <= Span(g)
                          /\ PointAt(points.k0, points.t0, f0, late))'
        <5> SUFFICES ASSUME sync' = TRACKING
                     PROVE  (/\ Agree(nrd, session.count + rx_tnext - late - k_del, W)
                             /\ \E f0 : /\ f0 < n /\ n - f0 <= Span(g)
                                        /\ PointAt(points.k0, points.t0, f0, late))'
          OBVIOUS
        <5>1. Agree(nrd', session.count + (start + session.bsize) - late - k_del, W)
          BY <2>5
        <5>2. Agree(nrd, session.count + rx_tnext - late - k_del, W)'
          BY <1>2, <1>3, <5>1 DEF Agree, k_del
        <5>3. PICK f0 : f0 < n /\ n - f0 <= Span(g) /\ PointAt(p.k0, p.t0, f0, late)
          BY <2>5
        <5>4. PointAt(points.k0, points.t0, f0, late)'
          BY <1>2, <1>3, <5>3 DEF PointAt
        <5>. QED
          BY <5>2, <5>3, <5>4
      <4>. QED
        BY <4>1, <4>2, <4>3, <4>4 DEF Follower
    <3>. QED
      BY <1>2, <1>3, <1>5, <1>7, <2>5, <3>1 DEF Reading
  <2>6. CASE state < 2
    <3>1. sync' = state /\ nrd' = at % W /\ heard' = <<>> /\ state = 1
      BY <1>1, <1>2, <1>5, <1>9, <2>6
    <3>2. nrd' \in Nat /\ sync' = 1 /\ sync' # TRACKING
      BY <1>5, <1>6, <3>1
    <3>. QED
      BY <2>5, <3>1, <3>2
  <2>7. CASE state >= 2
    <3>1. (timeq # <<>> /\ sync # 0) \/ sync = TRACKING
      BY <1>1, <1>5, <2>7
    <3>2. sync # 0 /\ at = nrd + skip
      BY <1>5, <3>1
    <3>3. PICK f0 : /\ f0 < n /\ n - f0 <= Span(g)
                    /\ PointAt(p.k0, p.t0, f0, late)
                    /\ -Late <= start - f0 /\ start - f0 <= g + Behind(g) + Span(g)
      BY <2>2, <3>1
    <3>4. f0 \in Nat /\ p.k0 \in Nat /\ Agree(p.k0, session.count + f0, W)
      BY <3>3 DEF PointAt
    <3>5. PICK x : x = start - f0 - late
      OBVIOUS
    <3>6. /\ x \in Int /\ 2 * (n - f0) < W /\ 2 * (n - f0) < Clock
          /\ -Clock < 2 * x /\ 2 * x < Clock
          /\ -W < 2 * (k_del - x) /\ 2 * (k_del - x) < W
      <4>1. PICK most, big : /\ most = MaxFaults * g
                             /\ big = (2 * MaxFaults + 6) * g + 3 * Late + 3 * Jitter
        OBVIOUS
      <4>2. /\ most \in Nat /\ big = 2 * most + 6 * g + 3 * Late + 3 * Jitter
            /\ 2 * big < W /\ 2 * big < Clock
            /\ Behind(g) = most + g + Late + Jitter
            /\ Span(g) = 3 * g + Late + Behind(g)
            /\ 2 * (session.buff + Late + Jitter) < W
        BY <1>4, <4>1, BehindNumber DEF Delays, Behind, Span
      <4>3. Span(g) <= big /\ g + Behind(g) + Span(g) <= big /\ Late + Jitter <= big /\ big \in Nat
        BY <1>4, <4>2
      <4>4. x \in Int /\ -(Late + Jitter) <= x /\ x <= big
        <5>1. -Late <= start - f0 /\ start - f0 <= big
          <6>1. PICK k, y : k = g + Behind(g) + Span(g) /\ y = start - f0
            OBVIOUS
          <6>2. y <= k /\ k <= big /\ -Late <= y
            BY <3>3, <4>3, <6>1
          <6>3. y \in Int /\ k \in Int
            BY <1>4, <3>4, <4>2, <6>1
          <6>. QED
            BY <4>3, <6>1, <6>2, <6>3
        <5>. QED
          BY <1>4, <3>4, <3>5, <4>3, <5>1
      <4>5. n - f0 <= big /\ Clock \in Nat
        <5>1. Clock \in Nat
          BY PathParams
        <5>2. Span(g) \in Int
          BY <1>4, <4>2
        <5>. QED
          BY <2>4, <3>3, <3>4, <4>3, <5>1, <5>2
      <4>. QED
        BY <1>4, <2>4, <3>4, <4>2, <4>3, <4>4, <4>5
    <3>7. DelayError(p, start, at) = Signed(p.k0 - at) - k_del + x
      <4>1. /\ f0 < n /\ PointAt(p.k0, p.t0, f0, late) /\ PointAt(p.k1, p.t1, n, late)
            /\ start \in Nat /\ at \in Int /\ late \in Int /\ session \in Sessions
        BY <1>4, <1>5, <2>2, <3>3
      <4>2. /\ 2 * (n - f0) < W /\ 2 * (n - f0) < Clock
            /\ -Clock < 2 * (start - f0 - late) /\ 2 * (start - f0 - late) < Clock
        BY <3>5, <3>6
      <4>. QED
        BY <3>5, <4>1, <4>2, DelayFound
    <3>10. ASSUME NEW y \in Int, Agree(y, session.count + start - late - k_del, W)
           PROVE  Agree((y + session.bsize) % W,
                        session.count + (start + session.bsize) - late - k_del, W)
      <4>1. PICK u, b : u = session.count + start - late - k_del /\ b = session.bsize
        OBVIOUS
      <4>2. u \in Int /\ b \in Int /\ y + b \in Int /\ W \in Nat \ {0}
            /\ session.count + (start + session.bsize) - late - k_del = u + b
        BY <1>4, <4>1
      <4>3. Agree(y + b, u + b, W)
        BY <3>10, <4>1, <4>2, AgreeMoved
      <4>4. Agree((y + b) % W, y + b, W)
        BY <1>6, <4>2
      <4>. QED
        BY <4>1, <4>2, <4>3, <4>4 DEF Agree
    <3>8. CASE state = 2
      <4>1. e = Signed(p.k0 - at) - k_del + x
        BY <1>1, <3>7, <3>8
      <4>2. PICK z : z = Signed(p.k0 - at)
        OBVIOUS
      <4>3. p.k0 - at \in Int /\ k_del \in Int
        BY <1>4, <1>5, <3>4
      <4>4. z \in Int /\ Agree(z, p.k0 - at, W)
        BY <1>4, <4>2, <4>3, OnCircleSame DEF Signed, Agree
      <4>5. Agree(p.k0 - at, (session.count + f0) - at, W)
        <5>1. p.k0 \in Int /\ session.count + f0 \in Int /\ at \in Int
          BY <1>4, <1>5, <3>4
        <5>. QED
          BY <1>4, <3>4, <5>1, AgreeMoved
      <4>6. Agree(z, (session.count + f0) - at, W)
        BY <4>4, <4>5 DEF Agree
      <4>7. PICK c, u : c = (at - k_del) + x /\ u = (session.count + f0) - at
        OBVIOUS
      <4>8. c \in Int /\ u \in Int /\ z + c = at + e /\ at + e \in Int
            /\ u + c = session.count + start - late - k_del
        BY <1>4, <1>5, <3>4, <3>5, <3>6, <4>1, <4>2, <4>3, <4>4, <4>7
      <4>9. Agree(z + c, u + c, W)
        BY <1>4, <4>4, <4>6, <4>7, <4>8, AgreeMoved
      <4>10. Agree(at + e, session.count + start - late - k_del, W)
        BY <4>8, <4>9
      <4>11. /\ sync' = TRACKING /\ nrd' = (at + e + session.bsize) % W
             /\ heard' = [start |-> start, error |-> 0, frames |-> capture(at + e, session.bsize)]
        BY <1>2, <1>5, <3>8
      <4>12. PICK y : y = at + e
        OBVIOUS
      <4>13. y \in Int /\ nrd' = (y + session.bsize) % W
        BY <1>4, <4>8, <4>11, <4>12
      <4>14. nrd' \in Nat
        <5>1. y + session.bsize \in Int
          BY <1>4, <4>13
        <5>. QED
          BY <1>6, <4>13, <5>1
      <4>15. Agree(nrd', session.count + (start + session.bsize) - late - k_del, W)
        BY <3>10, <4>10, <4>12, <4>13
      <4>16. Reading(g, ends, late)'
        BY <2>5, <3>3, <4>11, <4>14, <4>15
      <4>. QED
        BY <1>1, <4>8, <4>10, <4>11, <4>16
    <3>9. CASE state = TRACKING
      <4>1. sync = TRACKING
        BY <1>1, <1>5, <3>9
      <4>2. Agree(nrd, session.count + rx_tnext - late - k_del, W)
        BY <1>5, <4>1 DEF Reading, Follower
      <4>3. Agree(at, session.count + start - late - k_del, W)
        <5>1. PICK u : u = session.count + rx_tnext - late - k_del
          OBVIOUS
        <5>2. /\ u \in Int /\ nrd \in Int /\ skip \in Int /\ nrd + skip = at
              /\ u + skip = session.count + start - late - k_del
          BY <1>4, <1>5, <3>2, <5>1
        <5>3. Agree(nrd + skip, u + skip, W)
          BY <1>4, <4>2, <5>1, <5>2, AgreeMoved
        <5>. QED
          BY <5>2, <5>3
      <4>4. Signed(p.k0 - at) = k_del - x
        <5>1. PICK u, v : u = session.count + f0 /\ v = session.count + start - late - k_del
          OBVIOUS
        <5>2. u \in Int /\ v \in Int /\ u - v = k_del - x /\ p.k0 \in Int /\ at \in Int
          BY <1>4, <1>5, <3>4, <3>5, <5>1
        <5>3. Agree(p.k0, u, W) /\ Agree(at, v, W) /\ -W < 2 * (u - v) /\ 2 * (u - v) < W
          BY <3>4, <3>6, <4>3, <5>1, <5>2
        <5>4. OnCircle(p.k0 - at, W) = u - v
          BY <1>4, <5>2, <5>3, CircleExact
        <5>. QED
          BY <5>2, <5>4 DEF Signed
      <4>5. e = 0
        <5>1. state >= 2
          BY <1>5, <3>9
        <5>2. e = DelayError(p, start, at)
          BY <1>1, <5>1
        <5>3. e = (k_del - x) - k_del + x
          BY <3>7, <4>4, <5>2
        <5>4. k_del \in Int /\ x \in Int
          BY <1>4, <3>6
        <5>. QED
          BY <5>3, <5>4
      <4>6. Used(e) = {session.bsize}
        BY <4>5 DEF Used
      <4>7. /\ sync' = TRACKING /\ nrd' = (at + session.bsize) % W
            /\ heard' = [start |-> start, error |-> 0, frames |-> capture(at, session.bsize)]
        BY <1>2, <1>5, <3>9, <4>5, <4>6
      <4>8. nrd' \in Nat
        <5>1. at + session.bsize \in Int
          BY <1>4, <1>5
        <5>. QED
          BY <1>6, <4>7, <5>1
      <4>9. Agree(nrd', session.count + (start + session.bsize) - late - k_del, W)
        BY <1>5, <3>10, <4>3, <4>7
      <4>10. Reading(g, ends, late)'
        BY <2>5, <3>3, <4>7, <4>8, <4>9
      <4>. QED
        BY <1>1, <1>5, <4>3, <4>7, <4>10
    <3>. QED
      BY <1>1, <1>2, <1>5, <2>7, <3>8, <3>9
  <2>. QED
    BY <1>1, <1>5, <2>6, <2>7
<1>. QED
  BY <1>5, <1>8, <1>9

(* Where the audio queue ends, and what the next packet is counted.               *)
LEMMA Counts ==
  ASSUME TimesBase, NEW g, NEW to \in Nat, NEW ends \in Nat, Linked(g, to, ends)
  PROVE  /\ ~first => nwr \in Nat /\ Agree(nwr, session.count + to, W)
         /\ air # <<>> => /\ Head(air).packet.count \in Nat
                          /\ Agree(Head(air).packet.count, session.count + Head(air).frame, W)
                          /\ Head(air).packet.nfram \in Nat \ {0} /\ OnTime(Head(air))
                          /\ Head(air).frame + Head(air).packet.nfram <= tx_tnext
<1>1. PICK parts, m : /\ Chain(parts, m) /\ Received(parts[0])
                      /\ parts[0].to = to /\ parts[0].ends = ends
  BY DEF Linked
<1>2. ~first => nwr \in Nat /\ Agree(nwr, session.count + to, W)
  BY <1>1 DEF Received, Agree
<1>3. ASSUME air # <<>>
      PROVE  /\ Head(air).packet.count \in Nat
             /\ Agree(Head(air).packet.count, session.count + Head(air).frame, W)
             /\ Head(air).packet.nfram \in Nat \ {0} /\ OnTime(Head(air))
             /\ Head(air).frame + Head(air).packet.nfram <= tx_tnext
  <2>1. PICK S : air \in Seq(S)
    BY DEF TimesBase, AirTimes
  <2>2. Len(air) \in Nat /\ 1 \in 1..Len(air) /\ 1 \in 0..Len(air) /\ Head(air) = air[1]
    BY <1>3, <2>1
  <2>3. PICK a, q : a = Head(air) /\ q = parts[1]
    OBVIOUS
  <2>4. /\ Brings(a, q) /\ OnTime(a) /\ q.from \in Nat /\ q.to \in Nat /\ q.ends \in Nat
        /\ q.to <= q.ends /\ q.ends <= tx_tnext /\ tx_tnext \in Nat
    BY <1>1, <2>2, <2>3, PartNumbers DEF Chain, TimesBase, AirTimes, SenderTimes
  <2>5. /\ a.packet.count \in Nat /\ a.packet.count % W = (session.count + q.from) % W
        /\ a.frame = q.from /\ a.packet.nfram = q.to - q.from /\ q.from < q.to
    BY <2>4 DEF Brings
  <2>6. a.packet.nfram \in Nat \ {0} /\ a.frame + a.packet.nfram <= tx_tnext
    BY <2>4, <2>5
  <2>. QED
    BY <2>3, <2>4, <2>5, <2>6 DEF Agree
<1>. QED
  BY <1>2, <1>3

(* An error of a frame is too small for the loop.                              *)
LEMMA NoCorrection ==
  ASSUME NEW x \in (-1)..1
  PROVE  Corrections(x) = {0}
<1>1. 0 \div 2 = 0 /\ 1 \div 2 = 0 /\ 0..0 = {0}
  OBVIOUS
<1>2. CASE x >= 0
  <2>1. x = 0 \/ x = 1
    BY <1>2
  <2>2. Corrections(x) = 0..(x \div 2)
    BY <1>2 DEF Corrections
  <2>. QED
    BY <1>1, <2>1, <2>2
<1>3. CASE x < 0
  <2>1. -x = 1 /\ ~(x >= 0)
    BY <1>3
  <2>2. PICK z : z = 1 \div 2
    OBVIOUS
  <2>3. Corrections(x) = (-z)..0
    BY <2>1, <2>2 DEF Corrections
  <2>4. -z = 0
    <3>1. z \in Int /\ z <= 0 /\ z >= 0
      BY <1>1, <2>2
    <3>. QED
      BY <3>1
  <2>. QED
    BY <1>1, <2>3, <2>4
<1>. QED
  BY <1>2, <1>3

(* The last time point of a queue is the one written last.                       *)
LEMMA LastAppended ==
  ASSUME NEW S, NEW q \in Seq(S), NEW x
  PROVE  /\ \E U : Append(q, x) \in Seq(U)
         /\ Append(q, x) # <<>> /\ Last(Append(q, x)) = x
<1>1. q \in Seq(S \cup {x}) /\ x \in S \cup {x}
  OBVIOUS
<1>2. /\ Append(q, x) \in Seq(S \cup {x}) /\ Len(Append(q, x)) = Len(q) + 1
      /\ Append(q, x)[Len(q) + 1] = x /\ Len(q) \in Nat
  BY <1>1, AppendProperties
<1>3. Append(q, x) # <<>>
  BY <1>2
<1>. QED
  BY <1>2, <1>3 DEF Last

(* The time point of a period and the time predicted for the next one.            *)
LEMMA PeriodRead ==
  ASSUME TimesBase, NEW packet, Timed(packet), NEW base \in Int, NEW dc \in Int, NEW time \in Int,
         Take(packet, base, dc, time), NEW frame \in Nat, NEW next \in Nat,
         NEW late \in Nat, frame = next - bsize,
         Agree(base + dc, session.count + frame, W),
         Agree(time, session.clock + frame + late, Clock),
         \E S : timeq \in Seq(S), UNCHANGED <<session, bsize>>
  PROVE  /\ t0' \in Int /\ Agree(t0', session.clock + next + late, Clock)
         /\ (\E S : timeq \in Seq(S))' /\ timeq' # <<>>
         /\ PointAt(Last(timeq).count, Last(timeq).tjack, next - bsize, late)'
<1>1. PICK point : /\ point = [count |-> (base + dc) % W, tjack |-> time]
                   /\ timeq' = Append(timeq, point) /\ t0' = tjack_diff(time, -bsize)
  BY DEF Take, Timed
<1>2. t0' \in Int /\ Agree(t0', session.clock + next + late, Clock)
  <2>1. late \in Int /\ time % Clock = (session.clock + frame + late) % Clock
    BY DEF Agree
  <2>2. /\ tjack_diff(time, -bsize) \in Int
        /\ tjack_diff(time, -bsize) % Clock = (session.clock + next + late) % Clock
    BY <2>1, TimeOfNext
  <2>. QED
    BY <1>1, <2>2 DEF Agree
<1>3. (\E S : timeq \in Seq(S))' /\ timeq' # <<>> /\ Last(timeq') = point
  BY <1>1, LastAppended
<1>4. point.count \in Nat /\ Agree(point.count, session.count + frame, W)
  <2>1. PICK x : x = base + dc
    OBVIOUS
  <2>2. W \in Nat \ {0} /\ x \in Int
    BY <2>1, PathParams
  <2>3. x % W \in 0..(W - 1)
    BY <2>2, Remainder
  <2>4. (x % W) % W = x % W
    BY <2>2, <2>3, SmallRemainder
  <2>5. point.count = x % W
    BY <1>1, <2>1
  <2>. QED
    BY <2>1, <2>2, <2>3, <2>4, <2>5 DEF Agree
<1>5. point.tjack = time
  BY <1>1
<1>6. PointAt(point.count, point.tjack, frame, late)'
  BY <1>4, <1>5 DEF PointAt
<1>7. (next - bsize)' = frame
  OBVIOUS
<1>. QED
  BY <1>2, <1>3, <1>6, <1>7 DEF PointAt

(* The first packet tells how late all times are.                              *)
LEMMA FirstReads ==
  ASSUME NEW g, TimesBase, Clocks(g), Receive, NEW to \in Nat, NEW ends \in Nat,
         Linked(g, to, ends), first, NEW next \in Nat, Accepted(Head(air), to, ends, next),
         timeq = <<>>, sync = 0, nrd \in Nat
  PROVE  \E late \in 0..Jitter : Reading(g, next, late)'
<1>1. PICK a : a = Head(air)
  OBVIOUS
<1>2. air # <<>> /\ UNCHANGED <<session, bsize, sync, nrd, rx_first>>
  BY DEF Receive, vars, jrxvars
<1>3. /\ Timed(a.packet) /\ a.frame = next - bsize
      /\ Take(a.packet, a.packet.count, 0, tjack(now) - a.packet.dtime)
  BY <1>1 DEF Accepted
<1>4. /\ a.packet.count \in Nat /\ Agree(a.packet.count, session.count + a.frame, W)
      /\ OnTime(a)
  BY <1>1, <1>2, Counts
<1>5. a.frame \in Nat
  <2>1. PICK S : air \in Seq(S)
    BY DEF TimesBase, AirTimes
  <2>2. 1 \in 1..Len(air) /\ Head(air) = air[1]
    BY <1>2, <2>1
  <2>. QED
    BY <1>1, <2>2 DEF Clocks
<1>6. PICK time, late : /\ time = tjack(now) - a.packet.dtime /\ time \in Int /\ late \in 0..Jitter
                        /\ Agree(time, session.clock + a.frame + late, Clock)
  BY <1>3, <1>4, <1>5, TimeOfArrival DEF Agree
<1>7. late \in Nat /\ \E S : timeq \in Seq(S)
  <2>1. Jitter \in Nat /\ timeq \in Seq({})
    BY PathParams
  <2>. QED
    BY <1>6, <2>1
<1>8. a.packet.count \in Int /\ 0 \in Int /\ Agree(a.packet.count + 0, session.count + a.frame, W)
  BY <1>4
<1>9. /\ t0' \in Int /\ Agree(t0', session.clock + next + late, Clock)
      /\ (\E S : timeq \in Seq(S))' /\ timeq' # <<>>
      /\ PointAt(Last(timeq).count, Last(timeq).tjack, next - bsize, late)'
  <2>1. Take(a.packet, a.packet.count, 0, time) /\ UNCHANGED <<session, bsize>>
    BY <1>2, <1>3, <1>6
  <2>2. PICK packet, base, frame : packet = a.packet /\ base = a.packet.count /\ frame = a.frame
    OBVIOUS
  <2>3. /\ Timed(packet) /\ base \in Int /\ 0 \in Int /\ time \in Int /\ Take(packet, base, 0, time)
        /\ frame \in Nat /\ frame = next - bsize /\ Agree(base + 0, session.count + frame, W)
        /\ Agree(time, session.clock + frame + late, Clock)
    BY <1>3, <1>5, <1>6, <1>8, <2>1, <2>2
  <2>4. UNCHANGED <<session, bsize>>
    BY <1>2
  <2>. QED
    BY <1>7, <2>3, <2>4, PeriodRead, SMTT(30)
<1>10. Agree(t0, session.clock + next + late, Clock)'
  BY <1>2, <1>9 DEF Agree
<1>. QED
  BY <1>2, <1>6, <1>9, <1>10 DEF Reading

(* A packet that follows has its period's time, or none.                        *)
LEMMA ReceiveReads ==
  ASSUME NEW g, Delays(g), TimesBase, Clocks(g), Receive, NEW to \in Nat, NEW ends \in Nat,
         Linked(g, to, ends), ~first, NEW next \in Nat, Accepted(Head(air), to, ends, next),
         err' \in (-Jitter)..Jitter, NEW late \in 0..Jitter, Reading(g, ends, late)
  PROVE  Reading(g, next, late)'
<1>1. PICK a : a = Head(air)
  OBVIOUS
<1>2. air # <<>> /\ UNCHANGED <<session, bsize, sync, nrd, rx_first, rx_tnext, points>>
  BY DEF Receive, vars, jrxvars
<1>3. PICK c : /\ c \in (IF Timed(a.packet) THEN Corrections(err') ELSE {0})
               /\ Take(a.packet, nwr, a.frame - to, t0 + (a.frame - to) + c)
  BY <1>1 DEF Accepted
<1>4. c = 0
  <2>1. Jitter \in Nat /\ Jitter <= 1
    BY PathParams DEF Delays
  <2>2. PICK x : x = err' /\ x \in (-1)..1
    BY <2>1
  <2>. QED
    BY <1>3, <2>2, NoCorrection
<1>5. a.frame \in Nat /\ bsize \in Nat \ {0}
  <2>1. PICK S : air \in Seq(S)
    BY DEF TimesBase, AirTimes
  <2>2. 1 \in 1..Len(air) /\ Head(air) = air[1]
    BY <1>2, <2>1
  <2>. QED
    BY <1>1, <2>2, SumInPeriod DEF Clocks, TimesBase
<1>6. /\ session \in Sessions /\ session.count \in Nat /\ session.clock \in Nat
      /\ W \in Nat \ {0} /\ Clock \in Nat \ {0} /\ late \in Nat
      /\ nwr \in Nat /\ Agree(nwr, session.count + to, W)
      /\ t0 \in Int /\ Agree(t0, session.clock + ends + late, Clock)
  <2>1. session \in Sessions /\ Jitter \in Nat
    BY PathParams DEF TimesBase, SenderTimes
  <2>. QED
    BY <2>1, SessionNumbers, Counts DEF Reading
<1>7. CASE ~Timed(a.packet)
  <2>1. next = ends /\ a.frame = to
    BY <1>1, <1>7 DEF Accepted
  <2>2. timeq' = timeq /\ t0' = t0 + (a.frame - to) + c
    BY <1>3, <1>7 DEF Take, Timed
  <2>3. t0' = t0
    BY <1>4, <1>5, <1>6, <2>1, <2>2
  <2>. QED
    BY <1>2, <2>1, <2>2, <2>3 DEF Reading, Follower, PointAt, Agree, k_del
<1>8. CASE Timed(a.packet)
  <2>1. to = ends /\ a.frame = next - bsize /\ to <= a.frame
    BY <1>1, <1>8 DEF Accepted
  <2>2. PICK time, gap : gap = a.frame - to /\ time = t0 + gap + c
    OBVIOUS
  <2>3. /\ gap \in Int /\ time \in Int /\ time = t0 + gap
        /\ (session.count + to) + gap = session.count + a.frame
        /\ (session.clock + ends + late) + gap = session.clock + a.frame + late
        /\ session.count + to \in Int /\ session.clock + ends + late \in Int /\ nwr \in Int
    BY <1>4, <1>5, <1>6, <2>1, <2>2
  <2>4. Agree(nwr + gap, session.count + a.frame, W)
    <3>1. Agree(nwr + gap, (session.count + to) + gap, W)
      BY <1>6, <2>3, AgreeMoved
    <3>. QED
      BY <2>3, <3>1
  <2>5. Agree(time, session.clock + a.frame + late, Clock)
    <3>1. Agree(t0 + gap, (session.clock + ends + late) + gap, Clock)
      BY <1>6, <2>3, AgreeMoved
    <3>. QED
      BY <2>3, <3>1
  <2>6. /\ t0' \in Int /\ Agree(t0', session.clock + next + late, Clock)
        /\ (\E S : timeq \in Seq(S))' /\ timeq' # <<>>
        /\ PointAt(Last(timeq).count, Last(timeq).tjack, next - bsize, late)'
    <3>1. Take(a.packet, nwr, gap, time) /\ UNCHANGED <<session, bsize>>
      BY <1>2, <1>3, <2>2
    <3>2. \E S : timeq \in Seq(S)
      BY DEF Reading
    <3>3. /\ nwr \in Int /\ gap \in Int /\ time \in Int /\ a.frame \in Nat /\ late \in Nat
          /\ a.frame = next - bsize /\ Timed(a.packet)
      BY <1>5, <1>6, <1>8, <2>1, <2>3
    <3>4. PICK packet, frame : packet = a.packet /\ frame = a.frame
      OBVIOUS
    <3>5. /\ Timed(packet) /\ Take(packet, nwr, gap, time) /\ frame \in Nat /\ frame = next - bsize
          /\ Agree(nwr + gap, session.count + frame, W)
          /\ Agree(time, session.clock + frame + late, Clock)
      BY <2>4, <2>5, <3>1, <3>3, <3>4
    <3>6. UNCHANGED <<session, bsize>>
      BY <3>1
    <3>7. nwr \in Int /\ gap \in Int /\ time \in Int /\ late \in Nat
      BY <3>3
    <3>. QED
      BY <3>2, <3>5, <3>6, <3>7, PeriodRead, SMTT(30)
  <2>7. Agree(t0, session.clock + next + late, Clock)'
    BY <1>2, <2>6 DEF Agree
  <2>8. ASSUME NEW f1, Follower(g, f1, ends, late)
        PROVE  Follower(g, f1, next, late)'
    <3>1. f1 \in Nat /\ f1 <= ends - bsize
      BY <2>8 DEF Follower, PointAt
    <3>2. (f1 <= next - bsize)' /\ (f1 # next - bsize)'
      BY <1>2, <1>5, <2>1, <3>1
    <3>. QED
      BY <1>2, <2>6, <2>8, <3>2 DEF Follower, PointAt, Agree, k_del
  <2>9. (nrd \in Nat /\ sync \in {0, 1, TRACKING}
         /\ (sync # 0 => ~rx_first /\ \E f1 : Follower(g, f1, next, late)))'
    BY <1>2, <2>8 DEF Reading
  <2>. QED
    BY <2>6, <2>7, <2>9 DEF Reading
<1>. QED
  BY <1>7, <1>8

(* Nothing is heard before the first packet, and no error is found behind it.        *)
DelaySound(g) ==
  /\ TimesSound(g) /\ Clocks(g)
  /\ ~shaken =>
       /\ heard # <<>> => heard.error = 0
       /\ IF first THEN timeq = <<>> /\ sync = 0 /\ nrd \in Nat
          ELSE \E to, ends \in Nat, late \in 0..Jitter : Linked(g, to, ends) /\ Reading(g, ends, late)

(* Nothing is received or heard at the start.                                   *)
LEMMA DelayStarts ==
  ASSUME NEW g \in Nat
  PROVE  PathInit => DelaySound(g)
<1> SUFFICES ASSUME PathInit PROVE DelaySound(g)
  OBVIOUS
<1>1. TimesSound(g) /\ Clocks(g)
  BY TimesStart, ClocksStart
<1>. QED
  BY <1>1 DEF DelaySound, PathInit

(* Steps of the sender, the network and time change nothing the reader knows.        *)
LEMMA ReadingStays ==
  ASSUME NEW g, DelaySound(g), Keeps(g), Clocks(g)',
         UNCHANGED <<session, bsize, first, t0, timeq, jrxvars>>
  PROVE  DelaySound(g)'
<1>1. TimesSound(g)'
  BY KeepsSound DEF DelaySound
<1>2. ASSUME ~shaken'
      PROVE  /\ (heard # <<>> => heard.error = 0)'
             /\ (IF first THEN timeq = <<>> /\ sync = 0 /\ nrd \in Nat
                 ELSE \E to, ends \in Nat, late \in 0..Jitter :
                        Linked(g, to, ends) /\ Reading(g, ends, late))'
  <2>1. /\ ~shaken
        /\ \A to, ends \in Nat : Linked(g, to, ends) => Linked(g, to, ends)'
    BY <1>2 DEF Keeps
  <2>2. \A ends, late : Reading(g, ends, late) => Reading(g, ends, late)'
    BY DEF Reading, Follower, PointAt, Agree, k_del, jrxvars
  <2>3. /\ heard # <<>> => heard.error = 0
        /\ IF first THEN timeq = <<>> /\ sync = 0 /\ nrd \in Nat
           ELSE \E to, ends \in Nat, late \in 0..Jitter : Linked(g, to, ends) /\ Reading(g, ends, late)
    BY <2>1 DEF DelaySound
  <2>. QED
    BY <2>1, <2>2, <2>3 DEF jrxvars
<1>. QED
  BY <1>1, <1>2 DEF DelaySound

(* The receive thread keeps the times with what it takes from the network.          *)
LEMMA DelayReceived ==
  ASSUME NEW g, Delays(g), DelaySound(g), Clocks(g)', Receive
  PROVE  DelaySound(g)'
<1>1. /\ g \in Nat /\ Tolerates(g) /\ Jitter \in Nat
      /\ 2 * ((MaxFaults + 1) * g) < W /\ 2 * Jitter < Clock
  <2>1. g \in Nat /\ Tolerates(g)
    BY DEF Delays, Tolerates
  <2>2. PICK most : most = MaxFaults * g
    OBVIOUS
  <2>3. /\ most \in Nat /\ Late \in Nat /\ Jitter \in Nat
        /\ (2 * MaxFaults + 6) * g = 2 * most + 6 * g
        /\ (MaxFaults + 1) * g = most + g
    BY <2>1, <2>2, BehindNumber
  <2>4. W \in Nat /\ Clock \in Nat
    BY PathParams
  <2>5. /\ 2 * ((2 * most + 6 * g) + 3 * Late + 3 * Jitter) < W
        /\ 2 * ((2 * most + 6 * g) + 3 * Late + 3 * Jitter) < Clock
    BY <2>3 DEF Delays
  <2>6. 2 * (most + g) < W /\ 2 * Jitter < Clock
    BY <2>1, <2>3, <2>4, <2>5
  <2>. QED
    BY <2>1, <2>3, <2>6
<1>2. /\ TimesSound(g)'
      /\ ~shaken => \A to, ends \in Nat : Linked(g, to, ends) => Brought(g, to, ends)
  BY <1>1, ReceiveTimes DEF DelaySound
<1>3. UNCHANGED <<session, bsize, shaken, jrxvars>>
  BY DEF Receive, vars
<1>4. TimesBase /\ Clocks(g)
  BY DEF DelaySound, TimesSound
<1>5. ASSUME ~shaken
      PROVE  /\ (heard # <<>> => heard.error = 0)'
             /\ (IF first THEN timeq = <<>> /\ sync = 0 /\ nrd \in Nat
                 ELSE \E to, ends \in Nat, late \in 0..Jitter :
                        Linked(g, to, ends) /\ Reading(g, ends, late))'
  <2>1. (heard # <<>> => heard.error = 0)'
    BY <1>3, <1>5 DEF DelaySound, jrxvars
  <2>2. CASE first
    <3>1. timeq = <<>> /\ sync = 0 /\ nrd \in Nat
      BY <1>5, <2>2 DEF DelaySound
    <3>2. PICK to \in Nat, ends \in Nat : Linked(g, to, ends) /\ Brought(g, to, ends)
      BY <1>2, <1>5 DEF DelaySound, TimesSound
    <3>3. PICK upto \in Nat, next \in Nat :
            Accepted(Head(air), to, ends, next) /\ Linked(g, upto, next)'
      BY <2>2, <3>2 DEF Brought
    <3>4. \E late \in 0..Jitter : Reading(g, next, late)'
      BY <1>4, <2>2, <3>1, <3>2, <3>3, FirstReads
    <3>5. ~first'
      BY <3>3 DEF Accepted
    <3>. QED
      BY <2>1, <3>3, <3>4, <3>5
  <2>3. CASE ~first
    <3>1. PICK to \in Nat, ends \in Nat, late \in 0..Jitter : Linked(g, to, ends) /\ Reading(g, ends, late)
      BY <1>5, <2>3 DEF DelaySound
    <3>2. Brought(g, to, ends)
      BY <1>2, <1>5, <3>1
    <3>3. CASE UNCHANGED <<rxvars, timeq>> /\ Linked(g, to, ends)'
      <4>1. Reading(g, ends, late)'
        BY <1>3, <3>1, <3>3 DEF Reading, Follower, PointAt, Agree, k_del, jrxvars, rxvars
      <4>2. ~first'
        BY <2>3, <3>3 DEF rxvars
      <4>. QED
        BY <2>1, <3>3, <4>1, <4>2
    <3>4. CASE \E upto, next \in Nat : Accepted(Head(air), to, ends, next) /\ Linked(g, upto, next)'
      <4>1. PICK upto \in Nat, next \in Nat :
              Accepted(Head(air), to, ends, next) /\ Linked(g, upto, next)'
        BY <3>4
      <4>2. err' \in (-Jitter)..Jitter /\ ~first'
        BY <3>2, <4>1 DEF Brought, Accepted
      <4>3. Reading(g, next, late)'
        BY <1>4, <2>3, <3>1, <4>1, <4>2, ReceiveReads
      <4>. QED
        BY <2>1, <4>1, <4>2, <4>3
    <3>. QED
      BY <3>2, <3>3, <3>4 DEF Brought
  <2>. QED
    BY <2>2, <2>3
<1>. QED
  BY <1>2, <1>3, <1>5 DEF DelaySound

(* A cycle of the receiver's Jack client finds no error.                          *)
LEMMA DelayRead ==
  ASSUME NEW g, Delays(g), DelaySound(g), Keeps(g), Clocks(g)',
         NEW skip \in {0} \cup Skips, RxCycle(skip)
  PROVE  DelaySound(g)'
<1>1. TimesSound(g)'
  BY KeepsSound DEF DelaySound
<1>2. UNCHANGED <<session, bsize, shaken, first, t0>>
  BY DEF RxCycle, vars, rxvars
<1>3. TimesBase /\ Clocks(g) /\ g \in Nat
  BY DEF DelaySound, TimesSound, Delays, Tolerates
<1>4. ASSUME ~shaken
      PROVE  /\ (heard # <<>> => heard.error = 0)'
             /\ (IF first THEN timeq = <<>> /\ sync = 0 /\ nrd \in Nat
                 ELSE \E to, ends \in Nat, late \in 0..Jitter :
                        Linked(g, to, ends) /\ Reading(g, ends, late))'
  <2>1. CASE first
    <3>1. timeq = <<>> /\ sync = 0 /\ nrd \in Nat
      BY <1>4, <2>1 DEF DelaySound
    <3>2. PICK start, at, p, state, e :
            /\ start = rx_tnext + skip
            /\ at = nrd + (IF rx_first THEN 0 ELSE start - rx_tnext)
            /\ p = PointsRead
            /\ state = (IF timeq # <<>> /\ sync < 2 THEN sync + 1 ELSE sync)
            /\ e = (IF state >= 2 THEN DelayError(p, start, at) ELSE 0)
      OBVIOUS
    <3>3. state = 0 /\ at \in Int /\ W \in Nat \ {0}
      <4>1. skip \in Int /\ rx_tnext \in Int
        BY <1>3, PathParams DEF Clocks
      <4>. QED
        BY <3>1, <3>2, <4>1, PathParams
    <3>4. timeq' = <<>> /\ sync' = 0 /\ nrd' = at % W /\ heard' = <<>>
      BY <3>2, <3>3, RxCycleCases DEF TRACKING
    <3>5. nrd' \in Nat
      <4>1. at % W \in 0..(W - 1)
        BY <3>3, Remainder
      <4>. QED
        BY <3>3, <3>4, <4>1
    <3>. QED
      BY <1>2, <2>1, <3>4, <3>5
  <2>2. CASE ~first
    <3>1. PICK to \in Nat, ends \in Nat, late \in 0..Jitter : Linked(g, to, ends) /\ Reading(g, ends, late)
      BY <1>4, <2>2 DEF DelaySound
    <3>2. ends <= tx_tnext /\ now <= ends + Behind(g)
      BY <1>3, <2>2, <3>1, Reached
    <3>3. /\ Reading(g, ends, late)'
          /\ \/ heard' = <<>>
             \/ \E x \in Int : heard' = [start |-> rx_tnext + skip, error |-> 0,
                                         frames |-> capture(x, session.bsize)]
      BY <1>3, <3>1, <3>2, CycleReads
    <3>4. (heard # <<>> => heard.error = 0)'
      BY <3>3
    <3>5. Linked(g, to, ends)'
      BY <1>2, <1>4, <3>1 DEF Keeps
    <3>. QED
      BY <1>2, <2>2, <3>3, <3>4, <3>5
  <2>. QED
    BY <2>1, <2>2
<1>. QED
  BY <1>1, <1>2, <1>4 DEF DelaySound

(* Every step keeps the delay.                                                 *)
LEMMA DelayStays ==
  ASSUME NEW g, Delays(g), DelaySound(g), [PathNext]_pathvars
  PROVE  DelaySound(g)'
<1>1. g \in Nat /\ Tolerates(g) /\ TimesSound(g) /\ TimesBase /\ Clocks(g)
  BY DEF Delays, Tolerates, DelaySound, TimesSound
<1>2. Clocks(g)'
  BY <1>1, ClocksKept
<1>3. CASE ReadList \/ SetUp \/ UNCHANGED pathvars
  <2>1. /\ UNCHANGED <<session, now, vars, txvars, air, first, t0, err, nwr, shaken, faults>>
        /\ UNCHANGED <<timeq, jrxvars>>
    BY <1>3 DEF ReadList, SetUp, pathvars, rxvars
  <2>2. Keeps(g)
    BY <1>1, <2>1, TimesStay
  <2>. QED
    BY <1>2, <2>1, <2>2, ReadingStays DEF vars
<1>4. CASE \E skip \in {0} \cup Skips : TxCycle(skip)
  <2>1. Keeps(g)
    BY <1>1, <1>4, TxCycleTimes
  <2>2. UNCHANGED <<session, bsize, first, t0, timeq, jrxvars>>
    BY <1>4 DEF TxCycle, Period, rxvars
  <2>. QED
    BY <1>2, <2>1, <2>2, ReadingStays
<1>5. CASE TxPacket
  <2>1. Keeps(g)
    BY <1>1, <1>5, TxPacketTimes
  <2>2. UNCHANGED <<session, bsize, first, t0, timeq, jrxvars>>
    BY <1>5 DEF TxPacket, Packet, rxvars
  <2>. QED
    BY <1>2, <2>1, <2>2, ReadingStays
<1>6. CASE Lose
  <2>1. Keeps(g)
    BY <1>1, <1>6, LoseTimes
  <2>2. UNCHANGED <<session, bsize, first, t0, timeq, jrxvars>>
    BY <1>6 DEF Lose, vars, rxvars
  <2>. QED
    BY <1>2, <2>1, <2>2, ReadingStays
<1>7. CASE Repeat
  <2>1. Keeps(g)
    BY <1>1, <1>7, RepeatTimes
  <2>2. UNCHANGED <<session, bsize, first, t0, timeq, jrxvars>>
    BY <1>7 DEF Repeat, vars, rxvars
  <2>. QED
    BY <1>2, <2>1, <2>2, ReadingStays
<1>8. CASE Receive
  BY <1>2, <1>8, DelayReceived
<1>9. CASE \E skip \in {0} \cup Skips : RxCycle(skip)
  <2>1. PICK skip \in {0} \cup Skips : RxCycle(skip)
    BY <1>9
  <2>2. /\ UNCHANGED <<session, now, vars, txvars, air, first, t0, err, nwr, shaken>>
        /\ faults' = faults \/ (faults < MaxFaults /\ faults' = faults + 1)
    BY <2>1 DEF RxCycle, Skipped, rxvars
  <2>3. Keeps(g)
    BY <1>1, <2>2, TimesStay
  <2>. QED
    BY <1>2, <2>1, <2>3, DelayRead
<1>10. CASE Tick
  <2>1. Keeps(g)
    BY <1>1, <1>10, TickTimes
  <2>2. UNCHANGED <<session, bsize, first, t0, timeq, jrxvars>>
    BY <1>10 DEF Tick, vars, rxvars
  <2>. QED
    BY <1>2, <2>1, <2>2, ReadingStays
<1>. QED
  BY <1>3, <1>4, <1>5, <1>6, <1>7, <1>8, <1>9, <1>10 DEF PathNext

(* Once Jackrx::jack_process has set the delay, it finds it right in every cycle:   *)
(* the time points, the clock and the two counters agree through skipped and late   *)
(* cycles of both programs, lost periods, repeated packets and wraps, in sessions   *)
(* of any length and whatever the periods, when the network's jitter is at most a   *)
(* frame and what may be missing and buffered is less than half the range of the    *)
(* counters and of the clock.                                                  *)
THEOREM DelayStaysKept ==
  ASSUME NEW g \in Nat,
         \A skip \in Skips : skip <= g,
         \A s \in Sessions : s.tx_fsize <= g /\ s.bsize <= g,
         \A s \in Sessions : 2 * (s.buff + Late + Jitter) < W,
         Jitter <= 1,
         2 * ((2 * MaxFaults + 6) * g + 3 * Late + 3 * Jitter) < W,
         2 * ((2 * MaxFaults + 6) * g + 3 * Late + 3 * Jitter) < Clock
  PROVE  PathSpec => []DelayKept
<1>1. Delays(g)
  BY DEF Delays, Tolerates
<1>2. PathInit => DelaySound(g)
  BY DelayStarts
<1>3. DelaySound(g) /\ [PathNext]_pathvars => DelaySound(g)'
  BY <1>1, DelayStays
<1>4. DelaySound(g) => DelayKept
  BY DEF DelaySound, DelayKept
<1>. QED
  BY <1>2, <1>3, <1>4, PTL DEF PathSpec

-----------------------------------------------------------------------------
(* The sound                                                                *)

(* The queue's size is a multiple of a power of 2.                             *)
LEMMA PowersOfTwo == \A n \in 0..20 : 2^n \in Nat \ {0}
<1> SUFFICES ASSUME NEW n \in 0..20 PROVE 2^n \in Nat \ {0}
  OBVIOUS
<1>1. \/ n = 0 \/ n = 1 \/ n = 2 \/ n = 3 \/ n = 4 \/ n = 5 \/ n = 6 \/ n = 7 \/ n = 8 \/ n = 9
      \/ n > 9
  OBVIOUS
<1>5. n > 9 =>
      \/ n = 10 \/ n = 11 \/ n = 12 \/ n = 13 \/ n = 14 \/ n = 15 \/ n = 16 \/ n = 17 \/ n = 18
      \/ n = 19 \/ n = 20
  OBVIOUS
<1>2. {2^0, 2^1, 2^2, 2^3, 2^4, 2^5, 2^6, 2^7, 2^8, 2^9} \subseteq Nat \ {0}
  OBVIOUS
<1>3. {2^10, 2^11, 2^12, 2^13, 2^14, 2^15, 2^16, 2^17, 2^18, 2^19, 2^20} \subseteq Nat \ {0}
  OBVIOUS
<1>4. \/ 2^n \in {2^0, 2^1, 2^2, 2^3, 2^4, 2^5, 2^6, 2^7, 2^8, 2^9}
      \/ 2^n \in {2^10, 2^11, 2^12, 2^13, 2^14, 2^15, 2^16, 2^17, 2^18, 2^19, 2^20}
  <2>1. CASE n > 9
    BY <1>5, <2>1, Zenon
  <2>2. CASE ~(n > 9)
    BY <1>1, <2>2, Zenon
  <2>. QED
    BY <2>1, <2>2, Zenon
<1>. QED
  BY <1>2, <1>3, <1>4, Zenon

(* What the sound asks for beyond the delay: a float holds the samples, and the    *)
(* audio queue, whose size divides the counters' range, has room for what is late.  *)
Hears(g) ==
  /\ Delays(g)
  /\ Grain * (Byte * Byte * Byte + 64) <= Byte * Byte * Byte * Byte
  /\ \A n \in 0..20 : MinQueue * 2^n <= W => W % (MinQueue * 2^n) = 0
  /\ \A s \in Sessions :
       /\ \E n \in 0..20 : /\ 2 * (s.tx_fsize + s.bsize + s.buff) <= MinQueue * 2^n
                           /\ MinQueue * 2^n <= W
       /\ Late + Jitter <= s.tx_fsize + 2 * s.bsize + s.buff

LEMMA QueueFits ==
  ASSUME NEW g, Hears(g), session \in Sessions
  PROVE  /\ QueueSize \in Nat \ {0} /\ W % QueueSize = 0
         /\ 2 * k_buf <= QueueSize
         /\ session.bsize \in Nat \ {0} /\ session.buff \in Nat /\ session.tx_fsize \in Nat \ {0}
         /\ k_buf = session.tx_fsize + session.bsize + session.buff
         /\ k_buf + Late + Jitter <= QueueSize + session.bsize
<1>. DEFINE T == {k \in {MinQueue * 2^n : n \in 0..20} : k >= 2 * k_buf}
<1>1. /\ session.bsize \in Nat \ {0} /\ session.buff \in Nat /\ session.tx_fsize \in Nat \ {0}
      /\ MinQueue \in Nat \ {0} /\ W \in Nat \ {0} /\ Late \in Nat /\ Jitter \in Nat
  BY PathParams, PacketizeParams
<1>2. k_buf = session.tx_fsize + session.bsize + session.buff
  BY DEF k_buf
<1>3. \A n \in 0..20 : MinQueue * 2^n \in Nat \ {0}
  <2>1. \A x \in Nat \ {0} : MinQueue * x \in Nat \ {0}
    BY <1>1
  <2>. QED
    BY <2>1, PowersOfTwo, Zenon
<1>4. PICK n \in 0..20 : 2 * k_buf <= MinQueue * 2^n /\ MinQueue * 2^n <= W
  BY <1>2 DEF Hears
<1>5. PICK most : most = MinQueue * 2^n
  OBVIOUS
<1>6. most \in T /\ most <= W
  <2>1. most \in Nat /\ most >= 2 * k_buf
    BY <1>1, <1>2, <1>3, <1>4, <1>5
  <2>2. most \in {MinQueue * 2^k : k \in 0..20}
    BY <1>5, Zenon
  <2>. QED
    BY <1>4, <1>5, <2>1, <2>2
<1>7. T \subseteq Nat
  BY <1>3, Zenon
<1>8. QueueSize \in T /\ QueueSize <= most
  <2>1. QueueSize = Min(T)
    BY DEF QueueSize
  <2>. HIDE DEF T
  <2>. QED
    BY <1>6, <1>7, <2>1, MinIsLeast
<1>9. PICK m \in 0..20 : QueueSize = MinQueue * 2^m
  BY <1>8
<1>10. QueueSize \in Nat \ {0} /\ QueueSize >= 2 * k_buf
  BY <1>3, <1>8, <1>9
<1>11. W % QueueSize = 0
  <2>1. QueueSize <= W
    BY <1>1, <1>6, <1>7, <1>8
  <2>. QED
    BY <1>9, <2>1, Zenon DEF Hears
<1>12. Late + Jitter <= session.tx_fsize + 2 * session.bsize + session.buff
  BY DEF Hears
<1>. QED
  BY <1>1, <1>2, <1>10, <1>11, <1>12

(* What a channel carries is a number, and fits in a float.                      *)
LEMMA SignalNumber ==
  ASSUME session \in Sessions, NEW chan \in Int, NEW frame \in Int
  PROVE  /\ session.nchan \in Nat \ {0} /\ session.form \in Formats
         /\ Step \in Nat \ {0}
         /\ \E k \in 1..32, m \in 0..(Grain - 1) :
              LET size == Grain * Step * k + m
              IN  Signal(chan, frame) = IF (frame + chan) % 2 = 0 THEN size ELSE -size
         /\ Signal(chan, frame) \in Int
<1>1. /\ session.nchan \in Nat \ {0} /\ session.form \in Formats /\ Grain \in Nat \ {0}
      /\ Byte \in Nat \ {0, 1}
  BY PathParams, PacketizeParams, NetdataParams
<1>2. R(FM_16BIT) \in Nat /\ R(FM_24BIT) \in Nat
  BY QuantisedInRange
<1>3. Step \in Nat \ {0}
  <2>1. PICK r \in Nat : Step = r \div 32 + 1
    BY <1>2 DEF Step
  <2>. QED
    BY <2>1
<1>. DEFINE k == 1 + ((session.nchan * frame + chan) % 32)
            m == frame % Grain
<1>4. k \in 1..32 /\ m \in 0..(Grain - 1)
  <2>1. PICK x \in Int : x = session.nchan * frame + chan
    BY <1>1
  <2>2. x % 32 \in 0..31
    BY Remainder
  <2>3. frame % Grain \in 0..(Grain - 1)
    BY <1>1, Remainder
  <2>. QED
    BY <2>1, <2>2, <2>3
<1>5. Signal(chan, frame) = LET size == Grain * Step * k + m
                            IN  IF (frame + chan) % 2 = 0 THEN size ELSE -size
  BY DEF Signal
<1>. HIDE DEF k, m
<1>6. Grain * Step * k + m \in Int
  BY <1>1, <1>3, <1>4
<1>7. Signal(chan, frame) \in Int
  BY <1>5, <1>6
<1>. QED
  BY <1>1, <1>3, <1>4, <1>5, <1>7

LEMMA SignalFits ==
  ASSUME NEW g, Hears(g), session \in Sessions, session.form = FM_FLOAT,
         NEW chan \in Int, NEW frame \in Int, NEW h \in Nat \ {0}, Byte = 2 * h
  PROVE  /\ -(Byte * Byte * Byte * h) <= Signal(chan, frame)
         /\ Signal(chan, frame) < Byte * Byte * Byte * h
<1>1. Grain \in Nat \ {0} /\ Byte \in Nat \ {0, 1}
  BY NetdataParams
<1>2. PICK q : q = Byte * Byte * h /\ q \in Nat /\ R(FM_24BIT) = q - 1
  <2>1. R(FM_24BIT) = Byte * Byte * h - 1 /\ Byte * Byte * h \in Int
    <3>1. PICK x : x = Byte * Byte * h /\ x \in Int
      BY <1>1
    <3>2. Byte * Byte * Byte = 2 * x
      <4>1. \A y \in Int : y * (2 * h) = 2 * (y * h)
        OBVIOUS
      <4>2. Byte * Byte \in Int
        BY <1>1
      <4>. QED
        BY <3>1, <4>1, <4>2
    <3>3. (Byte * Byte * Byte) \div 2 = x
      BY <3>1, <3>2
    <3>. QED
      BY <3>1, <3>3 DEF R, FM_16BIT, FM_24BIT, FM_FLOAT
  <2>2. Byte * Byte * h \in Nat
    BY <1>1
  <2>. QED
    BY <2>1, <2>2
<1>3. Step \in Nat \ {0} /\ 32 * Step <= q + 31
  <2>1. Step = (q - 1) \div 32 + 1
    BY <1>2 DEF Step, FM_16BIT, FM_24BIT, FM_FLOAT
  <2>2. Step \in Nat \ {0}
    BY SignalNumber
  <2>. QED
    BY <1>2, <2>1, <2>2
<1>4. Grain * (q + 32) \in Int /\ Byte * q \in Int /\ Grain * (q + 32) <= Byte * q
  <2>1. Byte * Byte * Byte = 2 * q
    <3>1. \A x \in Int : x * (2 * h) = 2 * (x * h)
      OBVIOUS
    <3>2. Byte * Byte \in Int
      BY <1>1
    <3>. QED
      BY <1>2, <3>1, <3>2
  <2>2. Byte * Byte * Byte * Byte = 2 * (Byte * q)
    <3>1. (2 * q) * Byte = 2 * (Byte * q)
      BY <1>1, <1>2
    <3>. QED
      BY <2>1, <3>1
  <2>3. Grain * (2 * q + 64) = 2 * (Grain * (q + 32))
    <3>1. Grain * (2 * (q + 32)) = 2 * (Grain * (q + 32)) /\ 2 * (q + 32) = 2 * q + 64
      BY <1>1, <1>2
    <3>. QED
      BY <3>1
  <2>4. Grain * (2 * q + 64) <= 2 * (Byte * q)
    BY <2>1, <2>2 DEF Hears
  <2>5. Grain * (q + 32) \in Int /\ Byte * q \in Int
    BY <1>1, <1>2
  <2>. QED
    BY <2>3, <2>4, <2>5
<1>5. PICK k \in 1..32, m \in 0..(Grain - 1) :
        LET size == Grain * Step * k + m
        IN  Signal(chan, frame) = IF (frame + chan) % 2 = 0 THEN size ELSE -size
  BY SignalNumber
<1>6. PICK size : size = Grain * Step * k + m
  OBVIOUS
<1>7. size \in Nat /\ size < Grain * (q + 32)
  <2>1. /\ Grain * Step \in Nat /\ Grain * Step * k \in Nat
        /\ Grain * Step * k <= (Grain * Step) * 32
    <3>1. Grain * Step \in Nat
      BY <1>1, <1>3
    <3>. QED
      BY <3>1, Monotone
  <2>2. (Grain * Step) * 32 = Grain * (32 * Step) /\ Grain * (32 * Step) <= Grain * (q + 31)
    <3>1. (Grain * Step) * 32 = Grain * (32 * Step)
      BY <1>1, <1>3
    <3>2. 32 * Step \in Int /\ q + 31 \in Int
      BY <1>2, <1>3
    <3>. QED
      BY <1>1, <1>3, <3>1, <3>2, Monotone
  <2>3. Grain * ((q + 31) + 1) = Grain * (q + 31) + Grain * 1 /\ Grain * (q + 31) \in Int
    BY <1>1, <1>2, Distributes
  <2>4. (q + 31) + 1 = q + 32 /\ Grain * 1 = Grain
    BY <1>1, <1>2
  <2>5. Grain * (q + 32) = Grain * (q + 31) + Grain
    BY <2>3, <2>4
  <2>6. m \in Nat /\ m < Grain /\ Grain * (32 * Step) \in Int
    BY <1>1, <1>3
  <2>7. PICK u, v, w, x : /\ u = Grain * Step * k /\ v = Grain * (32 * Step)
                          /\ w = Grain * (q + 31) /\ x = Grain * (q + 32)
    OBVIOUS
  <2>8. u \in Nat /\ u <= v /\ v <= w /\ x = w + Grain /\ v \in Int /\ w \in Int
    BY <2>1, <2>2, <2>3, <2>5, <2>6, <2>7
  <2>9. size = u + m
    BY <1>6, <2>7
  <2>10. size \in Nat /\ size < x
    BY <1>1, <2>6, <2>8, <2>9
  <2>. QED
    BY <2>7, <2>10
<1>8. Byte * Byte * Byte * h = Byte * q
  <2>1. Byte * Byte \in Int /\ \A x \in Int : x * Byte * h = Byte * (x * h)
    BY <1>1
  <2>. QED
    BY <1>2, <2>1
<1>9. Signal(chan, frame) = size \/ Signal(chan, frame) = -size
  BY <1>5, <1>6
<1>. QED
  BY <1>4, <1>7, <1>8, <1>9

(* What comes out of a packet sounds as what the channel carried.                  *)
LEMMA SampleKept ==
  ASSUME NEW g, Hears(g), session \in Sessions, NEW chan \in Int, NEW frame \in Int
  PROVE  SoundsAs(Signal(chan, frame),
                  Decode(session.form, Encode(session.form, Signal(chan, frame))))
<1>1. Signal(chan, frame) \in Int /\ session.form \in Formats
  BY SignalNumber
<1>2. CASE session.form \in {FM_16BIT, FM_24BIT}
  BY <1>1, <1>2, SamplesSurvive
<1>3. CASE session.form = FM_FLOAT
  <2>1. PICK h \in Nat \ {0} : Byte = 2 * h
    BY HalfByte
  <2>2. /\ -(Byte * Byte * Byte * h) <= Signal(chan, frame)
        /\ Signal(chan, frame) < Byte * Byte * Byte * h
    BY <1>3, <2>1, SignalFits
  <2>3. Decode(FM_FLOAT, Encode(FM_FLOAT, Signal(chan, frame))) = Signal(chan, frame)
    BY <1>1, <2>1, <2>2, FloatRoundTrip
  <2>. QED
    BY <1>3, <2>3 DEF SoundsAs
<1>. QED
  BY <1>1, <1>2, <1>3 DEF Formats

(* A sample read with others is the one read alone.                              *)
LEMMA AudioAlone ==
  ASSUME NEW p, NEW chan, NEW offs \in Int, NEW len \in Int, NEW i \in 1..len
  PROVE  get_audio(p, chan, offs, len)[i] = get_audio(p, chan, offs + i - 1, 1)[1]
<1>1. PICK f : f = offs + i - 1 /\ f + 1 - 1 = f
  OBVIOUS
<1>2. get_audio(p, chan, offs, len)[i] =
        Decode(p.form, [k \in 1..Bytes(p.form) |-> p.data[Place(p, chan, f) + k]])
  BY <1>1 DEF get_audio
<1>3. get_audio(p, chan, f, 1)[1] =
        Decode(p.form, [k \in 1..Bytes(p.form) |-> p.data[Place(p, chan, f) + k]])
  <2>1. 1 \in 1..1
    OBVIOUS
  <2>2. get_audio(p, chan, f, 1)[1] =
          Decode(p.form, [k \in 1..Bytes(p.form) |-> p.data[Place(p, chan, f + 1 - 1) + k]])
    BY <2>1 DEF get_audio
  <2>. QED
    BY <1>1, <2>2
<1>. QED
  BY <1>1, <1>2, <1>3

SamplesOf(packet, start, chan) == [i \in 1..packet.nfram |-> Signal(chan, start + i - 1)]

(* The packet after each turn of the loop up to m.                              *)
Turns(put, packet, start, m) ==
  put = [n \in 0..m |-> IF n = 0 THEN packet
                        ELSE put_audio(put[n - 1], n - 1, 0, SamplesOf(packet, start, n - 1))]

LEMMA LoopTurns ==
  ASSUME NEW packet, NEW start
  PROVE  \A m \in Nat : \E put : Turns(put, packet, start, m)
<1>. DEFINE T == {m \in Nat : ~\E put : Turns(put, packet, start, m)}
<1>1. SUFFICES ASSUME T # {} PROVE FALSE
  OBVIOUS
<1>2. PICK m \in T : \A k \in T : m <= k
  <2>1. T \subseteq Nat
    OBVIOUS
  <2>. HIDE DEF T
  <2>. QED
    BY <1>1, <2>1, MinIsLeast
<1>3. m # 0
  <2>1. Turns([n \in {0} |-> packet], packet, start, 0)
    <3>1. 0..0 = {0}
      OBVIOUS
    <3>. QED
      BY <3>1 DEF Turns
  <2>. QED
    BY <1>2, <2>1
<1>4. m \in Nat /\ m - 1 \in Nat /\ ~(m <= m - 1)
  BY <1>2, <1>3
<1>5. PICK put : Turns(put, packet, start, m - 1)
  <2>1. m - 1 \notin T
    <3>. HIDE DEF T
    <3>. QED
      BY <1>2, <1>4
  <2>. QED
    BY <1>4, <2>1
<1>. DEFINE added == put_audio(put[m - 1], m - 1, 0, SamplesOf(packet, start, m - 1))
            more == [n \in 0..m |-> IF n = m THEN added ELSE put[n]]
<1>6. \A n \in 0..(m - 1) :
        put[n] = IF n = 0 THEN packet
                 ELSE put_audio(put[n - 1], n - 1, 0, SamplesOf(packet, start, n - 1))
  BY <1>5, Zenon DEF Turns
<1>. HIDE DEF added
<1>7. ASSUME NEW n \in 0..m
      PROVE  more[n] = IF n = 0 THEN packet
                       ELSE put_audio(more[n - 1], n - 1, 0, SamplesOf(packet, start, n - 1))
  <2>1. CASE n = m
    <3>1. more[n] = added /\ m - 1 \in 0..m /\ m - 1 # m
      BY <1>4, <2>1
    <3>2. more[m - 1] = put[m - 1]
      BY <3>1
    <3>. QED
      BY <1>3, <2>1, <3>1, <3>2 DEF added
  <2>2. CASE n # m
    <3>1. n \in 0..(m - 1) /\ more[n] = put[n]
      BY <1>4, <2>2
    <3>2. CASE n = 0
      BY <1>6, <3>1, <3>2
    <3>3. CASE n # 0
      <4>1. n - 1 \in 0..m /\ n - 1 # m
        BY <1>4, <3>1, <3>3
      <4>2. more[n - 1] = put[n - 1]
        BY <4>1
      <4>. QED
        BY <1>6, <3>1, <3>3, <4>2
    <3>. QED
      BY <3>2, <3>3
  <2>. QED
    BY <2>1, <2>2
<1>8. Turns(more, packet, start, m)
  <2>1. more = [n \in 0..m |-> more[n]]
    OBVIOUS
  <2>. HIDE DEF more
  <2>2. [n \in 0..m |-> more[n]] =
          [n \in 0..m |-> IF n = 0 THEN packet
                          ELSE put_audio(more[n - 1], n - 1, 0, SamplesOf(packet, start, n - 1))]
    BY <1>7
  <2>. QED
    BY <2>1, <2>2 DEF Turns
<1>. QED
  BY <1>2, <1>8

(* Sampled() fills every channel of a packet.                                    *)
LEMMA SampledSounds ==
  ASSUME NEW g, Hears(g), session \in Sessions, NEW p, IsPacket(p), NEW start \in Int,
         p.form = session.form, p.nchan = session.nchan
  PROVE  LET q == Sampled(p, start)
         IN  /\ IsPacket(q) /\ SameHeader(p, q)
             /\ \A c \in 0..(p.nchan - 1), f \in 0..(p.nfram - 1) :
                  SoundsAs(Signal(c, start + f), get_audio(q, c, f, 1)[1])
<1>. DEFINE N == p.nchan
            put == CHOOSE put : Turns(put, p, start, N)
            Full(n) == /\ IsPacket(put[n]) /\ SameHeader(p, put[n])
                       /\ \A c \in 0..(n - 1), f \in 0..(p.nfram - 1) :
                            SoundsAs(Signal(c, start + f), get_audio(put[n], c, f, 1)[1])
            T == {n \in 0..N : ~Full(n)}
<1>1. N \in Nat \ {0} /\ p.nfram \in Nat
  BY DEF IsPacket
<1>2. Turns(put, p, start, N)
  <2>. HIDE DEF N
  <2>1. \E f : Turns(f, p, start, N)
    BY <1>1, LoopTurns
  <2>. QED
    BY <2>1, Zenon
<1>3. Sampled(p, start) = put[N]
  BY DEF Sampled, Turns, SamplesOf
<1>. HIDE DEF put
<1>4. \A n \in 0..N :
        put[n] = IF n = 0 THEN p ELSE put_audio(put[n - 1], n - 1, 0, SamplesOf(p, start, n - 1))
  <2>. HIDE DEF N
  <2>. QED
    BY <1>2, Zenon DEF Turns
<1>5. ASSUME NEW n \in 0..N, n # 0, Full(n - 1)
      PROVE  Full(n)
  <2>. DEFINE old == put[n - 1]
              adata == SamplesOf(p, start, n - 1)
  <2>1. n - 1 \in 0..(N - 1) /\ n \in 0..N
    BY <1>1, <1>5
  <2>2. IsPacket(old) /\ SameHeader(p, old)
    BY <1>5
  <2>3. put[n] = put_audio(old, n - 1, 0, adata)
    BY <1>4, <1>5
  <2>4. adata \in [1..p.nfram -> Int] /\ \A i \in 1..p.nfram : adata[i] = Signal(n - 1, start + i - 1)
    <3>1. \A i \in 1..p.nfram : start + i - 1 \in Int /\ n - 1 \in Int
      BY <1>1
    <3>2. \A i \in 1..p.nfram : Signal(n - 1, start + i - 1) \in Int
      BY <3>1, SignalNumber
    <3>. QED
      BY <3>2 DEF SamplesOf
  <2>. HIDE DEF adata, old
  <2>5. old.nchan = N /\ old.nfram = p.nfram /\ old.form = p.form
    BY <2>2 DEF SameHeader
  <2>6. /\ IsPacket(put[n]) /\ SameHeader(old, put[n])
        /\ \A i \in 1..p.nfram : get_audio(put[n], n - 1, 0, p.nfram)[i]
                                   = Decode(p.form, Encode(p.form, adata[i]))
        /\ \A c \in 0..(N - 1), f \in 0..(p.nfram - 1) :
             c # n - 1 \/ f \notin 0..(0 + p.nfram - 1) =>
               get_audio(put[n], c, f, 1)[1] = get_audio(old, c, f, 1)[1]
    <3>1. 0 + p.nfram <= old.nfram /\ n - 1 \in 0..(old.nchan - 1) /\ 0 \in Nat
      BY <1>1, <2>1, <2>5
    <3>. HIDE DEF N
    <3>. DEFINE q == put_audio(old, n - 1, 0, adata)
    <3>2. /\ IsPacket(old) /\ n - 1 \in 0..(old.nchan - 1) /\ 0 \in Nat /\ p.nfram \in Nat
          /\ adata \in [1..p.nfram -> Int] /\ 0 + p.nfram <= old.nfram
      BY <1>1, <2>2, <2>4, <3>1
    <3>3. /\ IsPacket(q) /\ SameHeader(old, q)
          /\ \A i \in 1..p.nfram :
               get_audio(q, n - 1, 0, p.nfram)[i] = Decode(old.form, Encode(old.form, adata[i]))
          /\ \A c \in 0..(old.nchan - 1), f \in 0..(old.nfram - 1) :
               c # n - 1 \/ f \notin 0..(0 + p.nfram - 1) =>
                 get_audio(q, c, f, 1)[1] = get_audio(old, c, f, 1)[1]
      BY <3>2, PutThenGet, SMTT(60)
    <3>. HIDE DEF q
    <3>. QED
      BY <2>3, <2>5, <3>3 DEF q
  <2>7. SameHeader(p, put[n])
    BY <2>2, <2>6 DEF SameHeader
  <2>8. ASSUME NEW c \in 0..(n - 1), NEW f \in 0..(p.nfram - 1)
        PROVE  SoundsAs(Signal(c, start + f), get_audio(put[n], c, f, 1)[1])
    <3>1. CASE c = n - 1
      <4>1. f + 1 \in 1..p.nfram /\ 0 + (f + 1) - 1 = f /\ start + (f + 1) - 1 = start + f
            /\ p.nfram \in Int /\ 0 \in Int
        BY <1>1
      <4>2. get_audio(put[n], c, f, 1)[1] = Decode(p.form, Encode(p.form, adata[f + 1]))
        <5>1. get_audio(put[n], n - 1, 0, p.nfram)[f + 1] = get_audio(put[n], n - 1, 0 + (f + 1) - 1, 1)[1]
          BY <4>1, AudioAlone
        <5>. QED
          BY <2>6, <3>1, <4>1, <5>1
      <4>3. adata[f + 1] = Signal(c, start + f)
        BY <2>4, <3>1, <4>1
      <4>4. c \in Int /\ start + f \in Int
        BY <1>1, <2>1
      <4>. QED
        BY <4>2, <4>3, <4>4, SampleKept
    <3>2. CASE c # n - 1
      <4>1. c \in 0..((n - 1) - 1) /\ c \in 0..(N - 1)
        BY <1>1, <2>1, <3>2
      <4>2. get_audio(put[n], c, f, 1)[1] = get_audio(old, c, f, 1)[1]
        BY <2>6, <3>2, <4>1
      <4>3. SoundsAs(Signal(c, start + f), get_audio(old, c, f, 1)[1])
        BY <1>5, <4>1 DEF old
      <4>. QED
        BY <4>2, <4>3
    <3>. QED
      BY <3>1, <3>2
  <2>. QED
    BY <2>6, <2>7, <2>8
<1>6. Full(0)
  <2>1. put[0] = p
    BY <1>1, <1>4
  <2>2. 0..(0 - 1) = {}
    OBVIOUS
  <2>. QED
    BY <2>1, <2>2 DEF SameHeader
<1>7. T = {}
  <2>1. SUFFICES ASSUME T # {} PROVE FALSE
    OBVIOUS
  <2>2. T \subseteq Nat /\ \A n \in T : n \in 0..N /\ ~Full(n)
    BY <1>1
  <2>3. PICK n \in T : \A k \in T : n <= k
    <3>. HIDE DEF T
    <3>. QED
      BY <2>1, <2>2, MinIsLeast
  <2>4. n \in 0..N /\ ~Full(n)
    BY <2>3
  <2>. HIDE DEF Full
  <2>5. n # 0
    BY <1>6, <2>4
  <2>6. n - 1 \in 0..N /\ ~(n <= n - 1)
    BY <1>1, <2>4, <2>5
  <2>7. Full(n - 1)
    BY <2>3, <2>6
  <2>. QED
    BY <1>5, <2>4, <2>5, <2>7
<1>8. Full(N)
  BY <1>1, <1>7
<1>. QED
  BY <1>3, <1>8

(* A packet carries what the channels did from its frame on.                     *)
Carried(a) ==
  /\ a.frame \in Nat /\ a.packet.nfram \in Nat \ {0}
  /\ a.packet.form = session.form /\ a.packet.nchan = session.nchan
  /\ \A c \in 0..(session.nchan - 1), f \in 0..(a.packet.nfram - 1) :
       SoundsAs(Signal(c, a.frame + f), get_audio(a.packet, c, f, 1)[1])

(* As all packets on the network do, which are in the order they were sent in.     *)
AirCarries ==
  /\ \A i \in 1..Len(air) : Carried(air[i]) /\ air[i].frame + air[i].packet.nfram <= Upcoming
  /\ \A i, k \in 1..Len(air) : i <= k => air[i].frame <= air[k].frame

(* It depends on the session alone.                                            *)
LEMMA CarriedStays ==
  ASSUME session' = session, NEW a, Carried(a)
  PROVE  Carried(a)'
  BY DEF Carried, SoundsAs, Signal, Step

(* What the sender sends.                                                      *)
LEMMA CarriedSent ==
  ASSUME NEW g, Hears(g), session \in Sessions, NEW start \in Nat, NEW frames \in Nat \ {0},
         NEW flags, NEW number, NEW time, NEW a,
         a.packet = Filled(init_audio_data(flags, session.form, session.nchan, number, frames, time),
                           start),
         a.frame = start
  PROVE  Carried(a)
<1>. DEFINE p == init_audio_data(flags, session.form, session.nchan, number, frames, time)
            q == Sampled(p, start)
<1>1. session.form \in Formats /\ session.nchan \in Nat \ {0}
  BY SignalNumber
<1>2. IsPacket(p) /\ p.form = session.form /\ p.nchan = session.nchan /\ p.nfram = frames
  <2>1. IsPacket(p)
    BY <1>1, EmptyIsPacket
  <2>. QED
    BY <2>1 DEF init_audio_data
<1>3. a.packet = [p EXCEPT !.data = q.data]
  BY DEF Filled
<1>4. a.packet.form = p.form /\ a.packet.nchan = p.nchan /\ a.packet.nfram = p.nfram
      /\ a.packet.data = q.data
  <2>1. p = [flags |-> p.flags, form |-> p.form, nchan |-> p.nchan, count |-> p.count,
             nfram |-> p.nfram, dtime |-> p.dtime, data |-> p.data]
    BY DEF init_audio_data
  <2>. HIDE DEF p, q
  <2>. QED
    BY <1>3, <2>1
<1>5. /\ SameHeader(p, q)
      /\ \A c \in 0..(p.nchan - 1), f \in 0..(p.nfram - 1) :
           SoundsAs(Signal(c, start + f), get_audio(q, c, f, 1)[1])
  <2>. HIDE DEF p
  <2>. QED
    BY <1>2, SampledSounds
<1>. HIDE DEF p, q
<1>6. q.form = p.form /\ q.nchan = p.nchan
  BY <1>5 DEF SameHeader
<1>7. \A c, f : get_audio(a.packet, c, f, 1) = get_audio(q, c, f, 1)
  BY <1>4, <1>6 DEF get_audio, Place
<1>. QED
  BY <1>2, <1>4, <1>5, <1>7 DEF Carried

LEMMA AirCarriesStart == PathInit => AirCarries
<1> SUFFICES ASSUME PathInit PROVE AirCarries
  OBVIOUS
<1>1. Len(air) = 0 /\ 1..0 = {}
  BY DEF PathInit
<1>. QED
  BY <1>1 DEF AirCarries

(* Packets that stay, in their order, stay as they are.                           *)
LEMMA PacketsStay ==
  ASSUME AirCarries, UNCHANGED <<session, bsize, tx_tnext, sum>>,
         NEW of, of \in [1..Len(air') -> 1..Len(air)],
         \A i \in 1..Len(air') : air'[i] = air[of[i]],
         \A i, k \in 1..Len(air') : i <= k => of[i] <= of[k]
  PROVE  AirCarries'
<1>0. PICK old, queue, n, m : old = air /\ queue = air' /\ n = Len(old) /\ m = Len(queue)
  OBVIOUS
<1>1. ASSUME NEW i \in 1..m
      PROVE  Carried(queue[i])' /\ (queue[i].frame + queue[i].packet.nfram <= Upcoming)'
  <2>1. PICK k \in 1..n : queue[i] = old[k]
    BY <1>0, <1>1
  <2>2. Carried(old[k]) /\ old[k].frame + old[k].packet.nfram <= Upcoming
    BY <1>0 DEF AirCarries
  <2>3. PICK a : a = old[k]
    OBVIOUS
  <2>4. Carried(a)' /\ (a.frame + a.packet.nfram <= Upcoming)'
    BY <2>2, <2>3, CarriedStays DEF Upcoming
  <2>. QED
    BY <2>1, <2>3, <2>4
<1>2. ASSUME NEW i \in 1..m, NEW k \in 1..m, i <= k
      PROVE  queue[i].frame <= queue[k].frame
  <2>1. of[i] \in 1..n /\ of[k] \in 1..n /\ of[i] <= of[k]
    BY <1>0, <1>2
  <2>2. old[of[i]].frame <= old[of[k]].frame
    BY <1>0, <2>1 DEF AirCarries
  <2>. QED
    BY <1>0, <1>2, <2>2
<1>. QED
  BY <1>0, <1>1, <1>2 DEF AirCarries

LEMMA AirCarriesKept ==
  ASSUME NEW g, Hears(g), TimesBase, AirCarries, [PathNext]_pathvars
  PROVE  AirCarries'
<1>0. /\ session \in Sessions /\ tx_tnext \in Nat /\ bsize <= tx_tnext /\ Jitter \in Nat
      /\ bsize \in Nat \ {0} /\ sum \in 0..bsize /\ (j = npack => sum = bsize)
      /\ \A skip \in {0} \cup Skips : skip \in Nat
  <2>1. session \in Sessions /\ tx_tnext \in Nat /\ bsize <= tx_tnext /\ Sound
    BY DEF TimesBase, SenderTimes
  <2>. QED
    BY <2>1, SessionNumbers, SumInPeriod
<1>00. PICK S : air \in Seq(S)
  BY DEF TimesBase, AirTimes
<1>1. CASE UNCHANGED <<session, vars, tx_tnext, air>>
  <2>1. UNCHANGED <<session, air>>
    BY <1>1
  <2>2. Upcoming' = Upcoming
    BY <1>1 DEF vars, Upcoming
  <2>3. ASSUME NEW i \in 1..Len(air)
        PROVE  Carried(air[i])' /\ (air[i].frame + air[i].packet.nfram <= Upcoming)'
    <3>1. PICK a : a = air[i]
      OBVIOUS
    <3>2. Carried(a) /\ a.frame + a.packet.nfram <= Upcoming
      BY <3>1 DEF AirCarries
    <3>3. Carried(a)'
      BY <2>1, <3>2, CarriedStays
    <3>. QED
      BY <2>1, <2>2, <3>1, <3>2, <3>3
  <2>. QED
    BY <2>1, <2>3 DEF AirCarries
<1>2. ASSUME NEW skip \in {0} \cup Skips, TxCycle(skip)
      PROVE  AirCarries'
  <2>1. /\ tx_tnext' = tx_tnext + skip + bsize /\ sum = bsize /\ sum' = 0
        /\ bsize' = bsize /\ UNCHANGED <<session, air>>
    BY <1>0, <1>2 DEF TxCycle, Period
  <2>2. Upcoming \in Nat /\ Upcoming' \in Nat /\ Upcoming <= Upcoming'
    <3>1. skip \in Nat
      BY <1>0
    <3>. QED
      BY <1>0, <2>1, <3>1 DEF Upcoming
  <2>3. ASSUME NEW i \in 1..Len(air)
        PROVE  Carried(air[i])' /\ air[i].frame + air[i].packet.nfram <= Upcoming'
    <3>1. PICK a : a = air[i]
      OBVIOUS
    <3>2. Carried(a) /\ a.frame + a.packet.nfram <= Upcoming
      BY <3>1 DEF AirCarries
    <3>3. Carried(a)'
      BY <2>1, <3>2, CarriedStays
    <3>4. a.frame \in Nat /\ a.packet.nfram \in Nat
      BY <3>2 DEF Carried
    <3>5. a.frame + a.packet.nfram <= Upcoming'
      BY <2>2, <3>2, <3>4
    <3>. QED
      BY <2>1, <3>1, <3>3, <3>5
  <2>. QED
    BY <2>1, <2>3 DEF AirCarries
<1>3. CASE TxPacket
  <2>1. PICK start, frames, flags, sent :
          /\ start = Upcoming /\ frames = nfram' /\ flags = (IF j = 0 THEN {FL_TIMED} ELSE {})
          /\ sent = [packet |-> Filled(init_audio_data(flags, session.form, session.nchan, count,
                                                       frames, dtime), start),
                     frame |-> start, due |-> now + Jitter]
    OBVIOUS
  <2>2. /\ Packet /\ air' = Append(air, sent) /\ UNCHANGED <<session, tx_tnext, bsize>>
    BY <1>3, <2>1 DEF TxPacket, Upcoming, Packet
  <2>3. sum' = sum + frames /\ frames \in Nat \ {0}
    <3>1. SumWithin /\ SumWithin'
      BY <2>2, PacketSound, SumStaysWithin, SumNext DEF TimesBase
    <3>2. j' = j + 1 /\ sum' = sum + frames
      BY <2>1, <2>2 DEF Packet
    <3>. QED
      BY <2>1, <3>1, <3>2 DEF SumWithin
  <2>4. start \in Nat /\ Upcoming' = start + frames
    <3>1. start = (tx_tnext - bsize) + sum /\ Upcoming' = (tx_tnext' - bsize') + sum'
      BY <2>1 DEF Upcoming
    <3>. QED
      BY <1>0, <2>2, <2>3, <3>1
  <2>5. sent.frame = start /\ sent.packet.nfram = frames
        /\ sent.packet = Filled(init_audio_data(flags, session.form, session.nchan, count, frames, dtime),
                                start)
    BY <2>1, HeaderStays
  <2>6. Carried(sent)
    BY <1>0, <2>3, <2>4, <2>5, CarriedSent
  <2>7. Carried(sent)' /\ sent.frame + sent.packet.nfram <= Upcoming'
    BY <2>2, <2>3, <2>4, <2>5, <2>6, CarriedStays
  <2>8. /\ Len(air) \in Nat /\ Len(air') = Len(air) + 1
        /\ \A i \in 1..Len(air) : air'[i] = air[i]
        /\ air'[Len(air) + 1] = sent
    BY <1>00, <2>2, AirAppended
  <2>00. PICK queue : queue = air'
    OBVIOUS
  <2>9. ASSUME NEW i \in 1..Len(air)
        PROVE  /\ Carried(queue[i])' /\ queue[i].frame + queue[i].packet.nfram <= Upcoming'
               /\ queue[i].frame <= start
    <3>1. PICK a : a = air[i]
      OBVIOUS
    <3>2. Carried(a) /\ a.frame + a.packet.nfram <= start
      BY <2>1, <3>1 DEF AirCarries
    <3>3. Carried(a)'
      BY <2>2, <3>2, CarriedStays
    <3>4. a.frame \in Nat /\ a.packet.nfram \in Nat
      BY <3>2 DEF Carried
    <3>5. a.frame + a.packet.nfram <= start + frames /\ a.frame <= start
      <4>1. PICK x, y : x = a.frame /\ y = a.packet.nfram
        OBVIOUS
      <4>2. x \in Nat /\ y \in Nat /\ x + y <= start /\ start \in Nat /\ frames \in Nat
        BY <2>3, <2>4, <3>2, <3>4, <4>1
      <4>3. x + y <= start + frames /\ x <= start
        BY ONLY <4>2
      <4>. QED
        BY <4>1, <4>3
    <3>6. queue[i] = a
      BY <2>00, <2>8, <3>1
    <3>7. a.frame + a.packet.nfram <= Upcoming'
      BY <2>4, <3>5
    <3>. QED
      BY <3>3, <3>5, <3>6, <3>7, Zenon
  <2>10. \A i \in 1..Len(air') : i \in 1..Len(air) \/ i = Len(air) + 1
    BY <2>8
  <2>11. ASSUME NEW i \in 1..Len(air')
         PROVE  Carried(queue[i])' /\ queue[i].frame + queue[i].packet.nfram <= Upcoming'
    <3>1. CASE i \in 1..Len(air)
      BY <2>9, <3>1
    <3>2. CASE i = Len(air) + 1
      <4>1. queue[i] = sent
        BY <2>00, <2>8, <3>2
      <4>. QED
        BY <2>7, <4>1
    <3>. QED
      BY <2>10, <3>1, <3>2
  <2>12. ASSUME NEW i \in 1..Len(air'), NEW k \in 1..Len(air'), i <= k
         PROVE  queue[i].frame <= queue[k].frame
    <3>1. CASE k \in 1..Len(air)
      <4>1. i \in 1..Len(air)
        BY <2>8, <2>12, <3>1
      <4>. QED
        BY <2>00, <2>8, <2>12, <3>1, <4>1 DEF AirCarries
    <3>2. CASE k = Len(air) + 1 /\ i \in 1..Len(air)
      BY <2>00, <2>5, <2>8, <2>9, <3>2
    <3>3. CASE k = Len(air) + 1 /\ i = Len(air) + 1
      BY <2>00, <2>4, <2>5, <2>8, <3>3
    <3>. QED
      BY <2>10, <3>1, <3>2, <3>3
  <2>. QED
    BY <2>00, <2>11, <2>12 DEF AirCarries
<1>4. CASE Lose \/ Receive
  <2>1. air # <<>> /\ air' = Tail(air) /\ UNCHANGED <<session, bsize, tx_tnext, sum>>
    BY <1>4 DEF Lose, Receive, txvars, vars
  <2>2. PICK old, queue, n, m : old = air /\ queue = air' /\ n = Len(old) /\ m = n - 1
    OBVIOUS
  <2>3. /\ n \in Nat /\ n >= 1 /\ Len(queue) = n - 1
        /\ \A i \in 1..(n - 1) : i + 1 \in 1..n /\ queue[i] = old[i + 1]
    BY <2>1, <2>2, AirShortened
  <2>. DEFINE of == [i \in 1..m |-> i + 1]
  <2>4. /\ m \in Nat /\ m = Len(queue) /\ of \in [1..m -> 1..n]
        /\ \A i \in 1..m : queue[i] = old[of[i]]
        /\ \A i, k \in 1..m : i <= k => of[i] <= of[k]
    BY <2>2, <2>3
  <2>. HIDE DEF of
  <2>5. /\ of \in [1..Len(air') -> 1..Len(air)]
        /\ \A i \in 1..Len(air') : air'[i] = air[of[i]]
        /\ \A i, k \in 1..Len(air') : i <= k => of[i] <= of[k]
    BY <2>2, <2>4
  <2>. QED
    BY <2>1, <2>5, PacketsStay
<1>5. CASE Repeat
  <2>1. air # <<>> /\ air' = <<Head(air)>> \o air /\ UNCHANGED <<session, bsize, tx_tnext, sum>>
    BY <1>5 DEF Repeat, txvars, vars
  <2>2. PICK old, queue, n, m : old = air /\ queue = air' /\ n = Len(old) /\ m = n + 1
    OBVIOUS
  <2>3. /\ n \in Nat /\ n >= 1 /\ Len(queue) = n + 1 /\ queue[1] = old[1]
        /\ \A i \in 2..(n + 1) : i - 1 \in 1..n /\ queue[i] = old[i - 1]
    BY <2>1, <2>2, AirRepeated
  <2>. DEFINE of == [i \in 1..m |-> IF i = 1 THEN 1 ELSE i - 1]
  <2>4. /\ m \in Nat /\ m = Len(queue) /\ of \in [1..m -> 1..n]
        /\ \A i \in 1..m : queue[i] = old[of[i]]
        /\ \A i, k \in 1..m : i <= k => of[i] <= of[k]
    BY <2>2, <2>3
  <2>. HIDE DEF of
  <2>5. /\ of \in [1..Len(air') -> 1..Len(air)]
        /\ \A i \in 1..Len(air') : air'[i] = air[of[i]]
        /\ \A i, k \in 1..Len(air') : i <= k => of[i] <= of[k]
    BY <2>2, <2>4
  <2>. QED
    BY <2>1, <2>5, PacketsStay
<1>6. CASE \E skip \in {0} \cup Skips : RxCycle(skip)
  BY <1>1, <1>6 DEF RxCycle, txvars
<1>7. CASE Tick
  BY <1>1, <1>7 DEF Tick, txvars
<1>8. CASE ReadList \/ SetUp \/ UNCHANGED pathvars
  BY <1>1, <1>8 DEF ReadList, SetUp, pathvars, txvars
<1>. QED
  BY <1>2, <1>3, <1>4, <1>5, <1>6, <1>7, <1>8 DEF PathNext

(* A frame of a packet on the channels of the list.                              *)
RowOf(packet, f) ==
  [n \in DOMAIN chlist |-> IF chlist[n] < packet.nchan
                           THEN get_audio(packet, chlist[n], f, 1)[1] ELSE 0]

(* Where a place of the ring is from another one.                                *)
LEMMA RingDistance ==
  ASSUME NEW size \in Nat \ {0}, NEW at \in Int, NEW p \in 0..(size - 1)
  PROVE  /\ at % size \in 0..(size - 1)
         /\ (p - at) % size = IF p >= at % size THEN p - (at % size) ELSE p - (at % size) + size
<1>1. PICK b : b = at % size /\ b \in 0..(size - 1)
  BY Remainder
<1>2. b % size = b
  BY <1>1, SmallRemainder
<1>3. p \in Int /\ b \in Int /\ at % size = b % size
  BY <1>1, <1>2
<1>4. (p - at) % size = (p - b) % size
  <2>1. Agree(at, b, size)
    BY <1>3 DEF Agree
  <2>2. Agree(p - at, p - b, size)
    BY <1>3, <2>1, AgreeMoved
  <2>. QED
    BY <2>2 DEF Agree
<1>5. CASE p >= b
  <2>1. p - b \in 0..(size - 1)
    BY <1>1, <1>5
  <2>2. (p - b) % size = p - b
    BY <2>1, SmallRemainder, Zenon
  <2>. QED
    BY <1>1, <1>4, <1>5, <2>2
<1>6. CASE ~(p >= b)
  <2>1. p - b + size \in 0..(size - 1) /\ size * (-1) + (p - b + size) = p - b
    BY <1>1, <1>6
  <2>2. (size * (-1) + (p - b + size)) % size = p - b + size
    <3>1. -1 \in Int
      OBVIOUS
    <3>. QED
      BY <2>1, <3>1, RemainderUnique, Zenon
  <2>. QED
    BY <1>1, <1>4, <1>6, <2>1, <2>2
<1>. QED
  BY <1>1, <1>5, <1>6

LEMMA CopyPlaces ==
  ASSUME NEW frames, DOMAIN frames = 0..(QueueSize - 1), QueueSize \in Nat \ {0},
         NEW at \in Int, NEW packet, NEW offs \in Nat, NEW k \in Nat
  PROVE  LET copied == Copy(frames, at, packet, offs, k)
             begin  == at % QueueSize
         IN  /\ DOMAIN copied = 0..(QueueSize - 1)
             /\ \A p \in 0..(QueueSize - 1) :
                  copied[p] = IF p \in begin..(begin + k - 1) THEN RowOf(packet, offs + (p - begin))
                              ELSE frames[p]
<1>. DEFINE begin == at % QueueSize
            audio == [n \in DOMAIN chlist |->
                        IF chlist[n] < packet.nchan THEN get_audio(packet, chlist[n], offs, k)
                        ELSE [i \in 1..k |-> 0]]
            copied == Copy(frames, at, packet, offs, k)
<1>1. begin \in Nat
  BY Remainder
<1>2. copied = [p \in 0..(QueueSize - 1) |->
                  IF p \in begin..(begin + k - 1)
                  THEN [n \in DOMAIN chlist |-> audio[n][p - begin + 1]]
                  ELSE frames[p]]
  BY DEF Copy
<1>. HIDE DEF copied, begin
<1>3. ASSUME NEW p \in begin..(begin + k - 1)
      PROVE  [n \in DOMAIN chlist |-> audio[n][p - begin + 1]] = RowOf(packet, offs + (p - begin))
  <2>1. p - begin + 1 \in 1..k /\ offs + (p - begin + 1) - 1 = offs + (p - begin)
        /\ offs \in Int /\ k \in Int
    BY <1>1
  <2>2. ASSUME NEW n \in DOMAIN chlist
        PROVE  audio[n][p - begin + 1] = IF chlist[n] < packet.nchan
                                         THEN get_audio(packet, chlist[n], offs + (p - begin), 1)[1]
                                         ELSE 0
    <3>1. CASE chlist[n] < packet.nchan
      <4>1. audio[n] = get_audio(packet, chlist[n], offs, k)
        BY <3>1
      <4>2. get_audio(packet, chlist[n], offs, k)[p - begin + 1]
              = get_audio(packet, chlist[n], offs + (p - begin), 1)[1]
        BY <2>1, AudioAlone
      <4>. QED
        BY <3>1, <4>1, <4>2
    <3>2. CASE ~(chlist[n] < packet.nchan)
      BY <2>1, <3>2
    <3>. QED
      BY <3>1, <3>2
  <2>. HIDE DEF audio
  <2>. QED
    BY <2>2 DEF RowOf
<1>. HIDE DEF audio
<1>4. DOMAIN copied = 0..(QueueSize - 1)
  BY <1>2
<1>5. \A p \in 0..(QueueSize - 1) :
        copied[p] = IF p \in begin..(begin + k - 1) THEN RowOf(packet, offs + (p - begin))
                    ELSE frames[p]
  BY <1>2, <1>3
<1>. QED
  BY <1>4, <1>5 DEF begin, copied

(* Jackrx's audio queue takes a packet in one or two pieces.                      *)
LEMMA AudioWritten ==
  ASSUME NEW frames, DOMAIN frames = 0..(QueueSize - 1), QueueSize \in Nat \ {0},
         NEW at \in Int, NEW packet, packet.nfram \in Nat, packet.nfram <= QueueSize
  PROVE  LET written == write_audio(frames, at, packet)
         IN  /\ DOMAIN written = 0..(QueueSize - 1)
             /\ \A p \in 0..(QueueSize - 1) :
                  written[p] = IF (p - at) % QueueSize < packet.nfram
                               THEN RowOf(packet, (p - at) % QueueSize) ELSE frames[p]
<1>0. PICK Q, m, begin : Q = QueueSize /\ m = packet.nfram /\ begin = at % Q
  OBVIOUS
<1>1. Q \in Nat \ {0} /\ m \in Nat /\ m <= Q /\ begin \in 0..(Q - 1)
  BY <1>0, Remainder
<1>2. PICK k : k = Min({Q - begin, m})
  OBVIOUS
<1>3. k = (IF begin + m <= Q THEN m ELSE Q - begin) /\ k \in Nat
  <2>1. {Q - begin, m} \subseteq Nat /\ {Q - begin, m} # {}
    BY <1>1
  <2>2. k \in {Q - begin, m} /\ \A y \in {Q - begin, m} : k <= y
    BY <1>2, <2>1, MinIsLeast
  <2>. QED
    BY <1>1, <2>2
<1>4. PICK half, written : /\ half = Copy(frames, at, packet, 0, k)
                           /\ written = Copy(half, at + k, packet, k, m - k)
                           /\ written = write_audio(frames, at, packet)
  BY <1>0, <1>2 DEF write_audio
<1>5. /\ DOMAIN half = 0..(Q - 1)
      /\ \A p \in 0..(Q - 1) :
           half[p] = IF p \in begin..(begin + k - 1) THEN RowOf(packet, 0 + (p - begin)) ELSE frames[p]
  <2>1. 0 \in Nat /\ k \in Nat
    BY <1>3
  <2>. DEFINE copied == Copy(frames, at, packet, 0, k)
              start  == at % QueueSize
  <2>2. /\ DOMAIN copied = 0..(QueueSize - 1)
        /\ \A p \in 0..(QueueSize - 1) :
             copied[p] = IF p \in start..(start + k - 1) THEN RowOf(packet, 0 + (p - start))
                         ELSE frames[p]
    BY <2>1, CopyPlaces
  <2>. HIDE DEF copied, start
  <2>3. copied = half /\ start = begin
    BY <1>0, <1>4 DEF copied, start
  <2>. QED
    BY <1>0, <2>2, <2>3, Zenon
<1>6. PICK back : back = (at + k) % Q
  OBVIOUS
<1>7. /\ DOMAIN written = 0..(Q - 1)
      /\ \A p \in 0..(Q - 1) :
           written[p] = IF p \in back..(back + (m - k) - 1) THEN RowOf(packet, k + (p - back)) ELSE half[p]
  <2>1. PICK then, rest : then = at + k /\ rest = m - k
    OBVIOUS
  <2>2. then \in Int /\ rest \in Nat /\ k \in Nat
    BY <1>1, <1>3, <2>1
  <2>3. back = then % QueueSize /\ written = Copy(half, then, packet, k, rest)
    BY <1>0, <1>4, <1>6, <2>1, Zenon
  <2>4. DOMAIN half = 0..(QueueSize - 1)
    BY <1>0, <1>5, Zenon
  <2>. DEFINE copied == Copy(half, then, packet, k, rest)
              start  == then % QueueSize
  <2>5. /\ DOMAIN copied = 0..(QueueSize - 1)
        /\ \A p \in 0..(QueueSize - 1) :
             copied[p] = IF p \in start..(start + rest - 1) THEN RowOf(packet, k + (p - start))
                         ELSE half[p]
    BY <2>2, <2>4, CopyPlaces
  <2>. HIDE DEF copied, start
  <2>6. copied = written /\ start = back
    BY <2>3 DEF copied, start
  <2>. QED
    BY <1>0, <2>1, <2>5, <2>6, Zenon
<1>8. back \in Int /\ (begin + m > Q => back = 0)
  <2>1. back \in 0..(Q - 1)
    BY <1>1, <1>3, <1>6, Remainder
  <2>2. CASE begin + m > Q
    <3>1. PICK q \in Int : at = Q * q + begin
      BY <1>0, <1>1, Quotient
    <3>2. at + k = Q * (q + 1) + 0
      <4>1. Q * (q + 1) = Q * q + Q * 1 /\ Q * q \in Int /\ Q * 1 = Q
        BY <1>1, Distributes
      <4>. QED
        BY <1>1, <1>3, <2>2, <3>1, <4>1
    <3>3. (Q * (q + 1) + 0) % Q = 0
      <4>1. q + 1 \in Int /\ 0 \in 0..(Q - 1)
        BY <1>1
      <4>. QED
        BY <1>1, <4>1, RemainderUnique, Zenon
    <3>. QED
      BY <1>6, <2>1, <3>2, <3>3
  <2>. QED
    BY <2>1, <2>2
<1>9. ASSUME NEW p \in 0..(Q - 1)
      PROVE  written[p] = IF (p - at) % Q < m THEN RowOf(packet, (p - at) % Q) ELSE frames[p]
  <2>1. PICK d : d = (p - at) % Q /\ d = (IF p >= begin THEN p - begin ELSE p - begin + Q)
    BY <1>0, <1>1, RingDistance
  <2>2. CASE begin + m <= Q
    <3>1. k = m /\ ~(p \in back..(back + (m - k) - 1))
      BY <1>1, <1>3, <1>8, <2>2
    <3>2. written[p] = half[p]
      BY <1>7, <3>1
    <3>3. d < m <=> p \in begin..(begin + k - 1)
      BY <1>1, <2>1, <2>2, <3>1
    <3>4. d < m => 0 + (p - begin) = d
      BY <1>1, <2>1, <2>2
    <3>. QED
      BY <1>5, <2>1, <3>2, <3>3, <3>4
  <2>3. CASE ~(begin + m <= Q)
    <3>1. k = Q - begin /\ back = 0
      BY <1>1, <1>3, <1>8, <2>3
    <3>2. CASE p \in 0..(m - k - 1)
      <4>1. p \in back..(back + (m - k) - 1) /\ k + (p - back) = d /\ d < m
        BY <1>1, <2>1, <2>3, <3>1, <3>2
      <4>. QED
        BY <1>7, <2>1, <4>1
    <3>3. CASE p \notin 0..(m - k - 1)
      <4>1. ~(p \in back..(back + (m - k) - 1))
        BY <1>1, <3>1, <3>3
      <4>2. d < m <=> p \in begin..(begin + k - 1)
        BY <1>1, <2>1, <2>3, <3>1, <3>3
      <4>3. d < m => 0 + (p - begin) = d
        BY <1>1, <2>1, <4>2
      <4>4. written[p] = half[p]
        BY <1>7, <4>1
      <4>. QED
        BY <1>5, <2>1, <4>2, <4>3, <4>4
    <3>. QED
      BY <3>2, <3>3
  <2>. QED
    BY <2>2, <2>3
<1>. QED
  BY <1>0, <1>4, <1>7, <1>9

(* What agrees modulo the counters' range agrees modulo the size of the ring.       *)
LEMMA AgreeInRing ==
  ASSUME NEW size \in Nat \ {0}, W \in Nat \ {0}, W % size = 0,
         NEW a \in Int, NEW b \in Int, Agree(a, b, W)
  PROVE  Agree(a, b, size)
<1>1. (a % W) % size = a % size /\ (b % W) % size = b % size
  BY RemainderOfRemainder
<1>. QED
  BY <1>1, Zenon DEF Agree

(* How far the place of y is behind at.                                           *)
Ahead(y, at, size) == ((y % size) - at) % size

LEMMA PlaceBehind ==
  ASSUME NEW size \in Nat \ {0}, NEW x \in Int, NEW y \in Int, NEW at \in Int,
         Agree(at, x, size)
  PROVE  /\ Ahead(y, at, size) \in 0..(size - 1)
         /\ x <= y => Ahead(y, at, size) <= y - x
         /\ x <= y /\ y < x + size => Ahead(y, at, size) = y - x
         /\ x - size <= y /\ y < x => Ahead(y, at, size) = y - x + size
<1>1. PICK p, d : p = y % size /\ d = (p - at) % size
  OBVIOUS
<1>2. p \in 0..(size - 1)
  BY <1>1, Remainder
<1>3. Agree(p, y, size)
  BY <1>1, <1>2, SmallRemainder DEF Agree
<1>4. Agree(p - at, y - x, size)
  <2>1. p \in Int
    BY <1>2
  <2>. QED
    BY <1>3, <2>1, AgreeDifference
<1>5. y - x \in Int
  OBVIOUS
<1>6. d = (y - x) % size
  BY <1>1, <1>4, <1>5 DEF Agree
<1>7. d \in 0..(size - 1)
  BY <1>5, <1>6, Remainder
<1>8. ASSUME x <= y, y < x + size
      PROVE  d = y - x
  <2>1. y - x \in 0..(size - 1)
    BY <1>8
  <2>. QED
    BY <1>6, <2>1, SmallRemainder, Zenon
<1>9. ASSUME x - size <= y, y < x
      PROVE  d = y - x + size
  <2>1. y - x + size \in 0..(size - 1) /\ size * (-1) + (y - x + size) = y - x /\ -1 \in Int
    BY <1>9
  <2>2. (size * (-1) + (y - x + size)) % size = y - x + size
    BY <2>1, RemainderUnique, Zenon
  <2>. QED
    BY <1>6, <2>1, <2>2, Zenon
<1>10. x <= y => d <= y - x
  BY <1>5, <1>7, <1>8
<1>. QED
  <2>1. Ahead(y, at, size) = d
    BY <1>1 DEF Ahead
  <2>. QED
    BY <1>7, <1>8, <1>9, <1>10, <2>1

(* The place of a frame in the audio queue.                                        *)
PlaceOf(f) == (session.count + f) % QueueSize

(* A queue that ended at the frame to, dc frames of silence and a packet later: what   *)
(* the packet brought is in its place, and silence, and what was there before.        *)
Taken(queue, packet, to, dc) ==
  /\ DOMAIN queue = 0..(QueueSize - 1)
  /\ \A f \in (to + dc + packet.nfram - QueueSize)..(to + dc + packet.nfram - 1) :
       \/ to + dc <= f /\ queue[PlaceOf(f)] = RowOf(packet, f - (to + dc))
       \/ to <= f /\ f < to + dc /\ queue[PlaceOf(f)] = Silence
       \/ to - QueueSize <= f /\ f < to /\ queue[PlaceOf(f)] = ring[PlaceOf(f)]

(* The number of the frame to, in the counters' range.                              *)
Counted(base, to) == Agree(base, session.count + to, W)

LEMMA RingWritten ==
  ASSUME QueueSize \in Nat \ {0}, W \in Nat \ {0}, W % QueueSize = 0, session.count \in Nat,
         DOMAIN ring = 0..(QueueSize - 1), NEW packet, packet.nfram \in Nat \ {0},
         packet.nfram <= QueueSize, NEW base \in Int, NEW to \in Int, NEW dc \in Nat,
         Counted(base, to)
  PROVE  Taken(write_audio(write_zeros(ring, base, dc), base + dc, packet), packet, to, dc)
<1>1. PICK begin, m, at, written, frame, size :
        /\ begin = session.count /\ m = packet.nfram /\ at = base + dc /\ frame = to + dc
        /\ written = write_audio(write_zeros(ring, base, dc), base + dc, packet)
        /\ size = QueueSize /\ frame \in Int /\ to <= frame /\ dc = frame - to
  OBVIOUS
<1>2. /\ begin \in Int /\ m \in Nat \ {0} /\ m <= size /\ at \in Int /\ frame \in Int
      /\ size \in Nat \ {0} /\ W % size = 0 /\ to <= frame /\ dc = frame - to
      /\ DOMAIN ring = 0..(size - 1)
  BY <1>1
<1>3. Agree(base, begin + to, size)
  <2>1. begin + to \in Int /\ Agree(base, begin + to, W)
    BY <1>1, <1>2 DEF Counted
  <2>. QED
    BY <1>2, <2>1, AgreeInRing
<1>4. Agree(at, begin + frame, size)
  <2>1. Agree(base + dc, (begin + to) + dc, size)
    <3>1. begin + to \in Int /\ dc \in Int /\ base \in Int /\ size \in Nat \ {0}
      BY <1>2
    <3>. QED
      BY <1>3, <3>1, AgreeMoved
  <2>2. (begin + to) + dc = begin + frame
    BY <1>2
  <2>. QED
    BY <1>1, <2>1, <2>2
<1>5. PICK zeros : zeros = write_zeros(ring, base, dc)
  OBVIOUS
<1>6. /\ DOMAIN zeros = 0..(size - 1)
      /\ \A p \in 0..(size - 1) :
           zeros[p] = IF (p - base) % size < dc THEN Silence ELSE ring[p]
  BY <1>1, <1>2, <1>5 DEF write_zeros
<1>7. /\ DOMAIN written = 0..(size - 1)
      /\ \A p \in 0..(size - 1) :
           written[p] = IF (p - at) % size < m THEN RowOf(packet, (p - at) % size) ELSE zeros[p]
  <2>1. written = write_audio(zeros, at, packet) /\ DOMAIN zeros = 0..(QueueSize - 1)
    BY <1>1, <1>5, <1>6
  <2>. DEFINE queue == write_audio(zeros, at, packet)
  <2>2. /\ DOMAIN queue = 0..(QueueSize - 1)
        /\ \A p \in 0..(QueueSize - 1) :
             queue[p] = IF (p - at) % QueueSize < packet.nfram
                        THEN RowOf(packet, (p - at) % QueueSize) ELSE zeros[p]
    BY <1>2, <2>1, AudioWritten
  <2>. HIDE DEF queue
  <2>3. queue = written
    BY <2>1 DEF queue
  <2>. QED
    BY <1>1, <2>2, <2>3
<1>8. ASSUME NEW f \in (frame + m - size)..(frame + m - 1), NEW p, p = (begin + f) % size
      PROVE  \/ frame <= f /\ written[p] = RowOf(packet, f - frame)
             \/ to <= f /\ f < frame /\ written[p] = Silence
             \/ to - size <= f /\ f < to /\ written[p] = ring[p]
  <2>0. f \in Int /\ p \in 0..(size - 1)
    <3>1. f \in Int /\ begin + f \in Int
      BY <1>2
    <3>. QED
      BY <1>2, <1>8, <3>1, Remainder
  <2>1. PICK d, e : d = (p - at) % size /\ e = (p - base) % size
    OBVIOUS
  <2>. DEFINE y == begin + f
  <2>2. /\ frame <= f /\ f < frame + size => d = f - frame
        /\ frame - size <= f /\ f < frame => d = f - frame + size
    <3>. DEFINE x == begin + frame
    <3>1. d = Ahead(y, at, size)
      BY <1>8, <2>1 DEF Ahead
    <3>2. x \in Int /\ y \in Int /\ size \in Nat \ {0} /\ at \in Int
      BY <1>2, <2>0
    <3>3. Agree(at, x, size)
      BY <1>4
    <3>4. /\ x <= y /\ y < x + size => d = y - x
          /\ x - size <= y /\ y < x => d = y - x + size
      <4>. HIDE DEF x, y
      <4>. QED
        BY <3>1, <3>2, <3>3, PlaceBehind
    <3>. QED
      BY <1>2, <2>0, <3>4
  <2>3. /\ e \in 0..(size - 1) /\ (to <= f => e <= f - to)
        /\ to - size <= f /\ f < to => e = f - to + size
    <3>. DEFINE x == begin + to
    <3>1. e = Ahead(y, base, size)
      BY <1>8, <2>1 DEF Ahead
    <3>2. x \in Int /\ y \in Int /\ size \in Nat \ {0}
      BY <1>2, <2>0
    <3>3. Agree(base, x, size)
      BY <1>3
    <3>4. /\ e \in 0..(size - 1)
          /\ x <= y => e <= y - x
          /\ x - size <= y /\ y < x => e = y - x + size
      <4>. HIDE DEF x, y
      <4>. QED
        BY <3>1, <3>2, <3>3, PlaceBehind
    <3>. QED
      BY <1>2, <2>0, <3>4
  <2>. HIDE DEF y
  <2>4. CASE frame <= f
    <3>1. d = f - frame /\ d < m
      BY <1>2, <1>8, <2>0, <2>2, <2>4
    <3>. QED
      BY <1>7, <2>0, <2>1, <2>4, <3>1
  <2>5. CASE f < frame
    <3>1. d = f - frame + size /\ ~(d < m)
      BY <1>2, <1>8, <2>0, <2>2, <2>5
    <3>2. written[p] = zeros[p] /\ zeros[p] = IF e < dc THEN Silence ELSE ring[p]
      BY <1>6, <1>7, <2>0, <2>1, <3>1
    <3>3. CASE to <= f
      <4>1. e < dc
        BY <1>2, <2>0, <2>3, <2>5, <3>3
      <4>. QED
        BY <2>5, <3>2, <3>3, <4>1
    <3>4. CASE f < to
      <4>1. to - size <= f
        BY <1>2, <1>8, <2>0
      <4>2. e = f - to + size /\ ~(e < dc)
        BY <1>2, <1>8, <2>0, <2>3, <3>4, <4>1
      <4>. QED
        BY <3>2, <3>4, <4>1, <4>2
    <3>. QED
      BY <2>0, <3>3, <3>4
  <2>6. frame \in Int /\ f \in Int
    BY <1>2, <2>0
  <2>7. frame <= f \/ f < frame
    BY <2>6
  <2>. QED
    BY <2>4, <2>5, <2>7, Zenon
<1>9. \A f \in (frame + m - size)..(frame + m - 1) :
        LET p == (begin + f) % size
        IN  \/ frame <= f /\ written[p] = RowOf(packet, f - frame)
            \/ to <= f /\ f < frame /\ written[p] = Silence
            \/ to - size <= f /\ f < to /\ written[p] = ring[p]
  BY <1>8
<1>. HIDE DEF Silence
<1>. QED
  BY <1>1, <1>7, <1>9 DEF Taken, PlaceOf

(* What is known of a list's channels.                                            *)
LEMMA ListedChannels ==
  ASSUME ListSound
  PROVE  \A n \in DOMAIN chlist : chlist[n] \in Nat
<1>1. chlist \in Seq(0..(MAXCHAN - 1)) /\ MAXCHAN \in Nat
  BY ChanListParams DEF ListSound
<1>2. \A n \in DOMAIN chlist : chlist[n] \in 0..(MAXCHAN - 1)
  BY <1>1, LenProperties, ElementOfSeq
<1>. QED
  BY <1>1, <1>2

(* The frames of a packet on these channels are the sender's.                      *)
LEMMA RowCarries ==
  ASSUME session \in Sessions, ListSound, NEW a, Carried(a),
         NEW f \in a.frame..(a.frame + a.packet.nfram - 1)
  PROVE  Carries(RowOf(a.packet, f - a.frame), f)
<1>1. /\ a.frame \in Nat /\ a.packet.nfram \in Nat \ {0} /\ a.packet.nchan = session.nchan
      /\ session.nchan \in Nat \ {0}
  BY SignalNumber DEF Carried
<1>2. f - a.frame \in 0..(a.packet.nfram - 1) /\ a.frame + (f - a.frame) = f
  BY <1>1
<1>3. ASSUME NEW n \in DOMAIN chlist, chlist[n] < session.nchan
      PROVE  SoundsAs(Signal(chlist[n], f), get_audio(a.packet, chlist[n], f - a.frame, 1)[1])
  <2>1. chlist[n] \in 0..(session.nchan - 1)
    BY <1>1, <1>3, ListedChannels
  <2>2. SoundsAs(Signal(chlist[n], a.frame + (f - a.frame)),
                 get_audio(a.packet, chlist[n], f - a.frame, 1)[1])
    BY <1>2, <2>1 DEF Carried
  <2>. QED
    BY <1>2, <2>2
<1>. QED
  BY <1>1, <1>3 DEF Carries, RowOf

LEMMA HeadCarried ==
  ASSUME TimesBase, AirCarries, air # <<>>
  PROVE  Carried(Head(air)) /\ Head(air).frame + Head(air).packet.nfram <= Upcoming
<1>1. PICK S : air \in Seq(S)
  BY DEF TimesBase, AirTimes
<1>2. 1 \in 1..Len(air) /\ Head(air) = air[1]
  BY <1>1
<1>. QED
  BY <1>2 DEF AirCarries

(* Frames that never come.                                                       *)
Lacking(f) == f \in gone \/ f < since

(* A frame is at its place, or silence for one that never comes.                     *)
FrameKept(f) == (ring[PlaceOf(f)] = Silence /\ Lacking(f)) \/ Carries(ring[PlaceOf(f)], f)

(* So are the last QueueSize frames before the one at to.                            *)
RingHolds(to) ==
  /\ DOMAIN ring = 0..(QueueSize - 1)
  /\ \A f \in (to - QueueSize)..(to - 1) : FrameKept(f)

(* The frames from to on that were sent are on their way, or never come.             *)
Within(f, a) == f \in a.frame..(a.frame + a.packet.nfram - 1)

Covered(to) ==
  \A f \in to..(Upcoming - 1) : f \in gone \/ \E k \in 1..Len(air) : Within(f, air[k])

(* All steps but that of the receive thread.                                         *)
Besides ==
  \/ ReadList \/ SetUp
  \/ \E skip \in {0} \cup Skips : TxCycle(skip)
  \/ TxPacket \/ Lose \/ Repeat
  \/ \E skip \in {0} \cup Skips : RxCycle(skip)
  \/ Tick
  \/ UNCHANGED pathvars

(* They stay covered, and when a packet is received those behind it do.                *)
LEMMA CoveredKept ==
  ASSUME TimesBase, AirCarries, NEW to \in Int, Covered(to), NEW upto \in Int, to <= upto,
         Besides \/ (Receive /\ Head(air).frame + Head(air).packet.nfram <= upto)
  PROVE  Covered(upto)'
<1>0. /\ tx_tnext \in Nat /\ bsize \in Nat \ {0} /\ sum \in 0..bsize /\ (j = npack => sum = bsize)
      /\ session \in Sessions /\ \A skip \in {0} \cup Skips : skip \in Nat
  <2>1. session \in Sessions /\ tx_tnext \in Nat /\ Sound
    BY DEF TimesBase, SenderTimes
  <2>. QED
    BY <2>1, SessionNumbers, SumInPeriod
<1>00. PICK S : air \in Seq(S)
  BY DEF TimesBase, AirTimes
<1>01. PICK old, queue, n : old = air /\ queue = air' /\ n = Len(old)
  OBVIOUS
<1>02. ASSUME NEW f \in Int, upto <= f, f < Upcoming
       PROVE  f \in gone \/ \E k \in 1..n : Within(f, old[k])
  <2>1. Upcoming \in Int
    BY <1>0 DEF Upcoming
  <2>2. f \in to..(Upcoming - 1)
    BY <1>02, <2>1
  <2>. QED
    BY <1>01, <2>2 DEF Covered
<1>03. \A f, a : Within(f, a)' <=> Within(f, a)
  BY DEF Within
<1>1. CASE UNCHANGED <<vars, tx_tnext, air, gone>>
  <2>1. Upcoming' = Upcoming /\ air' = air /\ gone' = gone
    BY <1>1 DEF Upcoming, vars
  <2>2. Upcoming \in Int
    BY <1>0 DEF Upcoming
  <2>3. ASSUME NEW f \in upto..(Upcoming - 1)
        PROVE  f \in gone \/ \E k \in 1..Len(air) : Within(f, air[k])
    <3>1. f \in Int /\ upto <= f /\ f < Upcoming
      BY <2>2
    <3>. QED
      BY <1>01, <1>02, <3>1
  <2>. QED
    BY <2>1, <2>3 DEF Covered, Within
<1>2. ASSUME NEW skip \in {0} \cup Skips, TxCycle(skip)
      PROVE  Covered(upto)'
  <2>1. /\ tx_tnext' = tx_tnext + skip + bsize /\ sum = bsize /\ sum' = 0
        /\ bsize' = bsize /\ air' = air /\ gone' = gone \cup tx_tnext..(tx_tnext + skip - 1)
    BY <1>0, <1>2 DEF TxCycle, Period
  <2>2. skip \in Nat
    BY <1>0
  <2>3. Upcoming = tx_tnext /\ Upcoming' = tx_tnext + skip
    BY <1>0, <2>1, <2>2 DEF Upcoming
  <2>4. ASSUME NEW f \in upto..(tx_tnext + skip - 1)
        PROVE  f \in gone' \/ \E k \in 1..n : Within(f, old[k])
    <3>1. f \in Int /\ upto <= f
      BY <1>0, <2>2
    <3>2. CASE f < tx_tnext
      BY <1>02, <2>1, <2>3, <3>1, <3>2
    <3>3. CASE f >= tx_tnext
      BY <1>0, <2>1, <2>2, <3>1, <3>3
    <3>. QED
      BY <1>0, <3>1, <3>2, <3>3
  <2>. QED
    BY <1>0, <1>01, <1>03, <2>1, <2>2, <2>3, <2>4 DEF Covered
<1>3. CASE TxPacket
  <2>1. PICK sent, frames : /\ sent = [packet |-> sent.packet, frame |-> Upcoming, due |-> sent.due]
                            /\ air' = Append(air, sent) /\ frames = nfram' /\ sent.packet.nfram = frames
    <3>1. PICK start, flags, sent :
            /\ start = Upcoming /\ flags = (IF j = 0 THEN {FL_TIMED} ELSE {})
            /\ sent = [packet |-> Filled(init_audio_data(flags, session.form, session.nchan, count,
                                                       nfram', dtime), start),
                     frame |-> start, due |-> now + Jitter]
      OBVIOUS
    <3>2. sent.packet.nfram = nfram'
      BY <3>1, HeaderStays
    <3>3. air' = Append(air, sent)
      BY <1>3, <3>1 DEF TxPacket, Upcoming, Packet
    <3>. QED
      BY <3>1, <3>2, <3>3
  <2>2. Packet /\ UNCHANGED <<gone, tx_tnext, bsize>>
    BY <1>3 DEF TxPacket, Packet
  <2>3. sum' = sum + frames /\ frames \in Nat \ {0}
    <3>1. SumWithin /\ SumWithin'
      BY <2>2, PacketSound, SumStaysWithin, SumNext DEF TimesBase
    <3>2. j' = j + 1 /\ sum' = sum + frames
      BY <2>1, <2>2 DEF Packet
    <3>. QED
      BY <2>1, <3>1, <3>2 DEF SumWithin
  <2>4. Upcoming \in Int /\ Upcoming' = Upcoming + frames
    <3>1. Upcoming = (tx_tnext - bsize) + sum /\ Upcoming' = (tx_tnext' - bsize') + sum'
      BY DEF Upcoming
    <3>. QED
      BY <1>0, <2>2, <2>3, <3>1
  <2>5. /\ n \in Nat /\ Len(queue) = n + 1
        /\ \A i \in 1..n : queue[i] = old[i]
        /\ queue[n + 1] = sent
    BY <1>00, <1>01, <2>1, AirAppended
  <2>6. ASSUME NEW f \in upto..(Upcoming' - 1)
        PROVE  f \in gone \/ \E k \in 1..(n + 1) : Within(f, queue[k])
    <3>1. f \in Int /\ upto <= f /\ f < Upcoming + frames
      BY <2>3, <2>4
    <3>2. CASE f < Upcoming
      <4>1. f \in gone \/ \E k \in 1..n : Within(f, old[k])
        BY <1>02, <3>1, <3>2
      <4>. QED
        BY <2>5, <4>1
    <3>3. CASE f >= Upcoming
      <4>1. sent.frame = Upcoming /\ sent.packet.nfram = frames
        BY <2>1
      <4>2. Within(f, sent)
        BY <2>3, <2>4, <3>1, <3>3, <4>1 DEF Within
      <4>3. n + 1 \in 1..(n + 1)
        BY <2>5
      <4>. QED
        BY <2>5, <4>2, <4>3
    <3>. QED
      BY <2>4, <3>1, <3>2, <3>3
  <2>. QED
    BY <1>01, <1>03, <2>2, <2>5, <2>6 DEF Covered
<1>4. CASE Lose \/ (Receive /\ Head(air).frame + Head(air).packet.nfram <= upto)
  <2>1. /\ air # <<>> /\ air' = Tail(air) /\ UNCHANGED <<bsize, tx_tnext, sum>> /\ gone \subseteq gone'
        /\ \A f : Within(f, Head(air)) => \/ f \in gone'
                                         \/ Head(air).frame + Head(air).packet.nfram <= upto
    BY <1>4 DEF Lose, Receive, txvars, vars, Within
  <2>2. /\ n \in Nat /\ n >= 1 /\ Len(queue) = n - 1 /\ Head(air) = old[1]
        /\ \A i \in 1..(n - 1) : i + 1 \in 1..n /\ queue[i] = old[i + 1]
    BY <1>00, <1>01, <2>1, AirShortened
  <2>3. Upcoming \in Int /\ Upcoming' = Upcoming
    BY <1>0, <2>1 DEF Upcoming
  <2>4. ASSUME NEW f \in upto..(Upcoming - 1)
        PROVE  f \in gone' \/ \E k \in 1..(n - 1) : Within(f, queue[k])
    <3>1. f \in Int /\ upto <= f /\ f < Upcoming
      BY <2>3
    <3>2. CASE f \in gone
      BY <2>1, <3>2
    <3>3. ASSUME NEW k \in 1..n, Within(f, old[k])
          PROVE  f \in gone' \/ \E i \in 1..(n - 1) : Within(f, queue[i])
      <4>1. CASE k = 1
        <5>1. Within(f, Head(air))
          BY <2>2, <3>3, <4>1
        <5>2. ~(Head(air).frame + Head(air).packet.nfram <= upto)
          <6>1. PICK a : a = Head(air)
            OBVIOUS
          <6>2. a.frame \in Nat /\ a.packet.nfram \in Nat
            <7>1. 1 \in 1..n
              BY <2>2
            <7>. QED
              BY <1>01, <2>2, <6>1, <7>1 DEF AirCarries, Carried
          <6>3. f < a.frame + a.packet.nfram
            BY <5>1, <6>1, <6>2, <3>1 DEF Within
          <6>. QED
            BY <3>1, <6>1, <6>2, <6>3
        <5>. QED
          BY <2>1, <5>1, <5>2
      <4>2. CASE k # 1
        <5>1. k - 1 \in 1..(n - 1) /\ (k - 1) + 1 = k
          BY <2>2, <4>2
        <5>2. queue[k - 1] = old[k]
          BY <2>2, <5>1
        <5>. QED
          BY <3>3, <5>1, <5>2
      <4>. QED
        BY <4>1, <4>2
    <3>. QED
      BY <1>02, <3>1, <3>2, <3>3
  <2>. QED
    BY <1>01, <1>03, <2>2, <2>3, <2>4 DEF Covered
<1>5. CASE Repeat
  <2>1. air # <<>> /\ air' = <<Head(air)>> \o air /\ UNCHANGED <<gone, bsize, tx_tnext, sum>>
    BY <1>5 DEF Repeat, txvars, vars
  <2>2. /\ n \in Nat /\ Len(queue) = n + 1
        /\ \A i \in 2..(n + 1) : i - 1 \in 1..n /\ queue[i] = old[i - 1]
    BY <1>00, <1>01, <2>1, AirRepeated
  <2>3. Upcoming \in Int /\ Upcoming' = Upcoming
    BY <1>0, <2>1 DEF Upcoming
  <2>4. ASSUME NEW f \in upto..(Upcoming - 1)
        PROVE  f \in gone \/ \E k \in 1..(n + 1) : Within(f, queue[k])
    <3>1. f \in Int /\ upto <= f /\ f < Upcoming
      BY <2>3
    <3>2. ASSUME NEW k \in 1..n, Within(f, old[k])
          PROVE  \E i \in 1..(n + 1) : Within(f, queue[i])
      <4>1. k + 1 \in 2..(n + 1) /\ k + 1 \in 1..(n + 1) /\ (k + 1) - 1 = k
        BY <2>2
      <4>2. queue[k + 1] = old[k]
        BY <2>2, <4>1
      <4>. QED
        BY <3>2, <4>1, <4>2
    <3>. QED
      BY <1>02, <3>1, <3>2
  <2>. QED
    BY <1>01, <1>03, <2>1, <2>2, <2>3, <2>4 DEF Covered
<1>6. CASE \E skip \in {0} \cup Skips : RxCycle(skip)
  BY <1>1, <1>6 DEF RxCycle, txvars
<1>7. CASE Tick
  BY <1>1, <1>7 DEF Tick, txvars
<1>8. CASE ReadList \/ SetUp \/ UNCHANGED pathvars
  BY <1>1, <1>8 DEF ReadList, SetUp, pathvars, txvars
<1>. QED
  BY <1>2, <1>3, <1>4, <1>5, <1>6, <1>7, <1>8 DEF Besides

(* The packet received next is no longer than a period, and a period ends no more     *)
(* than its length behind what was received of it.                                 *)
LEMMA PartsShort ==
  ASSUME TimesBase, NEW g, NEW to, NEW ends, Linked(g, to, ends)
  PROVE  /\ ends - bsize <= to
         /\ air # <<>> => Head(air).packet.nfram <= bsize
<1>1. PICK parts, m : Chain(parts, m) /\ parts[0].to = to /\ parts[0].ends = ends
  BY DEF Linked
<1>2. bsize \in Nat \ {0} /\ sum \in 0..bsize /\ tx_tnext \in Nat
  BY SumInPeriod DEF TimesBase, SenderTimes
<1>3. PICK p : p = parts[0]
  OBVIOUS
<1>4. /\ Len(air) \in Nat /\ p.to \in Nat /\ p.ends \in Nat
      /\ p.to = to /\ p.ends = ends /\ p.to <= p.ends
  <2>1. Len(air) \in Nat /\ 0 \in 0..Len(air)
    BY <1>1, PartNumbers
  <2>. QED
    BY <1>1, <1>3, <2>1, PartNumbers DEF Chain
<1>5. CASE Len(air) = 0
  <2>1. air = <<>>
    BY <1>5 DEF TimesBase, AirTimes
  <2>2. SentLast(p, m)
    BY <1>1, <1>3, <1>5 DEF Chain
  <2>3. p.ends - bsize <= p.to
    BY <1>2, <1>4, <2>2 DEF SentLast, Follows, Upcoming
  <2>. QED
    BY <1>4, <2>1, <2>3
<1>6. CASE Len(air) # 0
  <2>1. 1 \in 1..Len(air) /\ 1 \in 0..Len(air) /\ 1 - 1 = 0
    BY <1>4, <1>6
  <2>2. PICK q, a : q = parts[1] /\ a = air[1]
    OBVIOUS
  <2>3. Head(air) = a
    BY <1>6, <2>2 DEF TimesBase, AirTimes
  <2>4. /\ MayFollow(p, q) /\ Brings(a, q)
        /\ q.from \in Nat /\ q.to \in Nat /\ q.ends \in Nat /\ q.to <= q.ends
    BY <1>1, <1>3, <2>1, <2>2, PartNumbers DEF Chain
  <2>5. a.packet.nfram <= bsize
    BY <1>2, <2>4 DEF Brings
  <2>6. p.ends - bsize <= p.to
    <3>1. CASE q = p
      BY <1>2, <1>4, <2>4, <3>1 DEF Brings
    <3>2. CASE Follows(p, q.from, q.ends, q.missed)
      BY <1>2, <1>4, <2>4, <3>2 DEF Brings, Follows
    <3>. QED
      BY <2>4, <3>1, <3>2 DEF MayFollow
  <2>. QED
    BY <1>4, <2>3, <2>5, <2>6
<1>. QED
  BY <1>5, <1>6

(* What holds of it before a packet from frame on is taken behind what ended at to.    *)
TakesBehind(to, frame) ==
  /\ DOMAIN ring = 0..(QueueSize - 1)
  /\ \A f \in (to - QueueSize)..(to - 1) :
       (ring[PlaceOf(f)] = Silence /\ Lacking(f)') \/ Carries(ring[PlaceOf(f)], f)
  /\ \A f \in to..(frame - 1) : Lacking(f)'

(* With a packet taken it holds the frames before the packet's end.                  *)
LEMMA RingTakes ==
  ASSUME NEW g, Hears(g), session \in Sessions, ListSound, NEW a, Carried(a),
         a.packet.nfram <= session.tx_fsize, UNCHANGED <<session, chlist>>,
         NEW to \in Nat, to <= a.frame, TakesBehind(to, a.frame),
         NEW base \in Int, Agree(base, session.count + to, W),
         NEW dc, dc = a.frame - to, NEW time, Take(a.packet, base, dc, time)
  PROVE  RingHolds(a.frame + a.packet.nfram)'
<1>1. PICK size, frame, m : size = QueueSize /\ frame = a.frame /\ m = a.packet.nfram
  OBVIOUS
<1>2. /\ size \in Nat \ {0} /\ W % size = 0 /\ W \in Nat \ {0} /\ session.count \in Nat
      /\ frame \in Nat /\ m \in Nat \ {0} /\ m <= size
  <2>1. /\ QueueSize \in Nat \ {0} /\ W % QueueSize = 0 /\ 2 * k_buf <= QueueSize
        /\ session.bsize \in Nat \ {0} /\ session.buff \in Nat /\ session.tx_fsize \in Nat \ {0}
        /\ k_buf = session.tx_fsize + session.bsize + session.buff
    BY QueueFits
  <2>2. W \in Nat \ {0} /\ session.count \in Nat
    BY SessionNumbers
  <2>3. a.frame \in Nat /\ a.packet.nfram \in Nat \ {0}
    BY DEF Carried
  <2>. QED
    BY <1>1, <2>1, <2>2, <2>3
<1>3. PICK written : written = write_audio(write_zeros(ring, base, dc), base + dc, a.packet)
  OBVIOUS
<1>4. ring' = written
  BY <1>3 DEF Take
<1>5. Taken(written, a.packet, to, dc)
  <2>1. PICK packet : packet = a.packet
    OBVIOUS
  <2>2. /\ QueueSize \in Nat \ {0} /\ W % QueueSize = 0 /\ DOMAIN ring = 0..(QueueSize - 1)
        /\ packet.nfram \in Nat \ {0} /\ packet.nfram <= QueueSize /\ to \in Int /\ dc \in Nat
        /\ Counted(base, to)
    BY <1>1, <1>2, <2>1 DEF Counted, TakesBehind
  <2>. QED
    BY <1>2, <1>3, <2>1, <2>2, RingWritten
<1>6. /\ QueueSize' = QueueSize /\ Silence' = Silence
      /\ \A f : PlaceOf(f)' = PlaceOf(f)
      /\ \A row, f : Carries(row, f)' <=> Carries(row, f)
  BY DEF QueueSize, k_buf, Silence, PlaceOf, Carries, SoundsAs, Signal, Step
<1>7. ASSUME NEW f \in (frame + m - size)..(frame + m - 1)
      PROVE  (written[PlaceOf(f)] = Silence /\ Lacking(f)') \/ Carries(written[PlaceOf(f)], f)
  <2>1. PICK p : p = PlaceOf(f)
    OBVIOUS
  <2>2. \/ frame <= f /\ written[p] = RowOf(a.packet, f - frame)
        \/ to <= f /\ f < frame /\ written[p] = Silence
        \/ to - size <= f /\ f < to /\ written[p] = ring[p]
    <3>1. /\ to + dc = frame
          /\ f \in (to + dc + a.packet.nfram - QueueSize)..(to + dc + a.packet.nfram - 1)
      BY <1>1, <1>2
    <3>. QED
      BY <1>1, <1>5, <2>1, <3>1 DEF Taken
  <2>3. CASE frame <= f /\ written[p] = RowOf(a.packet, f - frame)
    <3>1. f \in a.frame..(a.frame + a.packet.nfram - 1)
      BY <1>1, <1>2, <2>3
    <3>2. Carries(RowOf(a.packet, f - a.frame), f)
      BY <3>1, RowCarries
    <3>. QED
      BY <1>1, <2>1, <2>3, <3>2
  <2>4. CASE to - size <= f /\ f < to /\ written[p] = ring[p]
    <3>1. f \in (to - QueueSize)..(to - 1)
      BY <1>1, <1>2, <2>4
    <3>2. (ring[PlaceOf(f)] = Silence /\ Lacking(f)') \/ Carries(ring[PlaceOf(f)], f)
      BY <3>1 DEF TakesBehind
    <3>. QED
      BY <2>1, <2>4, <3>2
  <2>5. CASE to <= f /\ f < frame /\ written[p] = Silence
    <3>1. f \in to..(a.frame - 1)
      BY <1>1, <1>2, <2>5
    <3>2. Lacking(f)'
      BY <3>1 DEF TakesBehind
    <3>. QED
      BY <2>1, <2>5, <3>2
  <2>. QED
    BY <2>1, <2>2, <2>3, <2>4, <2>5
<1>. HIDE DEF Silence
<1>8. (DOMAIN ring)' = 0..(size - 1)
  BY <1>1, <1>4, <1>5 DEF Taken
<1>9. ASSUME NEW f \in (frame + m - size)..(frame + m - 1)
      PROVE  FrameKept(f)'
  BY <1>4, <1>6, <1>7 DEF FrameKept
<1>10. /\ (a.frame + a.packet.nfram)' = frame + m /\ QueueSize' = size
       /\ (a.frame + a.packet.nfram - QueueSize)' = frame + m - size
  BY <1>1, <1>6
<1>11. PICK upto : upto = frame + m
  OBVIOUS
<1>12. RingHolds(upto)'
  BY <1>2, <1>8, <1>9, <1>10, <1>11 DEF RingHolds
<1>. QED
  BY <1>1, <1>11, <1>12

(* The queue keeps what it holds, and what never comes does not.                       *)
LEMMA RingStays ==
  ASSUME [PathNext]_pathvars, ~first, UNCHANGED <<session, chlist, ring>>, NEW to, RingHolds(to)
  PROVE  RingHolds(to)'
<1>1. gone \subseteq gone' /\ since' = since
  BY DEF PathNext, ReadList, SetUp, TxCycle, TxPacket, Lose, Repeat, Receive, RxCycle, Tick,
         pathvars, rxvars
<1>2. /\ QueueSize' = QueueSize /\ Silence' = Silence
      /\ \A f : PlaceOf(f)' = PlaceOf(f)
      /\ \A row, f : Carries(row, f)' <=> Carries(row, f)
      /\ \A f : Lacking(f) => Lacking(f)'
  BY <1>1 DEF QueueSize, k_buf, Silence, PlaceOf, Carries, SoundsAs, Signal, Step, Lacking
<1>. HIDE DEF QueueSize, Silence
<1>3. ASSUME NEW f, FrameKept(f)
      PROVE  FrameKept(f)'
  <2>1. PICK p, row : p = PlaceOf(f) /\ row = ring[p]
    OBVIOUS
  <2>2. (row = Silence /\ Lacking(f)) \/ Carries(row, f)
    BY <1>3, <2>1 DEF FrameKept
  <2>3. (row = Silence' /\ Lacking(f)') \/ Carries(row, f)'
    BY <1>2, <2>2
  <2>4. ring'[PlaceOf(f)'] = row
    BY <1>2, <2>1
  <2>. QED
    BY <2>3, <2>4 DEF FrameKept
<1>. QED
  BY <1>2, <1>3 DEF RingHolds

(* The queue is silent when a program is set up, and stays so until the first packet.   *)
QueueReady ==
  /\ session \in Sessions
  /\ rxat = "up" => verdict = "good"
  /\ ~(txat = "up" /\ rxat = "up") => first /\ heard = <<>>
  /\ first /\ rxat = "up" => ring = [p \in 0..(QueueSize - 1) |-> Silence]

LEMMA QueueStarts == PathInit => QueueReady
  BY DEF PathInit, SocketsInit, QueueReady

LEMMA QueueKept ==
  ASSUME QueueReady, [PathNext]_pathvars
  PROVE  QueueReady' /\ (~(first /\ heard = <<>>) => UNCHANGED <<chlist, rxat, verdict>>)
<1>1. CASE ReadList
  <2>1. verdict = "reading" /\ UNCHANGED <<session, txat, rxat, first, heard, ring>>
    BY <1>1 DEF ReadList, ListNext, ReadItem, RefuseList, AcceptList, sockvars, rxvars, jrxvars
  <2>2. rxat # "up" /\ first /\ heard = <<>>
    BY <2>1 DEF QueueReady
  <2>. QED
    BY <2>1, <2>2 DEF QueueReady
<1>2. CASE SetUp
  <2>1. UNCHANGED <<session, chlist, verdict, first, heard>>
    BY <1>2 DEF SetUp, listvars, jrxvars
  <2>2. /\ ~(txat = "up" /\ rxat = "up")
        /\ (rxat = "up" => verdict = "good") => (rxat' = "up" => verdict = "good")
    BY <1>2 DEF SetUp, TxSetUp, RxSetUp
  <2>3. QueueSize' = QueueSize /\ Silence' = Silence
    BY <2>1 DEF QueueSize, k_buf, Silence
  <2>4. ring' = IF rxat' = "up" THEN [p \in 0..(QueueSize - 1) |-> Silence] ELSE ring
    BY <1>2 DEF SetUp
  <2>. HIDE DEF QueueSize, Silence
  <2>5. (first /\ rxat = "up" => ring = [p \in 0..(QueueSize - 1) |-> Silence])'
    BY <2>3, <2>4
  <2>. QED
    BY <2>1, <2>2, <2>5 DEF QueueReady
<1>3. ASSUME UNCHANGED <<session, listvars, sockvars, ring, first>>,
             (txat = "up" /\ rxat = "up") \/ heard' = heard
      PROVE  QueueReady' /\ UNCHANGED <<chlist, rxat, verdict>>
  <2>1. UNCHANGED <<session, chlist, verdict, txat, rxat, ring, first>>
    BY <1>3 DEF listvars, sockvars
  <2>2. QueueSize' = QueueSize /\ Silence' = Silence
    BY <2>1 DEF QueueSize, k_buf, Silence
  <2>3. (first /\ rxat = "up" => ring = [p \in 0..(QueueSize - 1) |-> Silence])'
    <3>. HIDE DEF QueueSize, Silence
    <3>. QED
      BY <2>1, <2>2 DEF QueueReady
  <2>. QED
    BY <1>3, <2>1, <2>3 DEF QueueReady
<1>4. CASE Receive
  <2>1. /\ txat = "up" /\ rxat = "up" /\ UNCHANGED <<session, chlist, verdict, txat, rxat, heard>>
        /\ (UNCHANGED <<ring, first>> \/ ~first')
    BY <1>4 DEF Receive, Running, listvars, sockvars, rxvars, jrxvars
  <2>2. QueueSize' = QueueSize /\ Silence' = Silence
    BY <2>1 DEF QueueSize, k_buf, Silence
  <2>3. (first /\ rxat = "up" => ring = [p \in 0..(QueueSize - 1) |-> Silence])'
    <3>. HIDE DEF QueueSize, Silence
    <3>. QED
      BY <2>1, <2>2 DEF QueueReady
  <2>. QED
    BY <2>1, <2>3 DEF QueueReady
<1>5. CASE \E skip \in {0} \cup Skips : TxCycle(skip)
  BY <1>3, <1>5 DEF TxCycle, rxvars, jrxvars
<1>6. CASE TxPacket \/ Lose \/ Repeat \/ Tick
  BY <1>3, <1>6 DEF TxPacket, Lose, Repeat, Tick, rxvars, jrxvars
<1>7. CASE \E skip \in {0} \cup Skips : RxCycle(skip)
  BY <1>3, <1>7 DEF RxCycle, Running, rxvars
<1>8. CASE UNCHANGED pathvars
  BY <1>3, <1>8 DEF pathvars, rxvars, jrxvars
<1>. QED
  BY <1>1, <1>2, <1>4, <1>5, <1>6, <1>7, <1>8 DEF PathNext

(* Before the first packet the silence stands for frames before the session.            *)
LEMMA SilenceTakes ==
  ASSUME NEW g, Hears(g), QueueReady, first, rxat = "up", NEW frame \in Int, since' = frame
  PROVE  TakesBehind(frame, frame)
<1>1. QueueSize \in Nat \ {0} /\ session.count \in Nat
  BY QueueFits, SessionNumbers DEF QueueReady
<1>2. ring = [p \in 0..(QueueSize - 1) |-> Silence]
  BY DEF QueueReady
<1>3. ASSUME NEW f \in (frame - QueueSize)..(frame - 1)
      PROVE  ring[PlaceOf(f)] = Silence /\ Lacking(f)'
  <2>1. session.count + f \in Int /\ f < frame
    BY <1>1
  <2>2. PlaceOf(f) \in 0..(QueueSize - 1)
    BY <1>1, <2>1, Remainder DEF PlaceOf
  <2>3. Lacking(f)'
    BY <2>1 DEF Lacking
  <2>. QED
    BY <1>2, <2>2, <2>3
<1>4. frame..(frame - 1) = {}
  OBVIOUS
<1>. QED
  BY <1>2, <1>3, <1>4 DEF TakesBehind

(* Behind what was received the frames before the next packet never come.               *)
LEMMA RingBehind ==
  ASSUME NEW g, Hears(g), TimesBase, AirCarries, air # <<>>, NEW to \in Nat,
         RingHolds(to), Covered(to), UNCHANGED <<gone, since>>
  PROVE  TakesBehind(to, Head(air).frame)
<1>1. /\ QueueSize \in Nat \ {0} /\ tx_tnext \in Nat /\ bsize \in Nat \ {0} /\ sum \in 0..bsize
  <2>1. session \in Sessions /\ tx_tnext \in Nat /\ Sound
    BY DEF TimesBase, SenderTimes
  <2>. QED
    BY <2>1, QueueFits, SumInPeriod
<1>2. PICK S : air \in Seq(S)
  BY DEF TimesBase, AirTimes
<1>3. PICK a, n : a = Head(air) /\ n = Len(air)
  OBVIOUS
<1>4. n \in Nat /\ 1 \in 1..n /\ a = air[1]
  BY <1>2, <1>3
<1>5. a.frame \in Nat /\ a.packet.nfram \in Nat \ {0} /\ a.frame + a.packet.nfram <= Upcoming
  BY <1>3, <1>4 DEF AirCarries, Carried
<1>6. Upcoming \in Int
  BY <1>1 DEF Upcoming
<1>7. ASSUME NEW f \in to..(a.frame - 1)
      PROVE  Lacking(f)'
  <2>1. f \in Int /\ f < a.frame /\ f \in to..(Upcoming - 1)
    BY <1>5, <1>6
  <2>2. ~ \E k \in 1..n : Within(f, air[k])
    <3> SUFFICES ASSUME NEW k \in 1..n, Within(f, air[k]) PROVE FALSE
      OBVIOUS
    <3>1. PICK b : b = air[k]
      OBVIOUS
    <3>2. a.frame <= b.frame
      <4>1. 1 <= k
        BY <1>4
      <4>. QED
        BY <1>3, <1>4, <3>1, <4>1 DEF AirCarries
    <3>3. b.frame \in Nat /\ b.packet.nfram \in Nat
      BY <1>3, <3>1 DEF AirCarries, Carried
    <3>4. Within(f, b)
      BY <3>1
    <3>. QED
      BY <1>5, <2>1, <3>2, <3>3, <3>4 DEF Within
  <2>3. f \in gone
    BY <1>3, <2>1, <2>2 DEF Covered
  <2>. QED
    BY <2>3 DEF Lacking
<1>8. ASSUME NEW f \in (to - QueueSize)..(to - 1)
      PROVE  (ring[PlaceOf(f)] = Silence /\ Lacking(f)') \/ Carries(ring[PlaceOf(f)], f)
  <2>1. Lacking(f)' <=> Lacking(f)
    BY DEF Lacking
  <2>2. FrameKept(f)
    BY DEF RingHolds
  <2>. QED
    BY <2>1, <2>2 DEF FrameKept
<1>. QED
  BY <1>3, <1>7, <1>8 DEF TakesBehind, RingHolds

(* What it takes for no frame to be missing that need not: the extra buffering is the   *)
(* receiver's period and what cycles and packets are late, and full scale is not small. *)
Fills ==
  /\ \A s \in Sessions : /\ s.bsize + Late + Jitter <= s.buff
                         /\ 2 * (s.tx_fsize + s.buff + Late + Jitter) < W
  /\ \A form \in {FM_16BIT, FM_24BIT} : 32 <= R(form)

(* A frame that was written is read at its place: it is the sender's, or silence in the  *)
(* place of one that never comes or is not written yet.                             *)
LEMMA FramesHeard ==
  ASSUME NEW g, Hears(g), TimesBase, Clocks(g), ~first,
         NEW to, NEW ends, Linked(g, to, ends), RingHolds(to),
         NEW late \in 0..Jitter, NEW start \in Nat, now \in start..(start + Late),
         NEW x \in Int, Agree(x, session.count + start - late - k_del, W),
         NEW i \in 1..session.bsize
  PROVE  LET row == capture(x, session.bsize)[i]
             f   == start + i - 1 - k_del - late
         IN  /\ row = Silence \/ Carries(row, f)
             /\ Fills => Carries(row, f) \/ Lacking(f) \/ to <= f
<1>1. /\ session \in Sessions /\ g \in Nat /\ Delays(g) /\ to \in Nat /\ ends \in Nat
      /\ to <= ends /\ ends <= tx_tnext /\ ends - bsize <= to /\ now <= ends + Behind(g)
  BY Reached, PartsShort DEF TimesBase, SenderTimes, Hears, Delays, Tolerates
<1>2. /\ QueueSize \in Nat \ {0} /\ W % QueueSize = 0
      /\ session.bsize \in Nat \ {0} /\ session.buff \in Nat
      /\ session.tx_fsize + session.buff + Late + Jitter <= QueueSize
      /\ session.tx_fsize \in Nat /\ session.tx_fsize <= g /\ session.count \in Nat
      /\ W \in Nat \ {0} /\ W % 2 = 0 /\ Late \in Nat /\ Jitter \in Nat
      /\ k_del = session.buff
  <2>1. session.tx_fsize <= g
    BY <1>1 DEF Delays, Tolerates
  <2>2. k_del = session.buff
    BY DEF k_del
  <2>. QED
    BY <1>1, <2>1, <2>2, QueueFits, SessionNumbers
<1>3. /\ bsize = session.tx_fsize /\ tx_tnext \in Nat /\ now \in Nat
      /\ tx_tnext - bsize <= now
  BY DEF TimesBase, SenderTimes, Clocks
<1>4. Behind(g) \in Nat /\ 2 * (Behind(g) + g) < W
  <2>1. PICK most : most = MaxFaults * g
    OBVIOUS
  <2>2. /\ most \in Nat /\ (2 * MaxFaults + 6) * g = 2 * most + 6 * g
        /\ Behind(g) = most + g + Late + Jitter
    BY <1>1, <2>1, BehindNumber DEF Behind
  <2>3. 2 * ((2 * most + 6 * g) + 3 * Late + 3 * Jitter) < W
    BY <2>2 DEF Hears, Delays
  <2>. QED
    BY <1>1, <1>2, <2>2, <2>3
<1>5. PICK from, f : from = start - late - k_del /\ f = from + (i - 1)
  OBVIOUS
<1>6. /\ from \in Int /\ f \in Int /\ f = start + i - 1 - k_del - late
      /\ -W < 2 * (to - from) /\ from >= to - QueueSize
  BY <1>1, <1>2, <1>3, <1>4, <1>5
<1>7. nwr \in Nat /\ Agree(nwr, session.count + to, W)
  BY <1>1, Counts
<1>8. PICK avail : avail = Signed(nwr - x)
  OBVIOUS
<1>9. i - 1 < avail => f < to
  <2>1. PICK u, v : u = session.count + to /\ v = session.count + start - late - k_del
    OBVIOUS
  <2>2. u \in Int /\ v \in Int /\ u - v = to - from
    BY <1>1, <1>2, <1>5, <2>1
  <2>3. Agree(nwr - x, u - v, W)
    <3>1. Agree(nwr, u, W) /\ Agree(x, v, W) /\ nwr \in Int
      BY <1>7, <2>1
    <3>. QED
      BY <1>2, <2>2, <3>1, AgreeDifference
  <2>4. CASE 2 * (to - from) < W
    <3>1. OnCircle(nwr - x, W) = u - v
      <4>1. Agree(nwr, u, W) /\ Agree(x, v, W) /\ nwr \in Int
        BY <1>7, <2>1
      <4>2. -W < 2 * (u - v) /\ 2 * (u - v) < W
        BY <1>6, <2>2, <2>4
      <4>3. W \in Nat \ {0} /\ W % 2 = 0 /\ u \in Int /\ v \in Int
        BY <1>2, <2>2
      <4>. QED
        BY <4>1, <4>2, <4>3, CircleExact
    <3>. QED
      BY <1>1, <1>5, <1>6, <1>8, <2>2, <3>1 DEF Signed
  <2>5. CASE ~(2 * (to - from) < W)
    <3>1. 2 * avail < W /\ avail \in Int
      <4>1. PICK n : n = nwr - x /\ n \in Int
        BY <1>7
      <4>2. n % W \in 0..(W - 1)
        BY <1>2, <4>1, Remainder
      <4>3. avail = IF n % W < W \div 2 THEN n % W ELSE (n % W) - W
        BY <1>8, <4>1 DEF Signed, OnCircle
      <4>4. W \div 2 \in Int /\ W = 2 * (W \div 2)
        BY <1>2
      <4>. QED
        BY <1>2, <4>2, <4>3, <4>4
    <3>. QED
      BY <1>1, <1>2, <1>5, <1>6, <2>5, <3>1
  <2>. QED
    BY <2>4, <2>5
<1>10. ((i - 1) * session.bsize) \div session.bsize = i - 1
  <2>1. PICK n, m : n = i - 1 /\ m = session.bsize /\ n \in Int /\ m \in Nat \ {0}
    BY <1>2
  <2>2. m * n <= n * m /\ n * m < m * n + m /\ n * m \in Int
    BY <2>1
  <2>3. (n * m) \div m = n
    BY <2>1, <2>2, QuotientUnique
  <2>. QED
    BY <2>1, <2>3
<1>11. PICK row : row = capture(x, session.bsize)[i]
  OBVIOUS
<1>12. row = IF i - 1 < avail THEN ring[(x + (i - 1)) % QueueSize] ELSE Silence
  BY <1>8, <1>10, <1>11 DEF capture
<1>13. (x + (i - 1)) % QueueSize = PlaceOf(f)
  <2>1. PICK u, v, n : u = session.count + start - late - k_del /\ v = session.count + f /\ n = i - 1
    OBVIOUS
  <2>2. u \in Int /\ n \in Int /\ v = u + n
    BY <1>1, <1>2, <1>5, <1>6, <2>1
  <2>3. Agree(x, u, QueueSize)
    BY <1>2, <2>1, <2>2, AgreeInRing
  <2>4. Agree(x + n, u + n, QueueSize)
    BY <1>2, <2>2, <2>3, AgreeMoved
  <2>. QED
    BY <2>1, <2>2, <2>4 DEF Agree, PlaceOf
<1>14. Fills /\ f < to => i - 1 < avail
  <2>1. SUFFICES ASSUME Fills, f < to PROVE i - 1 < avail
    OBVIOUS
  <2>2. PICK u, v : u = session.count + to /\ v = session.count + start - late - k_del
    OBVIOUS
  <2>3. u \in Int /\ v \in Int /\ u - v = to - from
    BY <1>1, <1>2, <1>5, <2>2
  <2>4. 2 * (session.tx_fsize + session.buff + Late + Jitter) < W
    BY <1>1, <2>1 DEF Fills
  <2>5. -W < 2 * (u - v) /\ 2 * (u - v) < W
    BY <1>1, <1>2, <1>3, <1>5, <1>6, <2>3, <2>4
  <2>6. OnCircle(nwr - x, W) = u - v
    <3>1. Agree(nwr, u, W) /\ Agree(x, v, W) /\ nwr \in Int
      BY <1>7, <2>2
    <3>2. W \in Nat \ {0} /\ W % 2 = 0 /\ u \in Int /\ v \in Int
      BY <1>2, <2>3
    <3>. QED
      BY <2>5, <3>1, <3>2, CircleExact
  <2>. QED
    BY <1>1, <1>5, <1>6, <1>8, <2>1, <2>3, <2>6 DEF Signed
<1>15. CASE i - 1 < avail
  <2>1. row = ring[PlaceOf(f)]
    BY <1>12, <1>13, <1>15
  <2>2. f \in (to - QueueSize)..(to - 1)
    BY <1>1, <1>2, <1>5, <1>6, <1>9, <1>15
  <2>3. FrameKept(f)
    BY <2>2 DEF RingHolds
  <2>4. (row = Silence /\ Lacking(f)) \/ Carries(row, f)
    BY <2>1, <2>3 DEF FrameKept
  <2>. QED
    BY <1>6, <1>11, <2>4
<1>16. CASE ~(i - 1 < avail)
  <2>1. Fills => to <= f
    BY <1>1, <1>6, <1>14, <1>16
  <2>. QED
    BY <1>6, <1>11, <1>12, <1>16, <2>1
<1>. QED
  BY <1>15, <1>16

(* Such a frame is missing when it is due.                                          *)
LEMMA SilenceMissing ==
  ASSUME NEW g, TimesBase, Clocks(g), NEW to \in Int, Covered(to), NEW f \in Int,
         f + Late + Jitter < now, Lacking(f) \/ to <= f
  PROVE  Missing(f)
<1>1. /\ tx_tnext \in Nat /\ bsize \in Nat \ {0} /\ sum \in 0..bsize /\ now \in Nat
      /\ Late \in Nat /\ Jitter \in Nat
  <2>1. session \in Sessions /\ tx_tnext \in Nat /\ now \in Nat /\ Sound
    BY DEF TimesBase, SenderTimes
  <2>. QED
    BY <2>1, SessionNumbers, SumInPeriod
<1>2. CASE Lacking(f)
  BY <1>2 DEF Lacking, Missing
<1>3. CASE to <= f /\ f < Upcoming
  <2>1. f \in to..(Upcoming - 1)
    <3>1. Upcoming \in Int
      BY <1>1 DEF Upcoming
    <3>. QED
      BY <1>3, <3>1
  <2>2. ASSUME NEW k \in 1..Len(air), Within(f, air[k])
        PROVE  FALSE
    <3>1. PICK a : a = air[k]
      OBVIOUS
    <3>2. a.due \in Int /\ now <= a.due
      BY <2>2, <3>1 DEF TimesBase, AirTimes, OnTime
    <3>3. a.frame \in Nat /\ a.due <= a.frame + Late + Jitter
      BY <3>1 DEF Clocks
    <3>4. a.frame <= f
      BY <2>2, <3>1, <3>3 DEF Within
    <3>5. PICK due, frame : due = a.due /\ frame = a.frame
      OBVIOUS
    <3>6. due \in Int /\ now <= due /\ frame \in Nat /\ due <= frame + Late + Jitter /\ frame <= f
      BY <3>2, <3>3, <3>4, <3>5
    <3>. QED
      BY <1>1, <3>6
  <2>3. f \in gone
    BY <2>1, <2>2 DEF Covered
  <2>. QED
    BY <2>3 DEF Missing
<1>4. CASE Upcoming <= f
  <2>1. sum = bsize
    <3> SUFFICES ASSUME sum < bsize PROVE FALSE
      BY <1>1
    <3>1. now <= tx_tnext - bsize + Late
      BY DEF Clocks
    <3>. QED
      BY <1>1, <1>4, <3>1 DEF Upcoming
  <2>2. tx_tnext <= f /\ tx_tnext + Late < now
    BY <1>1, <1>4, <2>1 DEF Upcoming
  <2>. QED
    BY <1>1, <2>2 DEF Missing
<1>. QED
  <2>1. Upcoming \in Int
    BY <1>1 DEF Upcoming
  <2>. QED
    BY <1>2, <1>3, <1>4, <2>1

(* A frame that is missing when it was due stays so.                                  *)
LEMMA MissingStays ==
  ASSUME TimesBase, [PathNext]_pathvars, ~first, NEW f \in Int, f + Late < now, Missing(f)
  PROVE  Missing(f)'
<1>1. /\ tx_tnext \in Nat /\ bsize \in Nat \ {0} /\ now \in Nat /\ Late \in Nat
      /\ \A skip \in {0} \cup Skips : skip \in Nat
  <2>1. session \in Sessions /\ tx_tnext \in Nat /\ now \in Nat /\ Sound
    BY DEF TimesBase, SenderTimes
  <2>. QED
    BY <2>1, SessionNumbers, SumInPeriod
<1>2. ASSUME gone \subseteq gone', UNCHANGED <<since, tx_tnext>>, now' = now \/ now' = now + 1
      PROVE  Missing(f)'
  <2>1. CASE f \in gone \/ f < since
    BY <1>2, <2>1 DEF Missing
  <2>2. CASE now > tx_tnext + Late /\ f >= tx_tnext
    <3>1. now' > tx_tnext' + Late /\ f >= tx_tnext'
      BY <1>1, <1>2, <2>2
    <3>. QED
      BY <3>1 DEF Missing
  <2>. QED
    BY <2>1, <2>2 DEF Missing
<1>3. ASSUME NEW skip \in {0} \cup Skips, TxCycle(skip)
      PROVE  Missing(f)'
  <2>1. /\ now \in (tx_tnext + skip)..(tx_tnext + skip + Late) /\ skip \in Nat /\ since' = since
        /\ gone' = gone \cup tx_tnext..(tx_tnext + skip - 1)
    BY <1>1, <1>3 DEF TxCycle, rxvars
  <2>2. CASE f \in gone \/ f < since
    BY <2>1, <2>2 DEF Missing
  <2>3. CASE now > tx_tnext + Late /\ f >= tx_tnext
    <3>1. f \in tx_tnext..(tx_tnext + skip - 1)
      BY <1>1, <2>1, <2>3
    <3>. QED
      BY <2>1, <3>1 DEF Missing
  <2>. QED
    BY <2>2, <2>3 DEF Missing
<1>4. CASE Receive
  <2>1. since' = since /\ UNCHANGED <<gone, tx_tnext, now>>
    BY <1>4 DEF Receive, rxvars, txvars
  <2>. QED
    BY <1>2, <2>1
<1>5. CASE TxPacket \/ Lose \/ Repeat
  BY <1>2, <1>5 DEF TxPacket, Lose, Repeat, txvars, rxvars
<1>6. CASE \E skip \in {0} \cup Skips : RxCycle(skip)
  BY <1>2, <1>6 DEF RxCycle, txvars, rxvars
<1>7. CASE Tick
  BY <1>2, <1>7 DEF Tick, txvars, rxvars
<1>8. CASE ReadList \/ SetUp \/ UNCHANGED pathvars
  BY <1>2, <1>8 DEF ReadList, SetUp, pathvars, txvars, rxvars
<1>. QED
  BY <1>3, <1>4, <1>5, <1>6, <1>7, <1>8 DEF PathNext

(* The list names a channel that is sent.                                           *)
SomeSent == \E n \in DOMAIN chlist : chlist[n] < session.nchan

(* No frame of such a channel sounds like silence.                                    *)
LEMMA SoundIsHeard ==
  ASSUME Fills, session \in Sessions, ListSound, SomeSent, NEW f \in Int
  PROVE  ~Carries(Silence, f)
<1>1. PICK n \in DOMAIN chlist : chlist[n] < session.nchan
  BY DEF SomeSent
<1>2. PICK chan \in Int : chan = chlist[n]
  BY ListedChannels
<1>3. Grain \in Nat \ {0}
  BY NetdataParams
<1>4. /\ session.form \in Formats /\ Step \in Nat \ {0}
      /\ \E k \in 1..32, m \in 0..(Grain - 1) :
           LET size == Grain * Step * k + m
           IN  Signal(chan, f) = IF (f + chan) % 2 = 0 THEN size ELSE -size
  BY <1>2, SignalNumber
<1>05. PICK k \in 1..32, m \in 0..(Grain - 1) :
         LET size == Grain * Step * k + m
         IN  Signal(chan, f) = IF (f + chan) % 2 = 0 THEN size ELSE -size
  BY <1>4
<1>5. PICK size, x, step :
        /\ size = Grain * Step * k + m /\ x = Signal(chan, f) /\ step = Grain * Step
        /\ x = IF (f + chan) % 2 = 0 THEN size ELSE -size
  BY <1>05
<1>6. R(FM_16BIT) \in Nat /\ R(FM_24BIT) \in Nat /\ R(FM_16BIT) >= 32 /\ R(FM_24BIT) >= 32
  BY QuantisedInRange DEF Fills
<1>7. Step >= 2
  <2>1. PICK r \in Nat : Step = r \div 32 + 1 /\ r >= 32
    BY <1>6 DEF Step
  <2>. QED
    BY <2>1
<1>8. step \in Nat /\ step >= 2 * Grain
  <2>1. Grain * 2 <= Grain * Step
    BY <1>3, <1>4, <1>7, Monotone
  <2>. QED
    BY <1>3, <1>4, <1>5, <2>1
<1>9. size \in Nat /\ size >= 2 * Grain
  <2>1. step * 1 <= step * k
    BY <1>8, Monotone
  <2>2. size = step * k + m /\ step * k \in Int
    BY <1>5, <1>8
  <2>. QED
    BY <1>3, <1>8, <2>1, <2>2
<1>10. x \in Int /\ (x >= 2 * Grain \/ x <= -(2 * Grain))
  <2>1. x = size \/ x = -size
    BY <1>5
  <2>. QED
    BY <1>3, <1>9, <2>1
<1>11. ~SoundsAs(x, 0)
  <2>1. CASE session.form = FM_FLOAT
    BY <1>3, <1>10, <2>1 DEF SoundsAs
  <2>2. CASE session.form # FM_FLOAT
    <3>1. PICK full : full = Grain * R(session.form)
      OBVIOUS
    <3>2. full \in Int /\ full >= 2 * Grain
      <4>1. R(session.form) \in Nat /\ R(session.form) >= 32
        BY <1>4, <1>6, <2>2 DEF Formats
      <4>2. PICK r : r = R(session.form)
        OBVIOUS
      <4>3. Grain * 2 <= Grain * r /\ r \in Nat
        BY <1>3, <4>1, <4>2, Monotone
      <4>. QED
        BY <1>3, <3>1, <4>2, <4>3
    <3>3. PICK clip : clip = IF x > full THEN full ELSE IF x < -full THEN -full ELSE x
      OBVIOUS
    <3>4. clip \in Int /\ (clip >= 2 * Grain \/ clip <= -(2 * Grain))
      BY <1>3, <1>10, <3>2, <3>3
    <3>5. ~(2 * (0 - clip) \in (-3 * Grain)..(3 * Grain))
      BY <1>3, <3>4
    <3>. QED
      BY <2>2, <3>1, <3>3, <3>5 DEF SoundsAs
  <2>. QED
    BY <2>1, <2>2
<1>12. Silence[n] = 0
  BY <1>1 DEF Silence
<1>. QED
  BY <1>1, <1>2, <1>5, <1>11, <1>12 DEF Carries

(* What was heard last is what was due, and silence where it may be.                    *)
HeardRight ==
  /\ InTime
  /\ heard # <<>> => /\ ~first /\ heard.start \in Nat /\ heard.start <= now
                     /\ DOMAIN heard.frames = 1..session.bsize
  /\ Fills /\ SomeSent => Uninterrupted

(* What is known while no part of a period is lost: what was heard, the times, the     *)
(* queue up to the frame received last, and where the frames behind it are.             *)
HearsSound(g) ==
  /\ TimesSound(g) /\ Clocks(g) /\ AirCarries /\ ListSound /\ QueueReady
  /\ ~shaken =>
       /\ HeardRight
       /\ IF first THEN timeq = <<>> /\ sync = 0 /\ nrd \in Nat /\ Covered(0)
          ELSE \E to, ends \in Nat, late \in 0..Jitter :
                 Linked(g, to, ends) /\ Reading(g, ends, late) /\ RingHolds(to) /\ Covered(to)

LEMMA HeardStarts ==
  ASSUME NEW g \in Nat
  PROVE  PathInit => HearsSound(g)
<1> SUFFICES ASSUME PathInit PROVE HearsSound(g)
  OBVIOUS
<1>1. TimesSound(g) /\ Clocks(g) /\ AirCarries /\ ListSound /\ QueueReady
  BY TimesStart, ClocksStart, AirCarriesStart, ListStarts, QueueStarts, PathStarts
<1>2. heard = <<>> /\ first /\ timeq = <<>> /\ sync = 0 /\ nrd = 0
  BY DEF PathInit
<1>3. HeardRight
  BY <1>2 DEF HeardRight, InTime, Uninterrupted
<1>4. Covered(0)
  <2>1. session.tx_fsize \in Nat /\ tx_tnext = session.tx_fsize /\ bsize = session.tx_fsize /\ sum = 0
    BY SessionNumbers DEF PathInit
  <2>2. Upcoming = 0
    BY <2>1 DEF Upcoming
  <2>3. 0..(0 - 1) = {}
    OBVIOUS
  <2>. QED
    BY <2>2, <2>3 DEF Covered
<1>. QED
  BY <1>1, <1>2, <1>3, <1>4 DEF HearsSound

(* Time does not go back.                                                         *)
LEMMA TimeGoesOn ==
  ASSUME [PathNext]_pathvars
  PROVE  now' = now \/ now' = now + 1
  BY DEF PathNext, ReadList, SetUp, TxCycle, TxPacket, Lose, Repeat, Receive, RxCycle, Tick, pathvars

(* What was heard stays right as long as the list does.                              *)
LEMMA HeardAlready ==
  ASSUME TimesBase, QueueReady, [PathNext]_pathvars, UNCHANGED <<session, bsize, heard>>,
         ~shaken, ~shaken', HeardRight, ~first => ~first'
  PROVE  HeardRight'
<1>1. CASE heard = <<>>
  BY <1>1 DEF HeardRight, InTime, Uninterrupted
<1>2. CASE heard # <<>>
  <2>1. chlist' = chlist
    BY <1>2, QueueKept
  <2>2. /\ Silence' = Silence
        /\ \A i : Due(i)' = Due(i)
        /\ \A row, f : Carries(row, f)' <=> Carries(row, f)
    BY <2>1 DEF Silence, Due, Swing, k_del, Carries, SoundsAs, Signal, Step
  <2>3. \A i \in DOMAIN heard.frames :
          heard.frames[i] = Silence \/ \E f \in Due(i) : Carries(heard.frames[i], f)
    BY <1>2 DEF HeardRight, InTime
  <2>4. /\ ~first /\ heard.start \in Nat /\ heard.start <= now
        /\ DOMAIN heard.frames = 1..session.bsize
    BY <1>2 DEF HeardRight
  <2>. HIDE DEF Silence
  <2>5. (\A i \in DOMAIN heard.frames :
           heard.frames[i] = Silence \/ \E f \in Due(i) : Carries(heard.frames[i], f))'
    BY <2>2, <2>3
  <2>6. InTime'
    BY <2>5 DEF InTime
  <2>7. (heard # <<>> => /\ ~first /\ heard.start \in Nat /\ heard.start <= now
                         /\ DOMAIN heard.frames = 1..session.bsize)'
    <3>1. now \in Nat /\ now' \in Nat /\ now <= now'
      BY TimeGoesOn DEF TimesBase, SenderTimes
    <3>. QED
      BY <2>4, <3>1
  <2>8. ASSUME Fills, SomeSent
        PROVE  Uninterrupted'
    <3>1. \A i \in DOMAIN heard.frames : heard.frames[i] = Silence => \E f \in Due(i) : Missing(f)
      BY <1>2, <2>8 DEF HeardRight, Uninterrupted
    <3>2. ASSUME NEW i \in DOMAIN heard.frames, heard.frames[i] = Silence
          PROVE  \E f \in Due(i) : Missing(f)'
      <4>1. PICK f \in Due(i) : Missing(f)
        BY <3>1, <3>2
      <4>2. PICK d \in 0..Jitter : f = heard.start + i - 1 - k_del - d
        <5>1. Jitter \in Nat /\ Swing = 0
          BY PathParams DEF Swing
        <5>2. (-Swing)..(Jitter + Swing) = 0..Jitter
          BY <5>1
        <5>. QED
          BY <4>1, <5>2 DEF Due
      <4>3. /\ i \in 1..session.bsize /\ now \in Nat /\ session \in Sessions
            /\ session.bsize \in Nat \ {0} /\ session.buff \in Nat /\ Late \in Nat /\ Jitter \in Nat
        BY <2>4, <3>2, PathParams, SessionNumbers DEF TimesBase, SenderTimes
      <4>4. session.bsize + Late + Jitter <= session.buff /\ k_del = session.buff
        BY <2>8, <4>3 DEF Fills, k_del
      <4>5. f \in Int /\ f + Late < now
        <5>1. PICK start, buff, b : /\ start = heard.start /\ buff = session.buff
                                    /\ b = session.bsize
          OBVIOUS
        <5>2. /\ start \in Nat /\ start <= now /\ now \in Nat /\ i \in 1..b /\ b \in Nat /\ buff \in Nat
              /\ Late \in Nat /\ Jitter \in Nat /\ b + Late + Jitter <= buff
              /\ f = start + i - 1 - buff - d
          BY <2>4, <4>2, <4>3, <4>4, <5>1
        <5>3. f \in Int /\ f <= start + b - 1 - buff
          BY <5>2
        <5>. QED
          BY <5>2, <5>3
      <4>. QED
        BY <2>4, <4>1, <4>5, MissingStays
    <3>3. (\A i \in DOMAIN heard.frames :
             heard.frames[i] = Silence => \E f \in Due(i) : Missing(f))'
      BY <2>2, <3>2
    <3>. QED
      BY <3>3 DEF Uninterrupted
  <2>9. SomeSent' <=> SomeSent
    BY <2>1 DEF SomeSent
  <2>. QED
    BY <2>6, <2>7, <2>8, <2>9 DEF HeardRight
<1>. QED
  BY <1>1, <1>2

(* What does not depend on what is received or read.                                *)
LEMMA HeardBesides ==
  ASSUME NEW g, Hears(g), HearsSound(g), [PathNext]_pathvars
  PROVE  /\ TimesSound(g)' => (TimesSound(g) /\ Clocks(g) /\ AirCarries /\ ListSound /\ QueueReady)'
         /\ ~first => UNCHANGED <<chlist, rxat>>
<1>1. /\ g \in Nat /\ Tolerates(g) /\ TimesBase /\ Clocks(g) /\ AirCarries /\ ListSound /\ QueueReady
  BY DEF Hears, Delays, Tolerates, HearsSound, TimesSound
<1>2. Clocks(g)'
  BY <1>1, ClocksKept
<1>3. ListSound'
  BY <1>1, PathSteps, ListKeeps
<1>4. QueueReady' /\ (~first => UNCHANGED <<chlist, rxat>>)
  BY <1>1, QueueKept
<1>5. AirCarries'
  BY <1>1, AirCarriesKept
<1>. QED
  BY <1>2, <1>3, <1>4, <1>5

(* Steps of the sender, the network and time leave the queue alone.                  *)
LEMMA HeardStays ==
  ASSUME NEW g, Hears(g), HearsSound(g), Besides, Keeps(g),
         UNCHANGED <<session, bsize, first, t0, timeq, jrxvars>>, ~first => ring' = ring
  PROVE  HearsSound(g)'
<1>0. [PathNext]_pathvars /\ TimesBase /\ AirCarries /\ QueueReady
  BY DEF Besides, PathNext, HearsSound, TimesSound
<1>1. TimesSound(g)'
  BY KeepsSound DEF HearsSound
<1>2. /\ (TimesSound(g) /\ Clocks(g) /\ AirCarries /\ ListSound /\ QueueReady)'
      /\ ~first => UNCHANGED <<chlist, rxat>>
  BY <1>0, <1>1, HeardBesides
<1>3. ASSUME ~shaken'
      PROVE  (/\ HeardRight
              /\ IF first THEN timeq = <<>> /\ sync = 0 /\ nrd \in Nat /\ Covered(0)
                 ELSE \E to, ends \in Nat, late \in 0..Jitter :
                        Linked(g, to, ends) /\ Reading(g, ends, late) /\ RingHolds(to) /\ Covered(to))'
  <2>1. /\ ~shaken
        /\ \A to, ends \in Nat : Linked(g, to, ends) => Linked(g, to, ends)'
    BY <1>3 DEF Keeps
  <2>2. \A ends, late : Reading(g, ends, late) => Reading(g, ends, late)'
    BY DEF Reading, Follower, PointAt, Agree, k_del, jrxvars
  <2>3. ASSUME ~first, NEW to
        PROVE  RingHolds(to) => RingHolds(to)'
    BY <1>0, <1>2, <2>3, RingStays
  <2>4. /\ HeardRight
        /\ IF first THEN timeq = <<>> /\ sync = 0 /\ nrd \in Nat /\ Covered(0)
           ELSE \E to, ends \in Nat, late \in 0..Jitter :
                  Linked(g, to, ends) /\ Reading(g, ends, late) /\ RingHolds(to) /\ Covered(to)
    BY <2>1 DEF HearsSound
  <2>5. HeardRight'
    <3>1. heard' = heard /\ first' = first
      BY DEF jrxvars
    <3>. QED
      BY <1>0, <1>3, <2>1, <2>4, <3>1, HeardAlready
  <2>6. ASSUME NEW to \in Nat, Covered(to)
        PROVE  Covered(to)'
    BY <1>0, <2>6, CoveredKept
  <2>. QED
    BY <2>1, <2>2, <2>3, <2>4, <2>5, <2>6 DEF jrxvars
<1>. QED
  BY <1>2, <1>3 DEF HearsSound

(* A packet that is taken is written to the queue.                                   *)
LEMMA PacketWritten ==
  ASSUME NEW g, Hears(g), HearsSound(g), [PathNext]_pathvars, Receive,
         NEW to \in Nat, NEW ends \in Nat, Linked(g, to, ends),
         ~first => RingHolds(to) /\ Covered(to),
         NEW next, Accepted(Head(air), to, ends, next),
         NEW upto, upto = Head(air).frame + Head(air).packet.nfram
  PROVE  RingHolds(upto)'
<1>1. PICK a : a = Head(air)
  OBVIOUS
<1>2. /\ TimesBase /\ air # <<>> /\ rxat = "up" /\ session \in Sessions
      /\ bsize = session.tx_fsize /\ ListSound /\ QueueReady /\ AirCarries
      /\ UNCHANGED <<session, chlist>>
  BY DEF Receive, Running, HearsSound, TimesSound, TimesBase, SenderTimes, listvars
<1>3. Carried(a)
  BY <1>1, <1>2, HeadCarried
<1>4. a.packet.nfram <= session.tx_fsize /\ a.frame \in Nat
  BY <1>1, <1>2, <1>3, PartsShort DEF Carried
<1>5. /\ ~first => nwr \in Nat /\ Agree(nwr, session.count + to, W)
      /\ a.packet.count \in Nat /\ Agree(a.packet.count, session.count + a.frame, W)
  BY <1>1, <1>2, Counts
<1>6. CASE first
  <2>1. PICK time : Take(a.packet, a.packet.count, 0, time)
    BY <1>1, <1>6 DEF Accepted
  <2>2. TakesBehind(a.frame, a.frame)
    <3>1. since' = a.frame
      BY <1>1, <1>6 DEF Accepted
    <3>. QED
      BY <1>2, <1>4, <1>6, <3>1, SilenceTakes
  <2>3. 0 = a.frame - a.frame /\ a.frame <= a.frame /\ a.packet.count \in Int
    BY <1>4, <1>5
  <2>4. RingHolds(a.frame + a.packet.nfram)'
    BY <1>2, <1>3, <1>4, <1>5, <2>1, <2>2, <2>3, RingTakes
  <2>. QED
    BY <1>1, <2>4
<1>7. CASE ~first
  <2>1. PICK dc, time : dc = a.frame - to /\ Take(a.packet, nwr, dc, time)
    BY <1>1, <1>7 DEF Accepted
  <2>2. to <= a.frame /\ nwr \in Int
    BY <1>1, <1>5, <1>7 DEF Accepted
  <2>20. TakesBehind(to, a.frame)
    <3>1. since' = since /\ gone' = gone
      BY <1>7 DEF Accepted, Receive
    <3>. QED
      BY <1>1, <1>2, <1>7, <3>1, RingBehind
  <2>3. RingHolds(a.frame + a.packet.nfram)'
    BY <1>2, <1>3, <1>4, <1>5, <1>7, <2>1, <2>2, <2>20, RingTakes
  <2>. QED
    BY <1>1, <2>3
<1>. QED
  BY <1>6, <1>7

(* The receive thread fills the queue with what the sender sent.                      *)
LEMMA HeardReceived ==
  ASSUME NEW g, Hears(g), HearsSound(g), [PathNext]_pathvars, Receive
  PROVE  HearsSound(g)'
<1>1. /\ g \in Nat /\ Delays(g) /\ Tolerates(g) /\ Jitter \in Nat
      /\ 2 * ((MaxFaults + 1) * g) < W /\ 2 * Jitter < Clock
  <2>1. g \in Nat /\ Tolerates(g) /\ Delays(g)
    BY DEF Hears, Delays, Tolerates
  <2>2. PICK most : most = MaxFaults * g
    OBVIOUS
  <2>3. /\ most \in Nat /\ Late \in Nat /\ Jitter \in Nat
        /\ (2 * MaxFaults + 6) * g = 2 * most + 6 * g
        /\ (MaxFaults + 1) * g = most + g
    BY <2>1, <2>2, BehindNumber
  <2>4. W \in Nat /\ Clock \in Nat
    BY PathParams
  <2>5. /\ 2 * ((2 * most + 6 * g) + 3 * Late + 3 * Jitter) < W
        /\ 2 * ((2 * most + 6 * g) + 3 * Late + 3 * Jitter) < Clock
    BY <2>1, <2>3 DEF Delays
  <2>6. 2 * (most + g) < W /\ 2 * Jitter < Clock
    BY <2>1, <2>3, <2>4, <2>5
  <2>. QED
    BY <2>1, <2>3, <2>6
<1>2. /\ TimesSound(g)'
      /\ ~shaken => \A to, ends \in Nat : Linked(g, to, ends) => Brought(g, to, ends)
  BY <1>1, ReceiveTimes DEF HearsSound
<1>3. /\ (TimesSound(g) /\ Clocks(g) /\ AirCarries /\ ListSound /\ QueueReady)'
      /\ UNCHANGED <<session, bsize, shaken, jrxvars, heard, chlist>>
  <2>1. UNCHANGED <<session, bsize, shaken, jrxvars, heard, chlist>>
    BY DEF Receive, vars, jrxvars, listvars
  <2>. QED
    BY <1>2, <2>1, HeardBesides
<1>4. TimesBase /\ Clocks(g) /\ QueueReady /\ AirCarries /\ (~first => ~first')
  BY DEF HearsSound, TimesSound, Receive, rxvars
<1>5. ASSUME ~shaken
      PROVE  (/\ HeardRight
              /\ IF first THEN timeq = <<>> /\ sync = 0 /\ nrd \in Nat /\ Covered(0)
                 ELSE \E to, ends \in Nat, late \in 0..Jitter :
                        Linked(g, to, ends) /\ Reading(g, ends, late) /\ RingHolds(to) /\ Covered(to))'
  <2>1. HeardRight'
    <3>1. ~shaken' /\ HeardRight
      BY <1>3, <1>5 DEF HearsSound
    <3>. QED
      BY <1>3, <1>4, <1>5, <3>1, HeardAlready
  <2>2. CASE first
    <3>1. timeq = <<>> /\ sync = 0 /\ nrd \in Nat /\ Covered(0)
      BY <1>5, <2>2 DEF HearsSound
    <3>2. PICK to \in Nat, ends \in Nat : Linked(g, to, ends) /\ Brought(g, to, ends)
      BY <1>2, <1>5 DEF HearsSound, TimesSound
    <3>3. PICK upto \in Nat, next \in Nat :
            /\ Accepted(Head(air), to, ends, next) /\ Linked(g, upto, next)'
            /\ upto = Head(air).frame + Head(air).packet.nfram
      BY <2>2, <3>2 DEF Brought
    <3>4. \E late \in 0..Jitter : Reading(g, next, late)'
      BY <1>4, <2>2, <3>1, <3>2, <3>3, FirstReads
    <3>5. RingHolds(upto)'
      BY <2>2, <3>2, <3>3, PacketWritten
    <3>6. ~first'
      BY <3>3 DEF Accepted
    <3>7. Covered(upto)'
      BY <1>4, <3>1, <3>3, CoveredKept
    <3>. QED
      BY <2>1, <3>3, <3>4, <3>5, <3>6, <3>7
  <2>3. CASE ~first
    <3>1. PICK to \in Nat, ends \in Nat, late \in 0..Jitter :
            Linked(g, to, ends) /\ Reading(g, ends, late) /\ RingHolds(to) /\ Covered(to)
      BY <1>5, <2>3 DEF HearsSound
    <3>2. Brought(g, to, ends)
      BY <1>2, <1>5, <3>1
    <3>3. CASE /\ UNCHANGED <<rxvars, timeq>> /\ Linked(g, to, ends)'
               /\ to = Head(air).frame + Head(air).packet.nfram
      <4>1. Reading(g, ends, late)'
        BY <1>3, <3>1, <3>3 DEF Reading, Follower, PointAt, Agree, k_del, jrxvars, rxvars
      <4>2. ~first' /\ ring' = ring
        BY <2>3, <3>3 DEF rxvars
      <4>3. RingHolds(to)'
        BY <1>3, <2>3, <3>1, <4>2, RingStays
      <4>4. Covered(to)'
        BY <1>4, <3>1, <3>3, CoveredKept
      <4>. QED
        BY <2>1, <3>3, <4>1, <4>2, <4>3, <4>4
    <3>4. CASE \E upto, next \in Nat :
                 /\ Accepted(Head(air), to, ends, next) /\ Linked(g, upto, next)'
                 /\ upto = Head(air).frame + Head(air).packet.nfram
      <4>1. PICK upto \in Nat, next \in Nat :
              /\ Accepted(Head(air), to, ends, next) /\ Linked(g, upto, next)'
              /\ upto = Head(air).frame + Head(air).packet.nfram
        BY <3>4
      <4>2. err' \in (-Jitter)..Jitter /\ ~first'
        BY <3>2, <4>1 DEF Brought, Accepted
      <4>3. Reading(g, next, late)'
        BY <1>1, <1>4, <2>3, <3>1, <4>1, <4>2, ReceiveReads
      <4>4. RingHolds(upto)'
        BY <3>1, <4>1, PacketWritten
      <4>5. Covered(upto)'
        <5>1. to <= upto
          <6>1. PICK a : a = Head(air)
            OBVIOUS
          <6>2. a.packet.nfram \in Nat
            BY <1>4, <3>1, <6>1, Counts DEF Receive
          <6>3. a.frame \in Nat /\ to <= a.frame
            BY <1>4, <3>1, <4>1, <6>1, PartsShort, HeadCarried DEF Accepted, Receive, Carried
          <6>. QED
            BY <4>1, <6>1, <6>2, <6>3
        <5>. QED
          BY <1>4, <3>1, <4>1, <5>1, CoveredKept
      <4>. QED
        BY <2>1, <4>1, <4>2, <4>3, <4>4, <4>5
    <3>. QED
      BY <3>2, <3>3, <3>4 DEF Brought
  <2>. QED
    BY <2>2, <2>3
<1>. QED
  BY <1>2, <1>3, <1>5 DEF HearsSound

(* A cycle of the receiver's Jack client hears what is in the queue.                  *)
LEMMA HeardRead ==
  ASSUME NEW g, Hears(g), HearsSound(g), [PathNext]_pathvars, Keeps(g),
         NEW skip \in {0} \cup Skips, RxCycle(skip)
  PROVE  HearsSound(g)'
<1>1. TimesSound(g)'
  BY KeepsSound DEF HearsSound
<1>2. /\ (TimesSound(g) /\ Clocks(g) /\ AirCarries /\ ListSound /\ QueueReady)'
      /\ UNCHANGED <<session, bsize, shaken, first, t0, ring, chlist>>
      /\ now \in (rx_tnext + skip)..(rx_tnext + skip + Late)
  <2>1. /\ UNCHANGED <<session, bsize, shaken, first, t0, ring, chlist>>
        /\ now \in (rx_tnext + skip)..(rx_tnext + skip + Late)
    BY DEF RxCycle, vars, rxvars, listvars
  <2>. QED
    BY <1>1, <2>1, HeardBesides
<1>3. TimesBase /\ Clocks(g) /\ g \in Nat /\ Delays(g) /\ AirCarries /\ ListSound /\ Besides
  BY DEF HearsSound, TimesSound, Hears, Delays, Tolerates, Besides
<1>4. rx_tnext + skip \in Nat
  BY <1>3, PathParams DEF Clocks
<1>5. ASSUME ~shaken
      PROVE  (/\ HeardRight
              /\ IF first THEN timeq = <<>> /\ sync = 0 /\ nrd \in Nat /\ Covered(0)
                 ELSE \E to, ends \in Nat, late \in 0..Jitter :
                        Linked(g, to, ends) /\ Reading(g, ends, late) /\ RingHolds(to) /\ Covered(to))'
  <2>1. CASE first
    <3>1. timeq = <<>> /\ sync = 0 /\ nrd \in Nat /\ Covered(0)
      BY <1>5, <2>1 DEF HearsSound
    <3>2. PICK start, at, p, state, e :
            /\ start = rx_tnext + skip
            /\ at = nrd + (IF rx_first THEN 0 ELSE start - rx_tnext)
            /\ p = PointsRead
            /\ state = (IF timeq # <<>> /\ sync < 2 THEN sync + 1 ELSE sync)
            /\ e = (IF state >= 2 THEN DelayError(p, start, at) ELSE 0)
      OBVIOUS
    <3>3. state = 0 /\ at \in Int /\ W \in Nat \ {0}
      <4>1. skip \in Int /\ rx_tnext \in Int
        BY <1>3, PathParams DEF Clocks
      <4>. QED
        BY <3>1, <3>2, <4>1, PathParams
    <3>4. timeq' = <<>> /\ sync' = 0 /\ nrd' = at % W /\ heard' = <<>>
      BY <3>2, <3>3, RxCycleCases DEF TRACKING
    <3>5. nrd' \in Nat
      <4>1. at % W \in 0..(W - 1)
        BY <3>3, Remainder
      <4>. QED
        BY <3>3, <3>4, <4>1
    <3>6. HeardRight'
      BY <3>4 DEF HeardRight, InTime, Uninterrupted
    <3>7. Covered(0)'
      BY <1>3, <3>1, CoveredKept
    <3>. QED
      BY <1>2, <2>1, <3>4, <3>5, <3>6, <3>7
  <2>2. CASE ~first
    <3>1. PICK to \in Nat, ends \in Nat, late \in 0..Jitter :
            Linked(g, to, ends) /\ Reading(g, ends, late) /\ RingHolds(to) /\ Covered(to)
      BY <1>5, <2>2 DEF HearsSound
    <3>2. ends <= tx_tnext /\ now <= ends + Behind(g)
      BY <1>3, <2>2, <3>1, Reached
    <3>3. /\ Reading(g, ends, late)'
          /\ \/ heard' = <<>>
             \/ \E x \in Int :
                  /\ Agree(x, session.count + (rx_tnext + skip) - late - k_del, W)
                  /\ heard' = [start |-> rx_tnext + skip, error |-> 0,
                               frames |-> capture(x, session.bsize)]
      BY <1>3, <3>1, <3>2, CycleReads
    <3>4. RingHolds(to)' /\ Linked(g, to, ends)' /\ Covered(to)'
      <4>1. RingHolds(to)'
        BY <1>2, <2>2, <3>1, RingStays
      <4>2. Covered(to)'
        BY <1>3, <3>1, CoveredKept
      <4>. QED
        BY <1>2, <1>5, <3>1, <4>1, <4>2 DEF Keeps
    <3>5. HeardRight'
      <4>1. CASE heard' = <<>>
        BY <4>1 DEF HeardRight, InTime, Uninterrupted
      <4>2. CASE heard' # <<>>
        <5>1. PICK start, x \in Int :
                /\ start = rx_tnext + skip
                /\ Agree(x, session.count + start - late - k_del, W)
                /\ heard' = [start |-> start, error |-> 0, frames |-> capture(x, session.bsize)]
          BY <1>4, <3>3, <4>2
        <5>2. start \in Nat /\ now \in start..(start + Late)
          BY <1>2, <1>4, <5>1
        <5>3. PICK frames : frames = capture(x, session.bsize)
          OBVIOUS
        <5>4. ASSUME NEW i \in 1..session.bsize, NEW f, f = start + i - 1 - k_del - late
              PROVE  /\ frames[i] = Silence \/ Carries(frames[i], f)
                     /\ Fills => Carries(frames[i], f) \/ Lacking(f) \/ to <= f
          BY <1>3, <2>2, <3>1, <5>1, <5>2, <5>3, <5>4, FramesHeard
        <5>5. DOMAIN frames = 1..session.bsize
          BY <5>3 DEF capture
        <5>6. /\ Silence' = Silence /\ k_del' = k_del /\ Swing' = 0
              /\ \A row, f : Carries(row, f)' <=> Carries(row, f)
          BY <1>2, <1>5 DEF Silence, k_del, Swing, Carries, SoundsAs, Signal, Step
        <5>7. ASSUME NEW i \in 1..session.bsize
              PROVE  (start + i - 1 - k_del - late) \in Due(i)'
          <6>1. late \in (-Swing')..(Jitter + Swing')
            BY <5>6, SessionNumbers, PathParams
          <6>2. start = heard'.start
            BY <5>1
          <6>. QED
            BY <5>6, <6>1, <6>2 DEF Due
        <5>8. heard'.frames = frames
          BY <5>1, <5>3
        <5>. HIDE DEF Silence
        <5>9. (\A i \in DOMAIN heard.frames :
                 heard.frames[i] = Silence \/ \E f \in Due(i) : Carries(heard.frames[i], f))'
          BY <5>4, <5>5, <5>6, <5>7, <5>8
        <5>10. InTime'
          BY <5>9 DEF InTime
        <5>11. (heard # <<>> => /\ ~first /\ heard.start \in Nat /\ heard.start <= now
                                /\ DOMAIN heard.frames = 1..session.bsize)'
          <6>1. now' = now /\ ~first' /\ start <= now
            BY <1>2, <2>2, <5>2 DEF RxCycle
          <6>. QED
            BY <1>2, <5>1, <5>2, <5>5, <5>8, <6>1
        <5>12. ASSUME Fills, SomeSent
               PROVE  Uninterrupted'
          <6>1. ASSUME NEW i \in 1..session.bsize, frames[i] = Silence
                PROVE  \E f \in Due(i)' : Missing(f)'
            <7>1. PICK f : f = start + i - 1 - k_del - late
              OBVIOUS
            <7>2. /\ session \in Sessions /\ session.bsize \in Nat \ {0} /\ session.buff \in Nat
                  /\ Late \in Nat /\ Jitter \in Nat /\ k_del = session.buff
                  /\ session.bsize + Late + Jitter <= session.buff
              BY <1>3, <5>12, PathParams DEF TimesBase, SenderTimes, Fills, k_del
            <7>3. now \in Nat /\ start <= now
              BY <1>3, <5>2 DEF TimesBase, SenderTimes
            <7>4. f \in Int /\ f + Late + Jitter < now
              BY <5>2, <7>1, <7>2, <7>3
            <7>5. ~Carries(Silence, f)
              BY <1>3, <5>12, <7>2, <7>4, SoundIsHeard
            <7>6. Lacking(f) \/ to <= f
              BY <5>4, <5>12, <6>1, <7>1, <7>5
            <7>7. Missing(f)
              BY <1>3, <3>1, <7>4, <7>6, SilenceMissing
            <7>8. f + Late < now
              BY <7>2, <7>3, <7>4
            <7>9. Missing(f)'
              BY <1>3, <2>2, <7>4, <7>7, <7>8, MissingStays
            <7>10. f \in Due(i)'
              BY <5>7, <7>1
            <7>. QED
              BY <7>9, <7>10
          <6>2. (\A i \in DOMAIN heard.frames :
                   heard.frames[i] = Silence => \E f \in Due(i) : Missing(f))'
            BY <5>5, <5>6, <5>8, <6>1
          <6>. QED
            BY <6>2 DEF Uninterrupted
        <5>13. SomeSent' <=> SomeSent
          BY <1>2 DEF SomeSent
        <5>. QED
          BY <5>10, <5>11, <5>12, <5>13 DEF HeardRight
      <4>. QED
        BY <4>1, <4>2
    <3>. QED
      BY <1>2, <2>2, <3>3, <3>4, <3>5
  <2>. QED
    BY <2>1, <2>2
<1>. QED
  BY <1>2, <1>5 DEF HearsSound

(* Every step keeps what is heard right.                                            *)
LEMMA HeardKept ==
  ASSUME NEW g, Hears(g), HearsSound(g), [PathNext]_pathvars
  PROVE  HearsSound(g)'
<1>1. /\ g \in Nat /\ Tolerates(g) /\ TimesSound(g) /\ TimesBase /\ Clocks(g) /\ QueueReady
  BY DEF Hears, Delays, Tolerates, HearsSound, TimesSound
<1>10. ASSUME Besides, Keeps(g), ~first => ring' = ring,
              UNCHANGED <<session, bsize, first, t0, timeq, jrxvars>>
       PROVE  HearsSound(g)'
  BY <1>10, HeardStays
<1>2. CASE ReadList \/ SetUp \/ UNCHANGED pathvars
  <2>1. /\ UNCHANGED <<session, now, vars, txvars, air, first, t0, err, nwr, shaken, faults>>
        /\ UNCHANGED <<timeq, jrxvars>>
    BY <1>2 DEF ReadList, SetUp, pathvars, rxvars
  <2>2. ~first => ring' = ring
    <3>1. CASE SetUp
      <4>1. ~(txat = "up" /\ rxat = "up")
        BY <3>1 DEF SetUp, TxSetUp, RxSetUp
      <4>. QED
        BY <1>1, <4>1 DEF QueueReady
    <3>2. CASE ReadList \/ UNCHANGED pathvars
      BY <3>2 DEF ReadList, pathvars, rxvars
    <3>. QED
      BY <1>2, <3>1, <3>2
  <2>3. Keeps(g)
    BY <1>1, <2>1, TimesStay
  <2>. QED
    BY <1>2, <1>10, <2>1, <2>2, <2>3 DEF vars, Besides
<1>3. CASE \E skip \in {0} \cup Skips : TxCycle(skip)
  <2>1. Keeps(g)
    BY <1>1, <1>3, TxCycleTimes
  <2>2. UNCHANGED <<session, bsize, first, t0, timeq, jrxvars, ring>>
    BY <1>3 DEF TxCycle, Period, rxvars
  <2>. QED
    BY <1>3, <1>10, <2>1, <2>2 DEF Besides
<1>4. CASE TxPacket
  <2>1. Keeps(g)
    BY <1>1, <1>4, TxPacketTimes
  <2>2. UNCHANGED <<session, bsize, first, t0, timeq, jrxvars, ring>>
    BY <1>4 DEF TxPacket, Packet, rxvars
  <2>. QED
    BY <1>4, <1>10, <2>1, <2>2 DEF Besides
<1>5. CASE Lose
  <2>1. Keeps(g)
    BY <1>1, <1>5, LoseTimes
  <2>2. UNCHANGED <<session, bsize, first, t0, timeq, jrxvars, ring>>
    BY <1>5 DEF Lose, vars, rxvars
  <2>. QED
    BY <1>5, <1>10, <2>1, <2>2 DEF Besides
<1>6. CASE Repeat
  <2>1. Keeps(g)
    BY <1>1, <1>6, RepeatTimes
  <2>2. UNCHANGED <<session, bsize, first, t0, timeq, jrxvars, ring>>
    BY <1>6 DEF Repeat, vars, rxvars
  <2>. QED
    BY <1>6, <1>10, <2>1, <2>2 DEF Besides
<1>7. CASE Receive
  BY <1>7, HeardReceived
<1>8. CASE \E skip \in {0} \cup Skips : RxCycle(skip)
  <2>1. PICK skip \in {0} \cup Skips : RxCycle(skip)
    BY <1>8
  <2>2. /\ UNCHANGED <<session, now, vars, txvars, air, first, t0, err, nwr, shaken>>
        /\ faults' = faults \/ (faults < MaxFaults /\ faults' = faults + 1)
    BY <2>1 DEF RxCycle, Skipped, rxvars
  <2>3. Keeps(g)
    BY <1>1, <2>2, TimesStay
  <2>. QED
    BY <2>1, <2>3, HeardRead
<1>9. CASE Tick
  <2>1. Keeps(g)
    BY <1>1, <1>9, TickTimes
  <2>2. UNCHANGED <<session, bsize, first, t0, timeq, jrxvars, ring>>
    BY <1>9 DEF Tick, vars, rxvars
  <2>. QED
    BY <1>9, <1>10, <2>1, <2>2 DEF Besides
<1>. QED
  BY <1>2, <1>3, <1>4, <1>5, <1>6, <1>7, <1>8, <1>9 DEF PathNext

(* Until a part of a period is lost, every frame Jackrx::jack_process writes is, on each  *)
(* channel of the list, what that channel of the sender carried buff and at most the      *)
(* jitter ago, or silence: through Jacktx's packets and their formats, the audio queue   *)
(* with its wraps, repeated packets, lost periods, and skipped and late cycles of both    *)
(* programs, in sessions of any length. It asks what DelayStaysKept does; that the       *)
(* formats have room for the samples, as those of 8-bit bytes do; and that the audio queue *)
(* has room for what is late and, being of a size that is a power of 2, divides the       *)
(* counters' range.                                                             *)
THEOREM HeardStaysInTime ==
  ASSUME NEW g \in Nat,
         \A skip \in Skips : skip <= g,
         \A s \in Sessions : s.tx_fsize <= g /\ s.bsize <= g,
         \A s \in Sessions : 2 * (s.buff + Late + Jitter) < W,
         Jitter <= 1,
         2 * ((2 * MaxFaults + 6) * g + 3 * Late + 3 * Jitter) < W,
         2 * ((2 * MaxFaults + 6) * g + 3 * Late + 3 * Jitter) < Clock,
         Grain * (Byte * Byte * Byte + 64) <= Byte * Byte * Byte * Byte,
         \A n \in 0..20 : MinQueue * 2^n <= W => W % (MinQueue * 2^n) = 0,
         \A s \in Sessions :
           \E n \in 0..20 : /\ 2 * (s.tx_fsize + s.bsize + s.buff) <= MinQueue * 2^n
                            /\ MinQueue * 2^n <= W,
         \A s \in Sessions : Late + Jitter <= s.tx_fsize + 2 * s.bsize + s.buff
  PROVE  PathSpec => [](~shaken => InTime)
<1>1. Hears(g)
  <2>1. Delays(g)
    BY DEF Delays, Tolerates
  <2>. QED
    BY <2>1, Zenon DEF Hears
<1>2. PathInit => HearsSound(g)
  BY <1>1, HeardStarts
<1>3. HearsSound(g) /\ [PathNext]_pathvars => HearsSound(g)'
  BY <1>1, HeardKept
<1>4. HearsSound(g) => (~shaken => InTime)
  BY DEF HearsSound, HeardRight
<1>. QED
  BY <1>2, <1>3, <1>4, PTL DEF PathSpec

(* While no part of a period is lost silence is heard only for frames that were lost or   *)
(* skipped, or were before the session: no frame the sender's program sent is silent      *)
(* because Jackrx::capture read it too early, Netrx took it for a repeated one, or the     *)
(* counters wrapped. It asks further that the extra buffering is the receiver's period     *)
(* and what cycles and packets are late, and that a channel of the list is sent.          *)
THEOREM SilenceIsExplained ==
  ASSUME NEW g \in Nat,
         \A skip \in Skips : skip <= g,
         \A s \in Sessions : s.tx_fsize <= g /\ s.bsize <= g,
         \A s \in Sessions : s.bsize + Late + Jitter <= s.buff,
         \A s \in Sessions : 2 * (s.tx_fsize + s.buff + Late + Jitter) < W,
         Jitter <= 1,
         2 * ((2 * MaxFaults + 6) * g + 3 * Late + 3 * Jitter) < W,
         2 * ((2 * MaxFaults + 6) * g + 3 * Late + 3 * Jitter) < Clock,
         Grain * (Byte * Byte * Byte + 64) <= Byte * Byte * Byte * Byte,
         \A form \in {FM_16BIT, FM_24BIT} : 32 <= R(form),
         \A n \in 0..20 : MinQueue * 2^n <= W => W % (MinQueue * 2^n) = 0,
         \A s \in Sessions :
           \E n \in 0..20 : /\ 2 * (s.tx_fsize + s.bsize + s.buff) <= MinQueue * 2^n
                            /\ MinQueue * 2^n <= W
  PROVE  PathSpec => [](SomeSent => Uninterrupted)
<1>1. \A s \in Sessions : /\ 2 * (s.buff + Late + Jitter) < W
                          /\ Late + Jitter <= s.tx_fsize + 2 * s.bsize + s.buff
  <2>1. SUFFICES ASSUME NEW s \in Sessions
                 PROVE  /\ 2 * (s.buff + Late + Jitter) < W
                        /\ Late + Jitter <= s.tx_fsize + 2 * s.bsize + s.buff
    OBVIOUS
  <2>2. /\ s.tx_fsize \in Nat /\ s.bsize \in Nat /\ s.buff \in Nat /\ Late \in Nat /\ Jitter \in Nat
        /\ W \in Nat
    BY PathParams, PacketizeParams
  <2>3. s.bsize + Late + Jitter <= s.buff /\ 2 * (s.tx_fsize + s.buff + Late + Jitter) < W
    OBVIOUS
  <2>. QED
    BY <2>2, <2>3
<1>2. Hears(g)
  <2>1. Delays(g)
    BY <1>1 DEF Delays, Tolerates
  <2>. QED
    BY <1>1, <2>1, Zenon DEF Hears
<1>3. Fills
  BY DEF Fills
<1>4. PathInit => HearsSound(g)
  BY <1>2, HeardStarts
<1>5. HearsSound(g) /\ [PathNext]_pathvars => HearsSound(g)'
  BY <1>2, HeardKept
<1>6. HearsSound(g) => (SomeSent => Uninterrupted)
  BY <1>3 DEF HearsSound, HeardRight, Uninterrupted
<1>. QED
  BY <1>4, <1>5, <1>6, PTL DEF PathSpec
=============================================================================
