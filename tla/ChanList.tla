------------------------------- MODULE ChanList -------------------------------
(***************************************************************************)
(* The list of channels a receiver was given, as readlist() of zita-n2j.cc    *)
(* parses it: numbers in ascending order, separated by commas or, for a range, *)
(* dashes.  A number and the character before it are an item of the text.     *)
(***************************************************************************)
EXTENDS Integers, Sequences

CONSTANTS
  MAXCHAN,      \* 64 in the program
  Texts         \* what may be given

COMMA  == ","
DASH   == "-"
NOTNUM == -1    \* what sscanf() cannot read; a number has no sign here

ASSUME ChanListParams ==
  /\ MAXCHAN \in Nat \ {0}
  /\ \A text \in Texts :
       /\ text \in Seq([sep : STRING, num : Nat \cup {NOTNUM}])
       /\ text # <<>> /\ text[1].sep = COMMA

VARIABLES
  given,        \* the text
  nread,        \* the items before s
  last,         \* i, the last channel taken, counted from 1
  chlist,       \* the channels, counted from 0
  verdict       \* "reading", "good", or "bad": main() exits

listvars == <<given, nread, last, chlist, verdict>>

ListInit ==
  /\ given \in Texts
  /\ nread = 0
  /\ last = 0
  /\ chlist = <<>>
  /\ verdict = "reading"

AtEnd == nread = Len(given)
Item  == given[nread + 1]

(* Mutant: a channel may be named twice.                                    *)
AcceptableTwice ==
  Item.num # NOTNUM /\ Item.num >= last /\ Item.num <= MAXCHAN /\ Item.sep \in {COMMA, DASH}

Acceptable ==
  Item.num # NOTNUM /\ Item.num > last /\ Item.num <= MAXCHAN /\ Item.sep \in {COMMA, DASH}

(* A range goes on behind the channel before the dash.                      *)
ReadItem ==
  /\ verdict = "reading"
  /\ ~AtEnd
  /\ Acceptable
  /\ chlist' = chlist \o (IF Item.sep = COMMA THEN <<Item.num - 1>>
                          ELSE [k \in 1..(Item.num - last) |-> last + k - 1])
  /\ last' = Item.num
  /\ nread' = nread + 1
  /\ UNCHANGED <<given, verdict>>

RefuseList ==
  /\ verdict = "reading"
  /\ ~AtEnd
  /\ ~Acceptable
  /\ verdict' = "bad"
  /\ UNCHANGED <<given, nread, last, chlist>>

AcceptList ==
  /\ verdict = "reading"
  /\ AtEnd
  /\ verdict' = "good"
  /\ UNCHANGED <<given, nread, last, chlist>>

ListNext == ReadItem \/ RefuseList \/ AcceptList

ListSpec == ListInit /\ [][ListNext]_listvars

-----------------------------------------------------------------------------
(* What the comment of readlist() says of a list, and the channels it names. *)
WellFormed ==
  \A n \in DOMAIN given :
    /\ given[n].num \in 1..MAXCHAN
    /\ given[n].sep \in {COMMA, DASH}
    /\ n > 1 => given[n - 1].num < given[n].num

Names(n) == IF given[n].sep = DASH THEN given[n - 1].num .. given[n].num ELSE {given[n].num}

(* A list is taken exactly when it is well formed, and each channel it names  *)
(* is then in the list once, in order, counted from 0 (zita-n2j.cc, readlist). *)
ListExact ==
  /\ verdict = "good" =>
       /\ WellFormed
       /\ \A a, b \in DOMAIN chlist : a < b => chlist[a] < chlist[b]
       /\ {chlist[a] + 1 : a \in DOMAIN chlist} = UNION {Names(n) : n \in DOMAIN given}
  /\ verdict = "bad" => ~WellFormed

(* The list never outgrows its array of MAXCHAN channels and an end mark.    *)
ListFits == Len(chlist) <= MAXCHAN /\ \A n \in DOMAIN chlist : chlist[n] < MAXCHAN
=============================================================================
