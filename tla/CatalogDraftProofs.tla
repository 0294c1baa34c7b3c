--------------------------- MODULE CatalogDraftProofs ---------------------------
(***************************************************************************)
(* Theorems about CatalogDraft, for drafts of any size, any ids and any    *)
(* number of changes.                                                      *)
(***************************************************************************)
EXTENDS CatalogDraft, FiniteSets, SequenceTheorems, WellFoundedInduction, TLAPS

(***************************************************************************)
(* The strengthening.  A form for an edit belongs to the panel shown; one  *)
(* for a new item has no index; on the page of success there is none.  A   *)
(* panel that is not leaving shows what there is, and so does the review,  *)
(* since no list changes while it is on the page.                          *)
(***************************************************************************)
FormInv ==
    /\ form.mode = "new" => form.idx = 0
    /\ form.mode = "edit" => shown \in DOMAIN Panel /\ form.item \in Item
    /\ save.pc = "success" => form = Closed

Shows ==
    /\ shown = step => drawn = CurrentProps
    /\ shown \notin DOMAIN Panel => drawn.lists = lists

\* What IdsDistinct says of the lists, said of any lists.
Distinct(list) ==
    \A i, j \in DOMAIN list : list[i].id = list[j].id /\ ~ list[i].id.padded => i = j

DistinctIds(ls, but) == \A k \in Kind \ but : Distinct(ls[k])

(***************************************************************************)
(* An attempt to publish works through the requests of its click in order: *)
(* every row answers one of those it has left behind, no two rows the same *)
(* one, and one without a row is an offer that points nowhere.             *)
(***************************************************************************)
Answered == Len(Requests(save.snap)) - Len(save.todo)

HasRow(q) == \E n \in DOMAIN save.rows : save.rows[n].kind = q[1] /\ save.rows[n].of = q[2]

LeftOut(q) ==
    /\ q[1] = "offer"
    /\ LET links == save.snap.offer[q[2]].links IN
       links = << >> \/ links[1] \notin IdsOf(save.snap.resource)

Idle == save.pc \in {"idle", "error"} => save.rows = << >>

Progress ==
    save.pc \in {"saving", "success"} =>
        /\ DistinctIds(save.snap, save.late)
        /\ save.pc = "success" => save.todo = << >>
        /\ Answered \in Nat
        /\ \A j \in DOMAIN save.todo : save.todo[j] = Requests(save.snap)[Answered + j]
        /\ \A n \in DOMAIN save.rows : \E m \in 1..Answered :
               Requests(save.snap)[m] = <<save.rows[n].kind, save.rows[n].of>>
        /\ \A m \in 1..Answered :
               HasRow(Requests(save.snap)[m]) \/ LeftOut(Requests(save.snap)[m])
        /\ \A n, o \in DOMAIN save.rows :
               save.rows[n].kind = save.rows[o].kind /\ save.rows[n].of = save.rows[o].of => n = o

IInv ==
    /\ TypeOK
    /\ FormInv
    /\ Shows
    /\ IdsDistinct
    /\ EditFindsItsItem
    /\ Idle
    /\ Progress
    /\ OneSource

--------------------------------------------------------------------------------
(* The operators on lists *)

LEMMA LessThanWellFounded ==
    IsWellFoundedOn({ss \in Nat \X Nat : ss[1] < ss[2]}, Nat)
BY NatLessThanWellFounded DEF OpToRel

\* A nonempty set of numbers has a least one.
LEMMA HasLeast ==
    ASSUME NEW T, T \subseteq Nat, T # {}
    PROVE  \E x \in T : \A y \in T : x <= y
<1> DEFINE R == {ss \in Nat \X Nat : ss[1] < ss[2]}
<1>1. PICK x \in T : \A y \in T : <<y, x>> \notin R
    <2>1. IsWellFoundedOn(R, Nat)
        BY LessThanWellFounded
    <2> HIDE DEF R
    <2>2. QED
        BY <2>1, WFMin
<1>2. ASSUME NEW y \in T
      PROVE  x <= y
    <2>1. <<y, x>> \notin R
        BY <1>1
    <2>2. QED
        BY <2>1
<1>3. QED
    BY <1>2

\* One of numbers up to n has a greatest one.
LEMMA HasGreatest ==
    ASSUME NEW n \in Nat, NEW T, T \subseteq 1..n, T # {}
    PROVE  \E x \in T : \A y \in T : y <= x
<1> DEFINE D == {m \in Nat : \E x \in T : m = n - x}
<1>1. D # {} /\ D \subseteq Nat
    <2>1. PICK x \in T : TRUE
        OBVIOUS
    <2>2. n - x \in D
        BY <2>1
    <2>3. QED
        BY <2>2
<1>2. PICK d \in D : \A e \in D : d <= e
    <2> HIDE DEF D
    <2>1. QED
        BY <1>1, HasLeast
<1>3. PICK x \in T : d = n - x
    BY <1>2
<1>4. ASSUME NEW y \in T
      PROVE  y <= x
    <2>1. n - y \in D
        OBVIOUS
    <2>2. QED
        BY <1>2, <1>3, <2>1
<1>5. QED
    BY <1>4

LEMMA RemoveIdxList ==
    ASSUME NEW S, NEW list \in Seq(S), NEW i \in DOMAIN list
    PROVE  /\ RemoveIdx(list, i) \in Seq(S)
           /\ Len(RemoveIdx(list, i)) = Len(list) - 1
           /\ \A j \in 1..(Len(list) - 1) :
                  RemoveIdx(list, i)[j] = IF j < i THEN list[j] ELSE list[j + 1]
<1> DEFINE before == SubSeq(list, 1, i - 1)
           after == SubSeq(list, i + 1, Len(list))
<1>1. i \in 1..Len(list) /\ Len(list) \in Nat
    BY LenProperties
<1>2. /\ before \in Seq(S) /\ Len(before) = i - 1
      /\ \A j \in 1..(i - 1) : before[j] = list[j]
    <2>1. \A j \in 1..(i - 1) : list[j] \in S
        BY <1>1, ElementOfSeq
    <2>2. QED
        BY <1>1, <2>1, SubSeqProperties
<1>3. /\ after \in Seq(S) /\ Len(after) = Len(list) - i
      /\ \A j \in 1..(Len(list) - i) : after[j] = list[i + j]
    <2>1. \A j \in (i + 1)..Len(list) : list[j] \in S
        BY <1>1, ElementOfSeq
    <2>2. /\ after \in Seq(S)
          /\ Len(after) = IF i + 1 <= Len(list) THEN Len(list) - (i + 1) + 1 ELSE 0
          /\ \A j \in 1..(Len(list) - (i + 1) + 1) : after[j] = list[i + 1 + j - 1]
        BY <1>1, <2>1, SubSeqProperties
    <2>3. QED
        BY <1>1, <2>2
<1> HIDE DEF before, after
<1>4. /\ before \o after \in Seq(S)
      /\ Len(before \o after) = Len(before) + Len(after)
      /\ \A j \in 1..(Len(before) + Len(after)) :
             (before \o after)[j] =
                 IF j <= Len(before) THEN before[j] ELSE after[j - Len(before)]
    BY <1>2, <1>3, ConcatProperties
<1>5. RemoveIdx(list, i) = before \o after
    BY DEF RemoveIdx, before, after
<1>6. Len(before \o after) = Len(list) - 1
    BY <1>1, <1>2, <1>3, <1>4
<1>7. ASSUME NEW j \in 1..(Len(list) - 1)
      PROVE  (before \o after)[j] = IF j < i THEN list[j] ELSE list[j + 1]
    <2>1. CASE j < i
        BY <1>1, <1>2, <1>3, <1>4, <2>1
    <2>2. CASE ~ j < i
        <3>1. (before \o after)[j] = after[j - (i - 1)]
            <4>1. j \in 1..(Len(before) + Len(after)) /\ ~ j <= Len(before)
                BY <1>1, <1>2, <1>3, <2>2
            <4>2. (before \o after)[j] = after[j - Len(before)]
                BY <1>4, <4>1
            <4>3. QED
                BY <1>2, <4>2
        <3>2. j - (i - 1) \in 1..(Len(list) - i) /\ i + (j - (i - 1)) = j + 1
            BY <1>1, <2>2
        <3>3. QED
            BY <1>3, <2>2, <3>1, <3>2
    <2>3. QED
        BY <2>1, <2>2
<1>8. QED
    BY <1>4, <1>5, <1>6, <1>7

LEMMA ReplaceIdxList ==
    ASSUME NEW S, NEW list \in Seq(S), NEW i \in Nat, NEW x \in S
    PROVE  /\ ReplaceIdx(list, i, x) \in Seq(S)
           /\ Len(ReplaceIdx(list, i, x)) = Len(list)
           /\ \A j \in 1..Len(list) :
                  ReplaceIdx(list, i, x)[j] = IF j = i THEN x ELSE list[j]
<1>1. DOMAIN list = 1..Len(list) /\ Len(list) \in Nat
    BY LenProperties
<1>2. \A j \in 1..Len(list) : list[j] \in S
    BY ElementOfSeq
<1>3. ReplaceIdx(list, i, x) = [j \in 1..Len(list) |-> IF j = i THEN x ELSE list[j]]
    BY <1>1 DEF ReplaceIdx
<1>4. ReplaceIdx(list, i, x) \in [1..Len(list) -> S]
    BY <1>2, <1>3
<1>5. ReplaceIdx(list, i, x) \in Seq(S)
    BY <1>1, <1>4, SeqDef
<1>6. Len(ReplaceIdx(list, i, x)) = Len(list)
    BY <1>1, <1>3
<1>7. QED
    BY <1>3, <1>5, <1>6

\* Array.find finds the id if it is there.
LEMMA FindFinds ==
    ASSUME NEW list \in Seq(Item), NEW id
    PROVE  /\ Find(list, id) \in Nat
           /\ id \notin IdsOf(list) => Find(list, id) = 0
           /\ id \in IdsOf(list) =>
                  Find(list, id) \in DOMAIN list /\ list[Find(list, id)].id = id
<1>1. DOMAIN list = 1..Len(list) /\ Len(list) \in Nat
    BY LenProperties
<1>2. CASE id \notin IdsOf(list)
    BY <1>2 DEF Find
<1>3. CASE id \in IdsOf(list)
    <2> DEFINE T == {i \in DOMAIN list : list[i].id = id}
    <2>1. T # {} /\ T \subseteq Nat
        BY <1>1, <1>3 DEF IdsOf
    <2>2. PICK i \in T : \A j \in T : i <= j
        <3> HIDE DEF T
        <3>1. QED
            BY <2>1, HasLeast
    <2>3. list[i].id = id /\ \A j \in 1..(i - 1) : list[j].id # id
        BY <1>1, <2>2
    <2>4. Find(list, id) \in DOMAIN list /\ list[Find(list, id)].id = id
        BY <1>3, <2>3 DEF Find
    <2>5. QED
        BY <1>1, <1>3, <2>4
<1>4. QED
    BY <1>2, <1>3

--------------------------------------------------------------------------------
(* The requests of a click *)

\* How many requests of a kind there are, and where the i-th of them stands.
Size(snap, k) == Len(snap[IF k = "publish" THEN "catalog" ELSE k])

BeforeCatalogs(snap) == Len(snap.provider) + Len(snap.resource) + Len(snap.offer)

Position(snap, k, i) ==
    CASE k = "provider" -> i
      [] k = "resource" -> Len(snap.provider) + i
      [] k = "offer" -> Len(snap.provider) + Len(snap.resource) + i
      [] k = "catalog" -> BeforeCatalogs(snap) + (i + i - 1)
      [] k = "publish" -> BeforeCatalogs(snap) + (i + i)

SaveKind == Kind \cup {"publish"}

LEMMA ListOf ==
    ASSUME NEW ls \in Lists, NEW k \in Kind
    PROVE  /\ ls[k] \in Seq(Item) /\ Len(ls[k]) \in Nat /\ DOMAIN ls[k] = 1..Len(ls[k])
           /\ \A i \in DOMAIN ls[k] : ls[k][i] \in Item
<1>1. ls[k] \in Seq(Item)
    BY DEF Lists
<1>2. QED
    BY <1>1, LenProperties, ElementOfSeq

LEMMA RequestsOfKind ==
    ASSUME NEW snap \in Lists, NEW k \in Kind
    PROVE  LET all == [i \in DOMAIN snap[k] |-> <<k, i>>] IN
           /\ all \in Seq(SaveKind \X Nat) /\ Len(all) = Len(snap[k])
           /\ \A i \in 1..Len(snap[k]) : all[i] = <<k, i>>
<1> DEFINE all == [i \in DOMAIN snap[k] |-> <<k, i>>]
<1>1. Len(snap[k]) \in Nat /\ DOMAIN snap[k] = 1..Len(snap[k])
    BY ListOf
<1>2. all \in [1..Len(snap[k]) -> SaveKind \X Nat]
    BY <1>1 DEF SaveKind
<1>3. all \in Seq(SaveKind \X Nat)
    BY <1>1, <1>2, SeqDef
<1>4. Len(all) = Len(snap[k])
    BY <1>1
<1>5. QED
    BY <1>1, <1>3, <1>4

LEMMA RequestsOfCatalogs ==
    ASSUME NEW c \in Nat
    PROVE  LET both == [i \in 1..(2 * c) |->
                           <<IF i % 2 = 1 THEN "catalog" ELSE "publish", (i + 1) \div 2>>] IN
           /\ both \in Seq(SaveKind \X Nat) /\ Len(both) = c + c
           /\ \A i \in 1..c : both[i + i - 1] = <<"catalog", i>> /\ both[i + i] = <<"publish", i>>
           /\ \A m \in 1..(c + c) : \E i \in 1..c : m = i + i - 1 \/ m = i + i
<1> DEFINE both == [i \in 1..(2 * c) |->
                       <<IF i % 2 = 1 THEN "catalog" ELSE "publish", (i + 1) \div 2>>]
<1>1. both \in [1..(2 * c) -> SaveKind \X Nat]
    <2>1. ASSUME NEW i \in 1..(2 * c)
          PROVE  both[i] \in SaveKind \X Nat
        <3>1. (i + 1) \div 2 \in Nat
            OBVIOUS
        <3>2. QED
            BY <3>1 DEF SaveKind, Kind
    <2>2. QED
        BY <2>1
<1>2. both \in Seq(SaveKind \X Nat) /\ Len(both) = c + c
    <2>1. 2 * c \in Nat /\ 2 * c = c + c
        OBVIOUS
    <2>2. QED
        BY <1>1, <2>1, SeqDef
<1>3. ASSUME NEW i \in 1..c
      PROVE  both[i + i - 1] = <<"catalog", i>> /\ both[i + i] = <<"publish", i>>
    <2>1. /\ i + i - 1 \in 1..(2 * c) /\ (i + i - 1) % 2 = 1 /\ ((i + i - 1) + 1) \div 2 = i
          /\ i + i \in 1..(2 * c) /\ (i + i) % 2 = 0 /\ (i + i + 1) \div 2 = i
        OBVIOUS
    <2>2. QED
        BY <2>1
<1>4. ASSUME NEW m \in 1..(c + c)
      PROVE  \E i \in 1..c : m = i + i - 1 \/ m = i + i
    <2>1. PICK i \in 1..c : i = (m + 1) \div 2
        OBVIOUS
    <2>2. m = i + i - 1 \/ m = i + i
        BY <2>1
    <2>3. QED
        BY <2>2
<1>5. QED
    BY <1>2, <1>3, <1>4

LEMMA PositionIs ==
    ASSUME NEW snap, NEW i
    PROVE  /\ Position(snap, "provider", i) = i
           /\ Position(snap, "resource", i) = Len(snap.provider) + i
           /\ Position(snap, "offer", i) = Len(snap.provider) + Len(snap.resource) + i
           /\ Position(snap, "catalog", i) = BeforeCatalogs(snap) + (i + i - 1)
           /\ Position(snap, "publish", i) = BeforeCatalogs(snap) + (i + i)
BY DEF Position

LEMMA SizeIs ==
    ASSUME NEW snap
    PROVE  /\ Size(snap, "provider") = Len(snap.provider)
           /\ Size(snap, "resource") = Len(snap.resource)
           /\ Size(snap, "offer") = Len(snap.offer)
           /\ Size(snap, "catalog") = Len(snap.catalog)
           /\ Size(snap, "publish") = Len(snap.catalog)
BY DEF Size

\* Each request stands where Position says, and there is no other.
LEMMA RequestsAt ==
    ASSUME NEW snap \in Lists
    PROVE  LET R == Requests(snap) IN
           /\ R \in Seq(SaveKind \X Nat) /\ Len(R) \in Nat /\ DOMAIN R = 1..Len(R)
           /\ \A k \in SaveKind : \A i \in 1..Size(snap, k) :
                  Position(snap, k, i) \in 1..Len(R) /\ R[Position(snap, k, i)] = <<k, i>>
           /\ \A m \in 1..Len(R) : \E k \in SaveKind : \E i \in 1..Size(snap, k) :
                  m = Position(snap, k, i)
<1> DEFINE All(k) == [i \in DOMAIN snap[k] |-> <<k, i>>]
           both == [i \in 1..(2 * Len(snap.catalog)) |->
                       <<IF i % 2 = 1 THEN "catalog" ELSE "publish", (i + 1) \div 2>>]
           R == Requests(snap)
           S == SaveKind \X Nat
<1>1. PICK p \in Nat : p = Len(snap.provider)
    BY ListOf DEF Kind
<1>2. PICK r \in Nat : r = Len(snap.resource)
    BY ListOf DEF Kind
<1>3. PICK o \in Nat : o = Len(snap.offer)
    BY ListOf DEF Kind
<1>4. PICK c \in Nat : c = Len(snap.catalog)
    BY ListOf DEF Kind
<1>0. PICK q \in Nat : q = BeforeCatalogs(snap) /\ q = p + r + o
    <2>1. BeforeCatalogs(snap) = Len(snap.provider) + Len(snap.resource) + Len(snap.offer)
        BY DEF BeforeCatalogs
    <2>2. BeforeCatalogs(snap) = p + r + o
        BY <1>1, <1>2, <1>3, <2>1
    <2>3. p + r + o \in Nat
        OBVIOUS
    <2>4. QED
        BY <2>2, <2>3
<1>5. PICK A \in Seq(S) : A = All("provider") /\ Len(A) = p /\ \A i \in 1..p : A[i] = <<"provider", i>>
    BY <1>1, RequestsOfKind DEF Kind
<1>6. PICK B \in Seq(S) : B = All("resource") /\ Len(B) = r /\ \A i \in 1..r : B[i] = <<"resource", i>>
    BY <1>2, RequestsOfKind DEF Kind
<1>7. PICK C \in Seq(S) : C = All("offer") /\ Len(C) = o /\ \A i \in 1..o : C[i] = <<"offer", i>>
    BY <1>3, RequestsOfKind DEF Kind
<1>8. PICK D \in Seq(S) :
          /\ D = both /\ Len(D) = c + c
          /\ \A i \in 1..c : D[i + i - 1] = <<"catalog", i>> /\ D[i + i] = <<"publish", i>>
    BY <1>4, RequestsOfCatalogs
<1>9. R = ((A \o B) \o C) \o D
    BY <1>5, <1>6, <1>7, <1>8 DEF Requests
<1> HIDE DEF All, both, R, S
<1>10. R \in Seq(S)
    BY <1>9
<1>11. /\ Len(R) = p + r + o + (c + c)
       /\ \A i \in 1..p : R[i] = A[i]
       /\ \A i \in 1..r : R[p + i] = B[i]
       /\ \A i \in 1..o : R[p + r + i] = C[i]
       /\ \A i \in 1..(c + c) : R[p + r + o + i] = D[i]
    <2>1. Len(A) = p /\ Len(B) = r /\ Len(C) = o /\ Len(D) = c + c
        BY <1>5, <1>6, <1>7, <1>8
    <2> DEFINE Q == ((A \o B) \o C) \o D
    <2>2. Len(Q) = Len(A) + Len(B) + Len(C) + Len(D)
        OBVIOUS
    <2>3. \A i \in 1..Len(A) : Q[i] = A[i]
        OBVIOUS
    <2>4. \A i \in 1..Len(B) : Q[Len(A) + i] = B[i]
        OBVIOUS
    <2>5. \A i \in 1..Len(C) : Q[Len(A) + Len(B) + i] = C[i]
        OBVIOUS
    <2>6. \A i \in 1..Len(D) : Q[Len(A) + Len(B) + Len(C) + i] = D[i]
        OBVIOUS
    <2>7. R = Q
        BY <1>9
    <2> HIDE DEF Q
    <2>8. QED
        BY <2>1, <2>2, <2>3, <2>4, <2>5, <2>6, <2>7
<1>16. /\ R \in Seq(S) /\ Len(R) \in Nat /\ DOMAIN R = 1..Len(R)
       /\ Len(R) = q + (c + c)
       /\ \A i \in 1..(c + c) : R[q + i] = D[i]
    BY <1>0, <1>10, <1>11, LenProperties
<1>17. ASSUME NEW i \in Nat
       PROVE  /\ Position(snap, "provider", i) = i
              /\ Position(snap, "resource", i) = p + i
              /\ Position(snap, "offer", i) = p + r + i
              /\ Position(snap, "catalog", i) = q + (i + i - 1)
              /\ Position(snap, "publish", i) = q + (i + i)
    <2>1. Position(snap, "provider", i) = i
        BY PositionIs
    <2>2. Position(snap, "resource", i) = p + i
        BY <1>1, PositionIs
    <2>3. Position(snap, "offer", i) = p + r + i
        <3>1. Position(snap, "offer", i) = Len(snap.provider) + Len(snap.resource) + i
            BY PositionIs
        <3>2. QED
            BY <1>1, <1>2, <3>1
    <2>4. Position(snap, "catalog", i) = q + (i + i - 1)
        <3>1. Position(snap, "catalog", i) = BeforeCatalogs(snap) + (i + i - 1)
            BY PositionIs
        <3>2. QED
            BY <1>0, <3>1
    <2>5. Position(snap, "publish", i) = q + (i + i)
        <3>1. Position(snap, "publish", i) = BeforeCatalogs(snap) + (i + i)
            BY PositionIs
        <3>2. QED
            BY <1>0, <3>1
    <2>6. QED
        BY <2>1, <2>2, <2>3, <2>4, <2>5
<1>18. /\ Size(snap, "provider") = p /\ Size(snap, "resource") = r
       /\ Size(snap, "offer") = o /\ Size(snap, "catalog") = c /\ Size(snap, "publish") = c
    BY <1>1, <1>2, <1>3, <1>4, SizeIs
<1>19. ASSUME NEW k \in SaveKind, NEW i \in 1..Size(snap, k)
       PROVE  Position(snap, k, i) \in 1..Len(R) /\ R[Position(snap, k, i)] = <<k, i>>
    <2>1. CASE k = "provider"
        <3>1. i \in 1..p /\ Position(snap, k, i) = i
            BY <1>17, <1>18, <2>1
        <3>2. R[i] = A[i] /\ A[i] = <<"provider", i>>
            BY <1>5, <1>11, <3>1
        <3>3. QED
            BY <1>0, <1>16, <2>1, <3>1, <3>2
    <2>2. CASE k = "resource"
        <3>1. i \in 1..r /\ Position(snap, k, i) = p + i
            BY <1>17, <1>18, <2>2
        <3>2. R[p + i] = B[i] /\ B[i] = <<"resource", i>>
            BY <1>6, <1>11, <3>1
        <3>3. QED
            BY <1>0, <1>16, <2>2, <3>1, <3>2
    <2>3. CASE k = "offer"
        <3>1. i \in 1..o /\ Position(snap, k, i) = p + r + i
            BY <1>17, <1>18, <2>3
        <3>2. R[p + r + i] = C[i] /\ C[i] = <<"offer", i>>
            BY <1>7, <1>11, <3>1
        <3>3. p + r + i \in 1..Len(R)
            BY <1>0, <1>16, <3>1
        <3>4. QED
            BY <2>3, <3>1, <3>2, <3>3
    <2>4. CASE k = "catalog"
        <3>1. i \in 1..c /\ Position(snap, k, i) = q + (i + i - 1)
            BY <1>17, <1>18, <2>4
        <3>2. R[q + (i + i - 1)] = D[i + i - 1] /\ D[i + i - 1] = <<"catalog", i>>
            BY <1>8, <1>16, <3>1
        <3>3. QED
            BY <1>16, <2>4, <3>1, <3>2
    <2>5. CASE k = "publish"
        <3>1. i \in 1..c /\ Position(snap, k, i) = q + (i + i)
            BY <1>17, <1>18, <2>5
        <3>2. R[q + (i + i)] = D[i + i] /\ D[i + i] = <<"publish", i>>
            BY <1>8, <1>16, <3>1
        <3>3. QED
            BY <1>16, <2>5, <3>1, <3>2
    <2>6. QED
        BY <2>1, <2>2, <2>3, <2>4, <2>5 DEF SaveKind, Kind
<1>20. ASSUME NEW m \in 1..Len(R)
       PROVE  \E k \in SaveKind : \E i \in 1..Size(snap, k) : m = Position(snap, k, i)
    <2>1. CASE m <= p
        <3>1. m \in 1..Size(snap, "provider")
            BY <1>18, <2>1
        <3>2. m = Position(snap, "provider", m)
            BY <1>17
        <3>3. QED
            BY <3>1, <3>2 DEF SaveKind, Kind
    <2>2. CASE p < m /\ m <= p + r
        <3>1. PICK i \in Nat : i = m - p /\ i \in 1..r
            BY <2>2
        <3>2. m = Position(snap, "resource", i)
            BY <1>17, <3>1
        <3>3. QED
            BY <1>18, <3>1, <3>2 DEF SaveKind, Kind
    <2>3. CASE p + r < m /\ m <= q
        <3>1. PICK i \in Nat : i = m - (p + r) /\ i \in 1..o
            BY <1>0, <2>3
        <3>2. m = Position(snap, "offer", i)
            BY <1>17, <3>1
        <3>3. QED
            BY <1>18, <3>1, <3>2 DEF SaveKind, Kind
    <2>4. CASE q < m
        <3>1. m - q \in 1..(c + c)
            BY <1>16, <2>4
        <3>2. PICK i \in 1..c : m - q = i + i - 1 \/ m - q = i + i
            BY <3>1, RequestsOfCatalogs
        <3>3. CASE m - q = i + i - 1
            <4>1. m = Position(snap, "catalog", i)
                <5>1. m = q + (i + i - 1) /\ i \in Nat
                    BY <3>3
                <5>2. QED
                    BY <1>17, <5>1
            <4>2. QED
                BY <1>18, <4>1 DEF SaveKind, Kind
        <3>4. CASE m - q = i + i
            <4>1. m = Position(snap, "publish", i)
                BY <1>17, <3>4
            <4>2. QED
                BY <1>18, <4>1 DEF SaveKind
        <3>5. QED
            BY <3>2, <3>3, <3>4
    <2>5. QED
        BY <1>0, <2>1, <2>2, <2>3, <2>4
<1>21. QED
    BY <1>16, <1>19, <1>20 DEF R, S

\* What a kind needs has been asked for before.
LEMMA TargetFirst ==
    ASSUME NEW snap \in Lists, NEW k \in {"offer", "catalog"},
           NEW i \in 1..Size(snap, k), NEW j \in 1..Size(snap, Target(k))
    PROVE  /\ Target(k) \in Kind /\ Target(k) # "offer"
           /\ Position(snap, Target(k), j) < Position(snap, k, i)
<1>1. PICK p \in Nat : p = Len(snap.provider)
    BY ListOf DEF Kind
<1>2. PICK r \in Nat : r = Len(snap.resource)
    BY ListOf DEF Kind
<1>3. PICK o \in Nat : o = Len(snap.offer)
    BY ListOf DEF Kind
<1>4. PICK c \in Nat : c = Len(snap.catalog)
    BY ListOf DEF Kind
<1>0. PICK q \in Nat : q = BeforeCatalogs(snap) /\ q = p + r + o
    <2>1. BeforeCatalogs(snap) = Len(snap.provider) + Len(snap.resource) + Len(snap.offer)
        BY DEF BeforeCatalogs
    <2>2. BeforeCatalogs(snap) = p + r + o
        BY <1>1, <1>2, <1>3, <2>1
    <2>3. p + r + o \in Nat
        OBVIOUS
    <2>4. QED
        BY <2>2, <2>3
<1>5. CASE k = "offer"
    <2>1. Target(k) = "resource" /\ i \in 1..o /\ j \in 1..r
        BY <1>2, <1>3, <1>5, SizeIs DEF Target
    <2>2. Position(snap, "resource", j) = p + j
        BY <1>1, <2>1, PositionIs
    <2>3. Position(snap, "offer", i) = p + r + i
        <3>1. Position(snap, "offer", i) = Len(snap.provider) + Len(snap.resource) + i
            BY PositionIs
        <3>2. QED
            BY <1>1, <1>2, <3>1
    <2>4. p + j < p + r + i
        BY <2>1
    <2>5. QED
        BY <1>5, <2>1, <2>2, <2>3, <2>4 DEF Kind
<1>6. CASE k = "catalog"
    <2>1. Target(k) = "provider" /\ i \in 1..c /\ j \in 1..p
        BY <1>1, <1>4, <1>6, SizeIs DEF Target
    <2>2. Position(snap, "provider", j) = j
        BY PositionIs
    <2>3. Position(snap, "catalog", i) = q + (i + i - 1)
        <3>1. Position(snap, "catalog", i) = BeforeCatalogs(snap) + (i + i - 1)
            BY PositionIs
        <3>2. QED
            BY <1>0, <3>1
    <2>4. j < q + (i + i - 1)
        BY <1>0, <2>1
    <2>5. QED
        BY <1>6, <2>1, <2>2, <2>3, <2>4 DEF Kind
<1>7. QED
    BY <1>5, <1>6

--------------------------------------------------------------------------------
(* The answers to the requests *)

\* The row that the map holds is one of the kind whose item has the id.
LEMMA MappedRowIs ==
    ASSUME save \in Save, NEW k, NEW id
    PROVE  LET of == {n \in DOMAIN save.rows :
                         save.rows[n].kind = k /\ save.snap[k][save.rows[n].of].id = id} IN
           /\ MappedRow(k, id) \in Nat
           /\ of = {} => MappedRow(k, id) = 0
           /\ of # {} => \E n \in of : MappedRow(k, id) = save.rows[n].of
<1> DEFINE of == {n \in DOMAIN save.rows :
                     save.rows[n].kind = k /\ save.snap[k][save.rows[n].of].id = id}
<1>1. /\ save.rows \in Seq(Row) /\ Len(save.rows) \in Nat
      /\ DOMAIN save.rows = 1..Len(save.rows)
      /\ \A n \in DOMAIN save.rows : save.rows[n] \in Row
    <2>1. save.rows \in Seq(Row)
        BY DEF Save
    <2>2. QED
        BY <2>1, LenProperties, ElementOfSeq
<1>2. CASE of = {}
    BY <1>2 DEF MappedRow
<1>3. CASE of # {}
    <2>1. PICK x \in of : \A y \in of : y <= x
        <3>1. of \subseteq 1..Len(save.rows)
            BY <1>1
        <3> HIDE DEF of
        <3>2. QED
            BY <1>1, <1>3, <3>1, HasGreatest
    <2> DEFINE last == CHOOSE n \in of : \A m \in of : m <= n
    <2>2. last \in of
        <3> HIDE DEF of
        <3>1. QED
            BY <2>1
    <2>3. MappedRow(k, id) = save.rows[last].of
        BY <1>3 DEF MappedRow
    <2> HIDE DEF last
    <2>4. save.rows[last] \in Row
        BY <1>1, <2>2
    <2>5. save.rows[last].of \in Nat
        BY <2>4 DEF Row
    <2>6. QED
        BY <1>3, <2>2, <2>3, <2>5
<1>4. QED
    BY <1>2, <1>3

LEMMA RowOfIs ==
    ASSUME save \in Save, NEW k \in SaveKind, NEW i \in Nat
    PROVE  RowOf(k, i) \in Row /\ RowOf(k, i).kind = k /\ RowOf(k, i).of = i
<1> DEFINE links == IF k = "publish" THEN << >> ELSE save.snap[k][i].links
           found == IF links = << >> THEN 0 ELSE Find(save.snap[Target(k)], links[1])
<1>1. found \in Nat
    <2>1. Target(k) \in Kind
        BY DEF Target, Kind
    <2>2. save.snap[Target(k)] \in Seq(Item)
        BY <2>1 DEF Save, Lists
    <2>3. Find(save.snap[Target(k)], links[1]) \in Nat
        BY <2>2, FindFinds
    <2>4. QED
        BY <2>3
<1>2. MappedRow(Target(k), links[1]) \in Nat
    BY MappedRowIs
<1>3. RowOf(k, i) =
          [kind |-> k, of |-> i,
           ref |-> IF k \in {"offer", "catalog"} /\ links # << >>
                   THEN MappedRow(Target(k), links[1]) ELSE 0,
           emb |-> IF k = "resource" /\ found = 0 /\ save.snap.provider # << >>
                   THEN 1 ELSE found]
    BY DEF RowOf
<1> HIDE DEF links, found
<1>4. QED
    BY <1>1, <1>2, <1>3 DEF Row, SaveKind

--------------------------------------------------------------------------------
(* The drafts of the forms *)

LEMMA IdsOfTyped ==
    ASSUME NEW list \in Seq(Item)
    PROVE  IdsOf(list) \subseteq TypedIds
<1>1. \A i \in DOMAIN list : list[i] \in Item
    BY LenProperties, ElementOfSeq
<1>2. QED
    BY <1>1 DEF IdsOf, Item

LEMMA KeptTyped ==
    ASSUME FormInv
    PROVE  Kept \subseteq TypedIds
<1>1. CASE form.mode = "edit"
    <2>1. form.item.links \in Seq(TypedIds)
        BY <1>1 DEF FormInv, Item
    <2>2. \A i \in DOMAIN form.item.links : form.item.links[i] \in TypedIds
        BY <2>1, LenProperties, ElementOfSeq
    <2>3. QED
        BY <1>1, <2>2 DEF Kept
<1>2. CASE form.mode # "edit"
    BY <1>2 DEF Kept
<1>3. QED
    BY <1>1, <1>2

LEMMA LinkableTyped ==
    ASSUME TypeOK, FormInv, NEW k \in Kind
    PROVE  Linkable(k) \subseteq TypedIds
<1>1. drawn.lists[k] \in Seq(Item)
    BY DEF TypeOK, Props, Lists
<1>2. QED
    BY <1>1, IdsOfTyped, KeptTyped DEF Linkable

LEMMA DraftsAreItems ==
    ASSUME TypeOK, FormInv
    PROVE  /\ ProviderDrafts \subseteq Item
           /\ CatalogDrafts \subseteq Item
           /\ ResourceDrafts \subseteq Item
           /\ OfferDrafts \subseteq Item
<1>1. \A k \in Kind : Typed[k] \subseteq TypedIds
    BY DEF TypedIds
<1>2. \A id \in Linkable("provider") : <<id>> \in Seq(TypedIds)
    <2>1. Linkable("provider") \subseteq TypedIds
        BY LinkableTyped DEF Kind
    <2>2. QED
        BY <2>1
<1>0. << >> \in Seq(TypedIds)
    OBVIOUS
<1>3. ProviderDrafts \subseteq Item
    <2>1. Typed.provider \subseteq TypedIds
        BY <1>1 DEF Kind
    <2>2. {<< >>} \subseteq Seq(TypedIds)
        BY <1>0
    <2>3. QED
        BY <2>1, <2>2 DEF ProviderDrafts, Item
<1>4. CatalogDrafts \subseteq Item
    BY <1>1, <1>2 DEF CatalogDrafts, Item, Kind
<1>5. ResourceDrafts \subseteq Item
    <2>1. Typed.resource \subseteq TypedIds
        BY <1>1 DEF Kind
    <2>2. {<< >>} \cup {<<id>> : id \in Linkable("provider")} \subseteq Seq(TypedIds)
        BY <1>0, <1>2
    <2>3. QED
        BY <2>1, <2>2 DEF ResourceDrafts, Item
<1>6. OfferDrafts \subseteq Item
    <2> DEFINE ticks == UNION {[1..n -> Linkable("resource")] : n \in 0..MaxLinks}
               filled == IF drawn.lists.resource = << >> THEN << >> ELSE <<drawn.lists.resource[1].id>>
    <2>1. ticks \subseteq Seq(TypedIds)
        <3>1. Linkable("resource") \subseteq TypedIds
            BY LinkableTyped DEF Kind
        <3>2. \A n \in 0..MaxLinks : n \in Nat
            BY ConstantsAssumption
        <3>3. ASSUME NEW n \in 0..MaxLinks
              PROVE  [1..n -> Linkable("resource")] \subseteq Seq(TypedIds)
            <4>1. [1..n -> Linkable("resource")] \subseteq [1..n -> TypedIds]
                BY <3>1
            <4>2. QED
                BY <3>2, <4>1, SeqDef
        <3>4. QED
            BY <3>3
    <2>2. filled \in Seq(TypedIds)
        <3>1. CASE drawn.lists.resource # << >>
            <4>1. drawn.lists.resource \in Seq(Item)
                BY DEF TypeOK, Props, Lists, Kind
            <4>2. Len(drawn.lists.resource) \in Nat /\ Len(drawn.lists.resource) # 0
                BY <3>1, <4>1, LenProperties, EmptySeq
            <4>3. drawn.lists.resource[1] \in Item
                BY <4>1, <4>2, ElementOfSeq
            <4>4. drawn.lists.resource[1].id \in TypedIds
                BY <4>3 DEF Item
            <4>5. QED
                BY <3>1, <4>4
        <3>2. QED
            BY <3>1
    <2>3. OfferDrafts \subseteq [id: Typed.offer, links: ticks \cup {filled}]
        BY DEF OfferDrafts
    <2> HIDE DEF ticks, filled
    <2>4. QED
        BY <1>1, <2>1, <2>2, <2>3 DEF Item, Kind
<1>7. QED
    BY <1>3, <1>4, <1>5, <1>6

\* What a panel that holds a list may do.
LEMMA ListSteps ==
    ASSUME TypeOK, FormInv,
           ProvidersStep \/ CatalogsStep \/ ResourcesStep \/ OffersStep
    PROVE  /\ shown \in DOMAIN Panel /\ Panel[shown] \in Kind /\ Draw
           /\ \/ OpenForm
              \/ CancelForm
              \/ \E i \in DOMAIN drawn.lists[Panel[shown]] : StartEdit(i)
              \/ \E i \in DOMAIN drawn.lists[Panel[shown]] : Remove(i)
              \/ \E draft \in Item : HandleAdd(draft)
<1>1. ASSUME NEW drafts, drafts \subseteq Item, EditList(drafts)
      PROVE  \/ OpenForm
             \/ CancelForm
             \/ \E i \in DOMAIN drawn.lists[Panel[shown]] : StartEdit(i)
             \/ \E i \in DOMAIN drawn.lists[Panel[shown]] : Remove(i)
             \/ \E draft \in Item : HandleAdd(draft)
    BY <1>1 DEF EditList
<1>2. \A s \in 1..4 : s \in DOMAIN Panel /\ Panel[s] \in Kind
    BY DEF Panel, Kind
<1>3. CASE ProvidersStep
    BY <1>1, <1>2, <1>3, DraftsAreItems DEF ProvidersStep
<1>4. CASE CatalogsStep
    BY <1>1, <1>2, <1>4, DraftsAreItems DEF CatalogsStep
<1>5. CASE ResourcesStep
    BY <1>1, <1>2, <1>5, DraftsAreItems DEF ResourcesStep
<1>6. CASE OffersStep
    BY <1>1, <1>2, <1>6, DraftsAreItems DEF OffersStep
<1>7. QED
    BY <1>3, <1>4, <1>5, <1>6

--------------------------------------------------------------------------------
(* Changes to a list keep its ids distinct *)

LEMMA TrimOfUnpadded ==
    ASSUME NEW draft \in Item, ~ draft.id.padded
    PROVE  Trim(draft.id) = draft.id
<1>1. draft.id \in Id
    BY ConstantsAssumption DEF Item, TypedIds
<1>2. QED
    BY <1>1 DEF Id, Trim

LEMMA DistinctRemove ==
    ASSUME NEW list \in Seq(Item), NEW i \in DOMAIN list, Distinct(list)
    PROVE  Distinct(RemoveIdx(list, i))
<1> DEFINE new == RemoveIdx(list, i)
<1>1. DOMAIN list = 1..Len(list) /\ Len(list) \in Nat
    BY LenProperties
<1>2. /\ new \in Seq(Item) /\ Len(new) = Len(list) - 1
      /\ \A j \in 1..(Len(list) - 1) : new[j] = IF j < i THEN list[j] ELSE list[j + 1]
    BY RemoveIdxList
<1>3. DOMAIN new = 1..(Len(list) - 1)
    BY <1>2, LenProperties
<1> HIDE DEF new
<1>4. ASSUME NEW a \in DOMAIN new, NEW b \in DOMAIN new,
             new[a].id = new[b].id, ~ new[a].id.padded
      PROVE  a = b
    <2> DEFINE Old(j) == IF j < i THEN j ELSE j + 1
    <2>1. Old(a) \in DOMAIN list /\ Old(b) \in DOMAIN list
        BY <1>1, <1>3
    <2>2. new[a] = list[Old(a)] /\ new[b] = list[Old(b)]
        BY <1>2, <1>3
    <2> HIDE DEF Old
    <2>3. Old(a) = Old(b)
        BY <1>4, <2>1, <2>2 DEF Distinct
    <2>4. QED
        BY <1>1, <1>3, <2>3 DEF Old
<1>5. QED
    BY <1>4 DEF Distinct, new

LEMMA DistinctReplace ==
    ASSUME NEW list \in Seq(Item), NEW idx \in Nat, NEW draft \in Item, Distinct(list),
           \A j \in DOMAIN list : list[j].id = Trim(draft.id) => j = idx
    PROVE  Distinct(ReplaceIdx(list, idx, draft))
<1> DEFINE new == ReplaceIdx(list, idx, draft)
<1>1. DOMAIN list = 1..Len(list) /\ Len(list) \in Nat
    BY LenProperties
<1>2. /\ new \in Seq(Item) /\ Len(new) = Len(list)
      /\ \A j \in 1..Len(list) : new[j] = IF j = idx THEN draft ELSE list[j]
    BY ReplaceIdxList
<1>3. DOMAIN new = DOMAIN list
    BY <1>1, <1>2, LenProperties
<1> HIDE DEF new
<1>4. ASSUME NEW a \in DOMAIN list, NEW b \in DOMAIN list,
             new[a].id = new[b].id, ~ new[a].id.padded
      PROVE  a = b
    <2>1. CASE a = idx /\ b # idx
        <3>1. new[a] = draft /\ new[b] = list[b]
            BY <1>1, <1>2, <2>1
        <3>2. list[b].id = Trim(draft.id)
            BY <1>4, <3>1, TrimOfUnpadded
        <3>3. QED
            BY <2>1, <3>2
    <2>2. CASE a # idx /\ b = idx
        <3>1. new[a] = list[a] /\ new[b] = draft
            BY <1>1, <1>2, <2>2
        <3>2. list[a].id = Trim(draft.id)
            BY <1>4, <3>1, TrimOfUnpadded
        <3>3. QED
            BY <2>2, <3>2
    <2>3. CASE a # idx /\ b # idx
        <3>1. new[a] = list[a] /\ new[b] = list[b]
            BY <1>1, <1>2, <2>3
        <3>2. QED
            BY <1>4, <3>1 DEF Distinct
    <2>4. QED
        BY <2>1, <2>2, <2>3
<1>5. QED
    BY <1>3, <1>4 DEF Distinct, new

LEMMA DistinctAppend ==
    ASSUME NEW list \in Seq(Item), NEW draft \in Item, Distinct(list),
           \A j \in DOMAIN list : list[j].id # Trim(draft.id)
    PROVE  Distinct(Append(list, draft))
<1> DEFINE new == Append(list, draft)
<1>1. DOMAIN list = 1..Len(list) /\ Len(list) \in Nat
    BY LenProperties
<1>2. /\ DOMAIN new = 1..(Len(list) + 1)
      /\ \A j \in 1..Len(list) : new[j] = list[j]
      /\ new[Len(list) + 1] = draft
    BY <1>1, AppendProperties, LenProperties
<1> HIDE DEF new
<1>3. ASSUME NEW a \in DOMAIN new, NEW b \in DOMAIN new,
             new[a].id = new[b].id, ~ new[a].id.padded
      PROVE  a = b
    <2>1. CASE a = Len(list) + 1 /\ b # Len(list) + 1
        <3>1. b \in DOMAIN list /\ new[a] = draft /\ new[b] = list[b]
            BY <1>1, <1>2, <2>1
        <3>2. list[b].id = Trim(draft.id)
            BY <1>3, <3>1, TrimOfUnpadded
        <3>3. QED
            BY <3>1, <3>2
    <2>2. CASE a # Len(list) + 1 /\ b = Len(list) + 1
        <3>1. a \in DOMAIN list /\ new[b] = draft /\ new[a] = list[a]
            BY <1>1, <1>2, <2>2
        <3>2. list[a].id = Trim(draft.id)
            BY <1>3, <3>1, TrimOfUnpadded
        <3>3. QED
            BY <3>1, <3>2
    <2>3. CASE a # Len(list) + 1 /\ b # Len(list) + 1
        <3>1. /\ a \in DOMAIN list /\ new[a] = list[a]
              /\ b \in DOMAIN list /\ new[b] = list[b]
            BY <1>1, <1>2, <2>3
        <3>2. QED
            BY <1>3, <3>1 DEF Distinct
    <2>4. QED
        BY <2>1, <2>2, <2>3
<1>4. QED
    BY <1>3 DEF Distinct, new

LEMMA OneListChanged ==
    ASSUME NEW ls \in Lists, NEW but, DistinctIds(ls, but), NEW now, but \subseteq now,
           NEW k \in Kind, NEW new \in Seq(Item), k \in now \/ Distinct(new)
    PROVE  [ls EXCEPT ![k] = new] \in Lists /\ DistinctIds([ls EXCEPT ![k] = new], now)
<1>1. [ls EXCEPT ![k] = new] \in Lists
    BY DEF Lists
<1>2. ASSUME NEW l \in Kind \ now
      PROVE  Distinct([ls EXCEPT ![k] = new][l])
    <2>1. [ls EXCEPT ![k] = new][l] = IF l = k THEN new ELSE ls[l]
        BY DEF Lists
    <2>2. QED
        BY <2>1 DEF DistinctIds
<1>3. QED
    BY <1>1, <1>2 DEF DistinctIds

--------------------------------------------------------------------------------
(* The invariant holds at the start and is kept by what the panels do *)

LEMMA NotSavingIs ==
    ASSUME NEW pc \in {"idle", "error"}
    PROVE  NotSaving(pc) \in Save /\ NotSaving(pc).pc = pc /\ NotSaving(pc).rows = << >>
<1>1. Empty \in Lists
    BY DEF Empty, Lists
<1>2. QED
    BY <1>1 DEF NotSaving, Save

\* A panel drawn or left as it was keeps what Shows says.
LEMMA DrawKeeps ==
    ASSUME TypeOK, Shows, Draw, lists' \in Lists, shown' \in FirstPanel..LastPanel,
           \/ shown' = step'
           \/ shown' \in DOMAIN Panel
           \/ shown' = shown /\ lists' = lists
    PROVE  drawn' \in Props /\ Shows'
<1>1. CASE shown' = step'
    <2>1. drawn' = [lists |-> lists', loading |-> save'.pc = "saving"]
        BY <1>1 DEF Draw, CurrentProps
    <2>2. drawn' \in Props /\ drawn'.lists = lists'
        BY <2>1 DEF Props
    <2>3. QED
        BY <2>1, <2>2 DEF Shows, CurrentProps
<1>2. CASE shown' # step'
    <2>1. drawn' = drawn
        BY <1>2 DEF Draw
    <2>2. QED
        BY <1>2, <2>1 DEF TypeOK, Shows
<1>3. QED
    BY <1>1, <1>2

LEMMA ClosedIs ==
    Closed \in Form /\ Closed.mode = "closed" /\ Closed.idx = 0
BY DEF Closed, Form

LEMMA DistinctEmpty == DistinctIds(Empty, {})
BY DEF DistinctIds, Distinct, Empty

LEMMA IdsDistinctIs == IdsDistinct <=> DistinctIds(lists, late)
BY DEF IdsDistinct, DistinctIds, Distinct

\* Without rows and out of an attempt nothing is said of one.
LEMMA NoAttempt ==
    ASSUME save.pc \in {"idle", "error"}, save.rows = << >>
    PROVE  Idle /\ Progress /\ OneSource
BY DEF Idle, Progress, OneSource

LEMMA Start == Init => IInv
<1> SUFFICES ASSUME Init
             PROVE  IInv
    OBVIOUS
<1>1. TypeOK
    <2>1. Empty \in Lists
        BY DEF Empty, Lists
    <2>2. QED
        BY <2>1, NotSavingIs, ClosedIs, ConstantsAssumption
           DEF Init, TypeOK, FirstPanel, LastPanel, CurrentProps, Props
<1>2. FormInv /\ EditFindsItsItem
    BY NotSavingIs, ClosedIs DEF Init, FormInv, EditFindsItsItem
<1>2a. Shows
    BY DEF Init, Shows, CurrentProps
<1>3. IdsDistinct
    BY DistinctEmpty, IdsDistinctIs DEF Init
<1>4. Idle /\ Progress /\ OneSource
    BY NotSavingIs, NoAttempt DEF Init
<1>5. QED
    BY <1>1, <1>2, <1>2a, <1>3, <1>4 DEF IInv

LEMMA SaveKept ==
    ASSUME Idle, Progress, OneSource, save' = save
    PROVE  Idle' /\ Progress' /\ OneSource'
<1>1. Idle'
    BY DEF Idle
<1>2. Progress'
    BY DEF Progress, Answered, HasRow, LeftOut
<1>3. OneSource'
    BY DEF OneSource
<1>4. QED
    BY <1>1, <1>2, <1>3

LEMMA ListsKept ==
    ASSUME IdsDistinct, lists' = lists, late' = late
    PROVE  IdsDistinct'
BY DEF IdsDistinct

LEMMA PanelsKeepInv ==
    ASSUME IInv, ProvidersStep \/ CatalogsStep \/ ResourcesStep \/ OffersStep
    PROVE  IInv'
<1> DEFINE k == Panel[shown]
<1>1. /\ TypeOK /\ FormInv /\ Shows /\ IdsDistinct /\ EditFindsItsItem
      /\ Idle /\ Progress /\ OneSource
    BY DEF IInv
<1>2. /\ shown \in DOMAIN Panel /\ k \in Kind /\ Draw
      /\ \/ OpenForm
         \/ CancelForm
         \/ \E i \in DOMAIN drawn.lists[k] : StartEdit(i)
         \/ \E i \in DOMAIN drawn.lists[k] : Remove(i)
         \/ \E draft \in Item : HandleAdd(draft)
    BY <1>1, ListSteps
<1> HIDE DEF k
<1>3. /\ lists[k] \in Seq(Item) /\ Len(lists[k]) \in Nat
      /\ DOMAIN lists[k] = 1..Len(lists[k])
      /\ \A i \in DOMAIN lists[k] : lists[k][i] \in Item
    BY <1>1, <1>2, ListOf DEF TypeOK
<1>3a. /\ drawn.lists[k] \in Seq(Item)
       /\ \A i \in DOMAIN drawn.lists[k] : i \in Nat /\ drawn.lists[k][i] \in Item
    <2>1. drawn.lists \in Lists
        BY <1>1 DEF TypeOK, Props
    <2>2. QED
        BY <1>2, <2>1, ListOf
<1>4. DistinctIds(lists, late) /\ (k \in late \/ Distinct(lists[k]))
    BY <1>1, <1>2, IdsDistinctIs DEF DistinctIds
<1>5. ASSUME step' = step, shown' = shown, save' = save,
             lists' \in Lists, late' \subseteq Kind, DistinctIds(lists', late'),
             form' \in Form, edits' \in 0..MaxEdits, FormInv', EditFindsItsItem'
      PROVE  IInv'
    <2>0. drawn' \in Props /\ Shows'
        BY <1>1, <1>2, <1>5, DrawKeeps DEF TypeOK
    <2>1. TypeOK'
        BY <1>1, <1>5, <2>0 DEF TypeOK
    <2>2. IdsDistinct'
        BY <1>5 DEF IdsDistinct, DistinctIds, Distinct
    <2>3. Idle' /\ Progress' /\ OneSource'
        BY <1>1, <1>5, SaveKept
    <2>4. QED
        BY <1>5, <2>0, <2>1, <2>2, <2>3 DEF IInv
<1>6. CASE OpenForm
    <2>1. form' \in Form /\ form'.mode = "new" /\ form'.idx = 0
        BY <1>6, ClosedIs DEF OpenForm, Form
    <2>2. FormInv' /\ EditFindsItsItem'
        BY <1>6, <2>1 DEF OpenForm, OnPage, FormInv, EditFindsItsItem
    <2>3. QED
        BY <1>1, <1>4, <1>5, <1>6, <2>1, <2>2 DEF OpenForm, TypeOK
<1>7. CASE CancelForm
    <2>1. form' \in Form /\ form'.mode = "closed"
        BY <1>7, ClosedIs DEF CancelForm
    <2>2. FormInv' /\ EditFindsItsItem'
        BY <1>7, <2>1 DEF CancelForm, OnPage, FormInv, EditFindsItsItem
    <2>3. QED
        BY <1>1, <1>4, <1>5, <1>7, <2>1, <2>2 DEF CancelForm, TypeOK
<1>8. ASSUME NEW i \in DOMAIN drawn.lists[k], StartEdit(i)
      PROVE  IInv'
    <2>1. /\ form' = [mode |-> "edit", idx |-> i, item |-> drawn.lists[k][i],
                      moved |-> drawn.lists[k] # lists[k]]
          /\ UNCHANGED <<step, shown, lists, save, edits, late>> /\ OnPage
        BY <1>8 DEF StartEdit, k
    <2>2. form' \in Form
        BY <1>3a, <2>1 DEF Form
    <2>3. FormInv'
        BY <1>2, <1>3a, <2>1 DEF FormInv, OnPage
    <2>4. EditFindsItsItem'
        BY <2>1 DEF EditFindsItsItem, k
    <2>5. QED
        BY <1>1, <1>4, <1>5, <2>1, <2>2, <2>3, <2>4 DEF TypeOK
<1>9. ASSUME NEW i \in DOMAIN drawn.lists[k], Remove(i)
      PROVE  IInv'
    <2> DEFINE new == RemoveIdx(lists[k], i)
    <2>0. i \in Nat
        BY <1>3a
    <2>1. /\ lists' = [lists EXCEPT ![k] = new]
          /\ form' = [form EXCEPT !.moved = form.mode = "edit" /\ (@ \/ i <= form.idx)]
          /\ edits < MaxEdits /\ edits' = edits + 1
          /\ UNCHANGED <<step, shown, save, late>> /\ OnPage
        BY <1>9 DEF Remove, k
    <2>2. /\ new \in Seq(Item)
          /\ \A j \in DOMAIN lists[k] : j < i => j \in DOMAIN new /\ new[j] = lists[k][j]
        <3>1. CASE i \in DOMAIN lists[k]
            <4>1. /\ new \in Seq(Item) /\ Len(new) = Len(lists[k]) - 1
                  /\ \A j \in 1..(Len(lists[k]) - 1) :
                         new[j] = IF j < i THEN lists[k][j] ELSE lists[k][j + 1]
                BY <1>3, <3>1, RemoveIdxList
            <4>2. DOMAIN new = 1..(Len(lists[k]) - 1)
                BY <4>1, LenProperties
            <4> HIDE DEF new
            <4>3. QED
                BY <1>3, <3>1, <4>1, <4>2
        <3>2. CASE i \notin DOMAIN lists[k]
            <4>1. new = lists[k]
                BY <3>2 DEF RemoveIdx
            <4>2. QED
                BY <1>3, <4>1
        <3>3. QED
            BY <3>1, <3>2
    <2>3. Distinct(lists[k]) => Distinct(new)
        <3>1. CASE i \in DOMAIN lists[k]
            BY <1>3, <3>1, DistinctRemove
        <3>2. CASE i \notin DOMAIN lists[k]
            BY <3>2 DEF RemoveIdx
        <3>3. QED
            BY <3>1, <3>2
    <2> HIDE DEF new
    <2>4. lists' \in Lists /\ DistinctIds(lists', late')
        BY <1>1, <1>2, <1>4, <2>1, <2>2, <2>3, OneListChanged DEF TypeOK
    <2>5. form \in Form
        BY <1>1 DEF TypeOK
    <2>6. /\ form' \in Form /\ form'.mode = form.mode /\ form'.idx = form.idx
          /\ form'.item = form.item
          /\ form.mode = "edit" /\ ~ form'.moved => ~ form.moved /\ ~ i <= form.idx
        BY <2>1, <2>5 DEF Form
    <2>7. FormInv'
        BY <1>1, <2>1, <2>6 DEF FormInv, OnPage
    <2>8. EditFindsItsItem'
        <3> SUFFICES ASSUME form.mode = "edit", ~ form'.moved
                     PROVE  form.idx \in DOMAIN new /\ new[form.idx] = form.item
            <4>1. lists'[k] = new /\ Panel[shown]' = k
                BY <1>1, <1>2, <2>1 DEF k, TypeOK, Lists
            <4>2. QED
                BY <2>6, <4>1 DEF EditFindsItsItem
        <3>1. /\ form.idx \in DOMAIN lists[k] /\ lists[k][form.idx] = form.item
              /\ form.idx < i
            <4>1. ~ form.moved /\ ~ i <= form.idx
                BY <2>6
            <4>2. form.idx \in DOMAIN lists[k] /\ lists[k][form.idx] = form.item
                BY <1>1, <4>1 DEF EditFindsItsItem, k
            <4>3. QED
                BY <1>3, <2>0, <4>1, <4>2
        <3>2. QED
            BY <2>2, <3>1
    <2>9. edits' \in 0..MaxEdits
        BY <1>1, <2>1, ConstantsAssumption DEF TypeOK
    <2>10. QED
        BY <1>1, <1>5, <2>1, <2>4, <2>6, <2>7, <2>8, <2>9 DEF TypeOK
<1>10. ASSUME NEW draft \in Item, HandleAdd(draft)
       PROVE  IInv'
    <2>1. /\ OnPage /\ form.mode # "closed" /\ ~ Taken(drawn.lists[k], draft.id)
          /\ late' = IF drawn.lists[k] = lists[k] THEN late ELSE late \cup {k}
          /\ \/ /\ form.mode = "edit"
                /\ lists' = [lists EXCEPT ![k] = ReplaceIdx(@, form.idx, draft)]
             \/ /\ form.mode = "new"
                /\ lists' = [lists EXCEPT ![k] = Append(@, draft)]
          /\ form' = Closed /\ edits < MaxEdits /\ edits' = edits + 1
          /\ UNCHANGED <<step, shown, save>>
        BY <1>10 DEF HandleAdd, k
    <2>2. k \notin late' =>
              /\ Distinct(lists[k])
              /\ \A j \in DOMAIN lists[k] : lists[k][j].id = Trim(draft.id) => j = form.idx
        <3>1. SUFFICES ASSUME k \notin late'
                       PROVE  /\ Distinct(lists[k])
                              /\ \A j \in DOMAIN lists[k] :
                                     lists[k][j].id = Trim(draft.id) => j = form.idx
            OBVIOUS
        <3>2. drawn.lists[k] = lists[k] /\ k \notin late
            BY <2>1, <3>1
        <3>3. QED
            BY <1>4, <2>1, <3>2 DEF Taken
    <2>3. PICK new \in Seq(Item) : (k \in late' \/ Distinct(new)) /\ lists' = [lists EXCEPT ![k] = new]
        <3>1. CASE lists' = [lists EXCEPT ![k] = ReplaceIdx(@, form.idx, draft)]
            <4>1. form.idx \in Nat
                BY <1>1 DEF TypeOK, Form
            <4>2. k \in late' \/ Distinct(ReplaceIdx(lists[k], form.idx, draft))
                BY <1>3, <2>2, <4>1, DistinctReplace
            <4>3. ReplaceIdx(lists[k], form.idx, draft) \in Seq(Item)
                BY <1>3, <4>1, ReplaceIdxList
            <4>4. QED
                BY <3>1, <4>2, <4>3
        <3>2. CASE /\ form.mode = "new"
                   /\ lists' = [lists EXCEPT ![k] = Append(@, draft)]
            <4>1. form.idx = 0
                BY <1>1, <3>2 DEF FormInv
            <4>2. k \notin late' => \A j \in DOMAIN lists[k] : lists[k][j].id # Trim(draft.id)
                BY <1>3, <2>2, <4>1
            <4>3. k \in late' \/ Distinct(Append(lists[k], draft))
                BY <1>3, <2>2, <4>2, DistinctAppend
            <4>4. Append(lists[k], draft) \in Seq(Item)
                BY <1>3
            <4>5. QED
                BY <3>2, <4>3, <4>4
        <3>3. QED
            BY <2>1, <3>1, <3>2
    <2>4. /\ lists' \in Lists /\ DistinctIds(lists', late')
          /\ late \subseteq late' /\ late' \subseteq Kind
        <3>1. late \subseteq late' /\ late' \subseteq Kind
            BY <1>1, <1>2, <2>1 DEF TypeOK
        <3>2. QED
            BY <1>1, <1>2, <1>4, <2>3, <3>1, OneListChanged DEF TypeOK
    <2>5. FormInv' /\ EditFindsItsItem'
        BY <2>1, ClosedIs DEF FormInv, EditFindsItsItem, OnPage
    <2>6. edits' \in 0..MaxEdits
        BY <1>1, <2>1, ConstantsAssumption DEF TypeOK
    <2>7. QED
        BY <1>5, <2>1, <2>4, <2>5, <2>6, ClosedIs
<1>11. QED
    BY <1>2, <1>6, <1>7, <1>8, <1>9, <1>10

--------------------------------------------------------------------------------
(* What an attempt knows of its click *)

LEMMA RequestsDiffer ==
    ASSUME NEW snap \in Lists,
           NEW m \in 1..Len(Requests(snap)), NEW n \in 1..Len(Requests(snap)),
           Requests(snap)[m] = Requests(snap)[n]
    PROVE  m = n
<1>1. PICK k \in SaveKind : \E i \in 1..Size(snap, k) : m = Position(snap, k, i)
    BY RequestsAt
<1>2. PICK i \in 1..Size(snap, k) : m = Position(snap, k, i)
    BY <1>1
<1>3. PICK l \in SaveKind : \E j \in 1..Size(snap, l) : n = Position(snap, l, j)
    BY RequestsAt
<1>4. PICK j \in 1..Size(snap, l) : n = Position(snap, l, j)
    BY <1>3
<1>5. Requests(snap)[m] = <<k, i>> /\ Requests(snap)[n] = <<l, j>>
    BY <1>2, <1>4, RequestsAt
<1>6. k = l /\ i = j
    <2>1. <<k, i>> = <<l, j>>
        BY <1>5
    <2>2. QED
        BY <2>1
<1>7. QED
    BY <1>2, <1>4, <1>6

LEMMA SizeOfKind ==
    ASSUME NEW snap \in Lists, NEW k \in Kind
    PROVE  Size(snap, k) = Len(snap[k]) /\ DOMAIN snap[k] = 1..Size(snap, k)
<1>1. Size(snap, k) = Len(snap[k])
    BY DEF Size, Kind
<1>2. QED
    BY <1>1, ListOf

\* The parts of an attempt that runs or has succeeded.
LEMMA Attempt ==
    ASSUME TypeOK, Progress, save.pc \in {"saving", "success"}
    PROVE  /\ save.snap \in Lists /\ DistinctIds(save.snap, save.late)
           /\ save.todo \in Seq(SaveKind \X Nat) /\ Len(save.todo) \in Nat
           /\ save.rows \in Seq(Row) /\ Len(save.rows) \in Nat
           /\ DOMAIN save.rows = 1..Len(save.rows)
           /\ \A n \in DOMAIN save.rows : save.rows[n] \in Row
           /\ Answered \in Nat /\ Len(Requests(save.snap)) = Answered + Len(save.todo)
           /\ \A n \in DOMAIN save.rows :
                  /\ save.rows[n].kind \in SaveKind
                  /\ save.rows[n].of \in 1..Size(save.snap, save.rows[n].kind)
<1>1. /\ save.snap \in Lists /\ DistinctIds(save.snap, save.late)
      /\ save.todo \in Seq(SaveKind \X Nat)
      /\ save.rows \in Seq(Row)
    BY DEF TypeOK, Save, Progress, SaveKind
<1>2. /\ Len(save.todo) \in Nat /\ Len(save.rows) \in Nat
      /\ DOMAIN save.rows = 1..Len(save.rows)
      /\ \A n \in DOMAIN save.rows : save.rows[n] \in Row
    BY <1>1, LenProperties, ElementOfSeq
<1>3. Answered \in Nat
    BY DEF Progress
<1>4. Len(Requests(save.snap)) = Answered + Len(save.todo)
    <2>1. Len(Requests(save.snap)) \in Nat
        BY <1>1, RequestsAt
    <2>2. QED
        BY <1>2, <2>1 DEF Answered
<1>5. ASSUME NEW n \in DOMAIN save.rows
      PROVE  /\ save.rows[n].kind \in SaveKind
             /\ save.rows[n].of \in 1..Size(save.snap, save.rows[n].kind)
    <2>1. PICK m \in 1..Answered :
              Requests(save.snap)[m] = <<save.rows[n].kind, save.rows[n].of>>
        BY DEF Progress
    <2>2. m \in 1..Len(Requests(save.snap))
        BY <1>2, <1>3, <1>4, <2>1
    <2>5. PICK k \in SaveKind : \E i \in 1..Size(save.snap, k) : m = Position(save.snap, k, i)
        BY <1>1, <2>2, RequestsAt
    <2>3. PICK i \in 1..Size(save.snap, k) : m = Position(save.snap, k, i)
        BY <2>5
    <2>4. Requests(save.snap)[m] = <<k, i>>
        BY <1>1, <2>3, RequestsAt
    <2>6. QED
        BY <2>1, <2>3, <2>4
<1>6. QED
    BY <1>1, <1>2, <1>3, <1>4, <1>5

\* The request to be answered next is the first one not yet left behind.
LEMMA NextRequest ==
    ASSUME TypeOK, Progress, save.pc = "saving", save.todo # << >>
    PROVE  LET q == Head(save.todo) IN
           /\ q[1] \in SaveKind /\ q[2] \in 1..Size(save.snap, q[1])
           /\ q = <<q[1], q[2]>> /\ q = Requests(save.snap)[Answered + 1]
           /\ Answered + 1 = Position(save.snap, q[1], q[2])
           /\ Tail(save.todo) \in Seq(SaveKind \X Nat)
           /\ Len(Tail(save.todo)) = Len(save.todo) - 1
           /\ DOMAIN Tail(save.todo) = 1..(Len(save.todo) - 1)
           /\ \A j \in 1..(Len(save.todo) - 1) :
                  Tail(save.todo)[j] = Requests(save.snap)[Answered + 1 + j]
<1> DEFINE R == Requests(save.snap)
           q == Head(save.todo)
<1>1. /\ save.snap \in Lists
      /\ save.todo \in Seq(SaveKind \X Nat) /\ Len(save.todo) \in Nat
      /\ Answered \in Nat /\ Len(R) = Answered + Len(save.todo)
    BY Attempt
<1>2. Len(save.todo) # 0
    BY <1>1, EmptySeq
<1>3. DOMAIN save.todo = 1..Len(save.todo)
    BY <1>1, LenProperties
<1>4. q = save.todo[1] /\ \A j \in 1..(Len(save.todo) - 1) : Tail(save.todo)[j] = save.todo[j + 1]
    BY <1>1, <1>2, HeadTailProperties
<1>5. \A j \in 1..Len(save.todo) : save.todo[j] = R[Answered + j]
    BY <1>3 DEF Progress
<1>6. q = R[Answered + 1]
    BY <1>1, <1>2, <1>4, <1>5
<1>7. Answered + 1 \in 1..Len(R)
    BY <1>1, <1>2
<1>0. PICK k \in SaveKind : \E i \in 1..Size(save.snap, k) : Answered + 1 = Position(save.snap, k, i)
    BY <1>1, <1>7, RequestsAt
<1>8. PICK i \in 1..Size(save.snap, k) : Answered + 1 = Position(save.snap, k, i)
    BY <1>0
<1>9. q = <<k, i>>
    BY <1>1, <1>6, <1>8, RequestsAt
<1>10. /\ Tail(save.todo) \in Seq(SaveKind \X Nat)
       /\ Len(Tail(save.todo)) = Len(save.todo) - 1
    BY <1>1, <1>2, HeadTailProperties
<1>11. DOMAIN Tail(save.todo) = 1..(Len(save.todo) - 1)
    BY <1>10, LenProperties
<1>12. ASSUME NEW j \in 1..(Len(save.todo) - 1)
       PROVE  Tail(save.todo)[j] = R[Answered + 1 + j]
    <2>1. j + 1 \in 1..Len(save.todo) /\ Answered + (j + 1) = Answered + 1 + j
        BY <1>1
    <2>2. QED
        BY <1>4, <1>5, <2>1
<1> HIDE DEF R, q
<1>13. q[1] = k /\ q[2] = i
    BY <1>9
<1>14. QED
    BY <1>6, <1>8, <1>9, <1>10, <1>11, <1>12, <1>13 DEF q, R

\* When an offer or a catalog has its turn, the map finds an item of the lists
\* at the click if, and only if, there is one with the id.
LEMMA MapComplete ==
    ASSUME TypeOK, Progress, save.pc = "saving", save.todo # << >>,
           Head(save.todo)[1] \in {"offer", "catalog"}, NEW id
    PROVE  LET t == Target(Head(save.todo)[1])
               list == save.snap[t] IN
           /\ t \in Kind /\ list \in Seq(Item)
           /\ id \notin IdsOf(list) => MappedRow(t, id) = 0
           /\ id \in IdsOf(list) =>
                  MappedRow(t, id) \in DOMAIN list /\ list[MappedRow(t, id)].id = id
<1> DEFINE k == Head(save.todo)[1]
           i == Head(save.todo)[2]
           t == Target(k)
           list == save.snap[t]
           of == {n \in DOMAIN save.rows :
                     save.rows[n].kind = t /\ save.snap[t][save.rows[n].of].id = id}
<1>1. /\ k \in SaveKind /\ i \in 1..Size(save.snap, k)
      /\ Answered + 1 = Position(save.snap, k, i)
    BY NextRequest
<1>2. /\ save.snap \in Lists /\ Answered \in Nat
      /\ Len(Requests(save.snap)) = Answered + Len(save.todo) /\ Len(save.todo) \in Nat
      /\ \A n \in DOMAIN save.rows :
             /\ save.rows[n].kind \in SaveKind
             /\ save.rows[n].of \in 1..Size(save.snap, save.rows[n].kind)
    BY Attempt
<1>3. t \in Kind /\ t # "offer"
    BY DEF Target, Kind
<1>4. list \in Seq(Item) /\ DOMAIN list = 1..Size(save.snap, t)
    BY <1>2, <1>3, ListOf, SizeOfKind
<1>5. save \in Save
    BY DEF TypeOK
<1>6. /\ of = {} => MappedRow(t, id) = 0
      /\ of # {} => \E n \in of : MappedRow(t, id) = save.rows[n].of
    <2> HIDE DEF t
    <2>1. QED
        BY <1>5, MappedRowIs
<1>7. \A n \in of : save.rows[n].of \in DOMAIN list /\ list[save.rows[n].of].id = id
    BY <1>2, <1>4
<1>8. ASSUME id \in IdsOf(list)
      PROVE  of # {}
    <2>1. PICK j \in DOMAIN list : list[j].id = id
        BY <1>8 DEF IdsOf
    <2> DEFINE m == Position(save.snap, t, j)
    <2>2. m < Answered + 1
        BY <1>1, <1>2, <1>4, <2>1, TargetFirst
    <2>3. /\ m \in 1..Len(Requests(save.snap))
          /\ Requests(save.snap)[m] = <<t, j>>
        BY <1>2, <1>3, <1>4, <2>1, RequestsAt DEF SaveKind
    <2> HIDE DEF m
    <2>4. m \in 1..Answered
        BY <1>2, <2>2, <2>3
    <2>5. HasRow(<<t, j>>) \/ LeftOut(<<t, j>>)
        BY <2>3, <2>4 DEF Progress
    <2>6. ~ LeftOut(<<t, j>>)
        BY <1>3 DEF LeftOut
    <2>7. PICK n \in DOMAIN save.rows : save.rows[n].kind = t /\ save.rows[n].of = j
        BY <2>5, <2>6 DEF HasRow
    <2>8. QED
        BY <2>1, <2>7
<1> HIDE DEF of
<1>9. id \notin IdsOf(list) => of = {}
    BY <1>7 DEF IdsOf
<1>10. QED
    BY <1>3, <1>4, <1>6, <1>7, <1>8, <1>9

--------------------------------------------------------------------------------
(* The invariant is kept by the page and by an attempt to publish *)

\* The lists, the form and the panel stay as they are.
LEMMA DraftKept ==
    ASSUME IInv, save' \in Save, UNCHANGED <<step, shown, lists, form, edits, late>>,
           Draw, save.pc # "success", save'.pc # "success",
           Idle', Progress', OneSource'
    PROVE  IInv'
<1>0. drawn' \in Props /\ Shows'
    BY DrawKeeps DEF IInv, TypeOK
<1>1. TypeOK'
    BY <1>0 DEF IInv, TypeOK
<1>2. FormInv' /\ IdsDistinct' /\ EditFindsItsItem'
    BY DEF IInv, FormInv, IdsDistinct, EditFindsItsItem
<1>3. QED
    BY <1>0, <1>1, <1>2 DEF IInv

LEMMA PageKeepsInv ==
    ASSUME IInv, NextStep \/ BackStep \/ Settle
    PROVE  IInv'
<1>1. /\ TypeOK /\ FormInv /\ Shows /\ IdsDistinct
      /\ Idle /\ Progress /\ OneSource /\ EditFindsItsItem
    BY DEF IInv
<1>2. IdsDistinct' /\ Idle' /\ Progress' /\ OneSource'
    <2>1. lists' = lists /\ save' = save /\ late' = late
        BY DEF NextStep, BackStep, Settle
    <2>2. QED
        BY <1>1, <2>1, SaveKept, ListsKept
<1>3. CASE NextStep
    <2>0. drawn' \in Props /\ Shows'
        BY <1>1, <1>3, DrawKeeps DEF NextStep, TypeOK
    <2>1. TypeOK'
        BY <1>1, <1>3, <2>0 DEF NextStep, TypeOK, FirstPanel, LastPanel
    <2>2. FormInv' /\ EditFindsItsItem'
        BY <1>1, <1>3 DEF NextStep, FormInv, EditFindsItsItem
    <2>3. QED
        BY <1>2, <2>0, <2>1, <2>2 DEF IInv
<1>4. CASE BackStep
    <2>0. drawn' \in Props /\ Shows'
        BY <1>1, <1>4, DrawKeeps DEF BackStep, TypeOK
    <2>1. TypeOK'
        BY <1>1, <1>4, <2>0 DEF BackStep, TypeOK, FirstPanel, LastPanel
    <2>2. FormInv' /\ EditFindsItsItem'
        BY <1>1, <1>4 DEF BackStep, FormInv, EditFindsItsItem
    <2>3. QED
        BY <1>2, <2>0, <2>1, <2>2 DEF IInv
<1>5. CASE Settle
    <2>0. drawn' \in Props /\ Shows'
        BY <1>1, <1>5, DrawKeeps DEF Settle, TypeOK
    <2>1. TypeOK'
        BY <1>1, <1>5, <2>0, ClosedIs DEF Settle, TypeOK
    <2>2. FormInv' /\ EditFindsItsItem'
        BY <1>1, <1>5, ClosedIs DEF Settle, FormInv, EditFindsItsItem
    <2>3. QED
        BY <1>2, <2>0, <2>1, <2>2 DEF IInv
<1>6. QED
    BY <1>3, <1>4, <1>5

LEMMA PublishKeepsInv ==
    ASSUME IInv, Publish
    PROVE  IInv'
<1> DEFINE R == Requests(lists)
<1>1. TypeOK /\ Shows /\ IdsDistinct /\ lists \in Lists
    BY DEF IInv, TypeOK
<1>1a. drawn.lists = lists
    <2>1. shown \notin DOMAIN Panel
        BY DEF Publish, Panel
    <2>2. QED
        BY <1>1, <2>1 DEF Shows
<1>2. /\ save' = [pc |-> "saving", snap |-> lists, late |-> late, todo |-> R, rows |-> << >>]
      /\ UNCHANGED <<step, shown, lists, form, edits, late>>
      /\ save.pc # "success" /\ Draw
    BY <1>1a DEF Publish
<1>3. R \in Seq(SaveKind \X Nat) /\ Len(R) \in Nat /\ DOMAIN R = 1..Len(R)
    BY <1>1, RequestsAt
<1> HIDE DEF R
<1>4. save' \in Save
    BY <1>1, <1>2, <1>3 DEF Save, SaveKind, TypeOK
<1>5. Idle' /\ OneSource'
    BY <1>2 DEF Idle, OneSource
<1>6. Progress'
    <2>1. Answered' = 0
        <3>1. Len(Requests(save'.snap)) = Len(R) /\ save'.todo = R
            BY <1>2 DEF R
        <3>2. QED
            BY <1>3, <3>1 DEF Answered
    <2>2. DistinctIds(lists, late)
        BY <1>1, IdsDistinctIs
    <2>3. \A j \in DOMAIN R : R[j] = Requests(lists)[0 + j]
        BY <1>3 DEF R
    <2>4. QED
        BY <1>2, <2>1, <2>2, <2>3 DEF Progress
<1>7. QED
    BY <1>2, <1>4, <1>5, <1>6, DraftKept

LEMMA FailsKeepsInv ==
    ASSUME IInv, SaveFails
    PROVE  IInv'
<1>1. save' = NotSaving("error") /\ UNCHANGED <<step, shown, lists, form, edits, late>>
      /\ save.pc # "success" /\ Draw
    BY DEF SaveFails
<1>2. save' \in Save /\ save'.pc = "error" /\ save'.rows = << >>
    BY <1>1, NotSavingIs
<1>3. Idle' /\ Progress' /\ OneSource'
    BY <1>2 DEF Idle, Progress, OneSource
<1>4. QED
    BY <1>1, <1>2, <1>3, DraftKept

LEMMA ResetKeepsInv ==
    ASSUME IInv, ResetAll
    PROVE  IInv'
<1>1. /\ step' = 1 /\ shown' = 1 /\ lists' = Empty /\ save' = NotSaving("idle")
      /\ edits' = 0 /\ late' = {} /\ form' = form /\ save.pc = "success" /\ Draw
    BY DEF ResetAll
<1>2. save' \in Save /\ save'.pc = "idle" /\ save'.rows = << >>
    BY <1>1, NotSavingIs
<1>3. form = Closed
    BY <1>1 DEF IInv, FormInv
<1>3a. lists' \in Lists
    BY <1>1 DEF Empty, Lists
<1>3b. drawn' \in Props /\ Shows'
    BY <1>1, <1>3a, DrawKeeps DEF IInv, FirstPanel, LastPanel
<1>4. TypeOK'
    BY <1>1, <1>2, <1>3, <1>3a, <1>3b, ClosedIs, ConstantsAssumption
       DEF TypeOK, FirstPanel, LastPanel
<1>5. FormInv' /\ EditFindsItsItem'
    BY <1>1, <1>2, <1>3, ClosedIs DEF FormInv, EditFindsItsItem
<1>6. IdsDistinct'
    BY <1>1, DistinctEmpty DEF IdsDistinct, DistinctIds, Distinct
<1>7. Idle' /\ Progress' /\ OneSource'
    BY <1>2 DEF Idle, Progress, OneSource
<1>8. QED
    BY <1>3b, <1>4, <1>5, <1>6, <1>7 DEF IInv

\* After the last answer.
LEMMA SuccessKeepsInv ==
    ASSUME IInv, SaveNext, save.todo = << >>
    PROVE  IInv'
<1>1. /\ save.pc = "saving" /\ save' = [save EXCEPT !.pc = "success"] /\ form' = Closed
      /\ UNCHANGED <<step, shown, lists, edits, late>> /\ save.todo = << >> /\ Draw
    BY DEF SaveNext
<1>2. TypeOK /\ Shows /\ IdsDistinct /\ Progress /\ OneSource /\ save \in Save
    BY DEF IInv, TypeOK
<1>3. /\ save' \in Save /\ save'.pc = "success" /\ save'.snap = save.snap
      /\ save'.late = save.late /\ save'.todo = save.todo /\ save'.rows = save.rows
    BY <1>1, <1>2 DEF Save
<1>3a. drawn' \in Props /\ Shows'
    BY <1>1, <1>2, DrawKeeps DEF TypeOK
<1>4. TypeOK'
    BY <1>1, <1>2, <1>3, <1>3a, ClosedIs DEF TypeOK
<1>5. FormInv' /\ EditFindsItsItem' /\ IdsDistinct'
    BY <1>1, <1>2, ClosedIs DEF FormInv, EditFindsItsItem, IdsDistinct
<1>6. Idle' /\ OneSource'
    BY <1>2, <1>3 DEF Idle, OneSource
<1>7. Progress'
    <2>1. Answered' = Answered
        BY <1>3 DEF Answered
    <2>2. \A q : (HasRow(q)' <=> HasRow(q)) /\ (LeftOut(q)' <=> LeftOut(q))
        BY <1>3 DEF HasRow, LeftOut
    <2> DEFINE R == Requests(save.snap)
    <2>3. R' = R /\ Requests(save'.snap) = R
        BY <1>3 DEF R
    <2>4. \A m \in 1..Answered : HasRow(R[m]) \/ LeftOut(R[m])
        BY <1>1, <1>2 DEF Progress
    <2> HIDE DEF R
    <2>5. \A m \in 1..Answered : HasRow(R[m])' \/ LeftOut(R[m])'
        BY <2>2, <2>3, <2>4
    <2>6. /\ DistinctIds(save'.snap, save'.late) /\ save'.todo = << >> /\ Answered' \in Nat
          /\ \A j \in DOMAIN save'.todo : save'.todo[j] = R[Answered + j]
        BY <1>1, <1>2, <1>3, <2>1 DEF Progress, R
    <2>7. \A n \in DOMAIN save'.rows : \E m \in 1..Answered :
              R[m] = <<save'.rows[n].kind, save'.rows[n].of>>
        BY <1>1, <1>2, <1>3 DEF Progress, R
    <2>8. \A n, o \in DOMAIN save'.rows :
              save'.rows[n].kind = save'.rows[o].kind /\ save'.rows[n].of = save'.rows[o].of
                  => n = o
        BY <1>1, <1>2, <1>3 DEF Progress
    <2>9. QED
        BY <1>3, <2>1, <2>3, <2>5, <2>6, <2>7, <2>8 DEF Progress
<1>8. QED
    BY <1>3a, <1>4, <1>5, <1>6, <1>7 DEF IInv

\* One more request is answered, or left out.
LEMMA AnswerKeepsProgress ==
    ASSUME IInv, SaveNext, save.todo # << >>
    PROVE  save' \in Save /\ Progress' /\ OneSource'
<1> DEFINE q == Head(save.todo)
           row == RowOf(q[1], q[2])
           a == Answered
           R == Requests(save.snap)
<1>1. /\ save.pc = "saving"
      /\ save' = [save EXCEPT !.todo = Tail(@),
                              !.rows = IF Skipped(row) THEN @ ELSE Append(@, row)]
    BY DEF SaveNext
<1>2. TypeOK /\ Progress /\ OneSource /\ save \in Save
    BY DEF IInv, TypeOK
<1>3. /\ q[1] \in SaveKind /\ q[2] \in 1..Size(save.snap, q[1])
      /\ q = <<q[1], q[2]>> /\ q = R[a + 1]
      /\ Tail(save.todo) \in Seq(SaveKind \X Nat)
      /\ Len(Tail(save.todo)) = Len(save.todo) - 1
      /\ DOMAIN Tail(save.todo) = 1..(Len(save.todo) - 1)
      /\ \A j \in 1..(Len(save.todo) - 1) : Tail(save.todo)[j] = R[a + 1 + j]
    BY <1>1, <1>2, NextRequest
<1>4. /\ save.snap \in Lists /\ DistinctIds(save.snap, save.late)
      /\ Len(save.todo) \in Nat /\ a \in Nat /\ Len(R) = a + Len(save.todo)
      /\ save.rows \in Seq(Row) /\ Len(save.rows) \in Nat
      /\ DOMAIN save.rows = 1..Len(save.rows)
    BY <1>1, <1>2, Attempt
<1>5. row \in Row /\ row.kind = q[1] /\ row.of = q[2]
    <2>1. q[2] \in Nat
        BY <1>3, <1>4 DEF Size
    <2>2. QED
        BY <1>2, <1>3, <2>1, RowOfIs
<1>6. row.ref = (IF q[1] \in {"offer", "catalog"} /\ save.snap[q[1]][q[2]].links # << >>
                 THEN MappedRow(Target(q[1]), save.snap[q[1]][q[2]].links[1]) ELSE 0)
    BY DEF RowOf
<1>7. ASSUME q[1] \in {"offer", "catalog"}, save.snap[q[1]][q[2]].links # << >>
      PROVE  row.emb = Find(save.snap[Target(q[1])], save.snap[q[1]][q[2]].links[1])
    BY <1>7 DEF RowOf
<1>8. ASSUME q[1] \in {"offer", "catalog"}, save.snap[q[1]][q[2]].links = << >>
      PROVE  row.emb = 0
    BY <1>8 DEF RowOf
<1> HIDE DEF q, row, a, R
<1>9. PICK rows \in Seq(Row) :
          /\ save' = [save EXCEPT !.todo = Tail(save.todo), !.rows = rows]
          /\ \/ Skipped(row) /\ rows = save.rows
             \/ ~ Skipped(row) /\ rows = Append(save.rows, row)
    <2>1. save.rows \in Seq(Row) /\ Append(save.rows, row) \in Seq(Row)
        BY <1>4, <1>5
    <2>2. CASE Skipped(row)
        BY <1>1, <2>1, <2>2
    <2>3. CASE ~ Skipped(row)
        BY <1>1, <2>1, <2>3
    <2>4. QED
        BY <2>2, <2>3
<1>10. /\ save'.pc = "saving" /\ save'.snap = save.snap /\ save'.late = save.late
       /\ save'.todo = Tail(save.todo) /\ save'.rows = rows
    BY <1>1, <1>2, <1>9 DEF Save
<1>11. save' \in Save
    BY <1>2, <1>3, <1>9 DEF Save, SaveKind
<1>12. /\ DOMAIN rows = 1..Len(rows) /\ Len(rows) \in Nat
       /\ DOMAIN save.rows \subseteq DOMAIN rows
       /\ \A n \in DOMAIN save.rows : rows[n] = save.rows[n]
       /\ \A n \in DOMAIN rows : n \in DOMAIN save.rows \/ (~ Skipped(row) /\ rows[n] = row)
       /\ \A n, o \in DOMAIN rows : n \notin DOMAIN save.rows /\ o \notin DOMAIN save.rows => n = o
    <2>1. CASE rows = save.rows
        <3>1. \A n \in DOMAIN rows : n \in DOMAIN save.rows
            BY <2>1
        <3>2. DOMAIN rows = 1..Len(rows) /\ Len(rows) \in Nat
            BY <1>4, <2>1
        <3>3. QED
            BY <2>1, <3>1, <3>2
    <2>2. CASE ~ Skipped(row) /\ rows = Append(save.rows, row)
        <3>1. /\ DOMAIN rows = 1..(Len(save.rows) + 1) /\ Len(rows) = Len(save.rows) + 1
              /\ \A n \in 1..Len(save.rows) : rows[n] = save.rows[n]
              /\ rows[Len(save.rows) + 1] = row
            BY <1>4, <1>5, <2>2, AppendProperties, LenProperties
        <3>2. \A n \in DOMAIN rows : n \in DOMAIN save.rows \/ n = Len(save.rows) + 1
            BY <1>4, <3>1
        <3>3. DOMAIN save.rows \subseteq DOMAIN rows
            BY <1>4, <3>1
        <3>4. DOMAIN rows = 1..Len(rows) /\ Len(rows) \in Nat
            BY <1>4, <3>1
        <3>5. \A n \in DOMAIN save.rows : rows[n] = save.rows[n]
            BY <1>4, <3>1
        <3>6. \A n \in DOMAIN rows : n \in DOMAIN save.rows \/ (~ Skipped(row) /\ rows[n] = row)
            BY <2>2, <3>1, <3>2
        <3>7. \A n, o \in DOMAIN rows :
                  n \notin DOMAIN save.rows /\ o \notin DOMAIN save.rows => n = o
            BY <3>2
        <3>8. QED
            BY <3>3, <3>4, <3>5, <3>6, <3>7
    <2>3. QED
        BY <1>9, <2>1, <2>2
<1>13. ~ Skipped(row) => \E n \in DOMAIN rows : rows[n] = row
    <2>1. ASSUME ~ Skipped(row)
          PROVE  Len(save.rows) + 1 \in DOMAIN rows /\ rows[Len(save.rows) + 1] = row
        BY <1>4, <1>5, <1>9, <2>1, AppendProperties, LenProperties
    <2>2. QED
        BY <2>1
<1>14. Answered' = a + 1
    <2>1. Answered' = Len(R) - (Len(save.todo) - 1)
        BY <1>3, <1>10 DEF Answered, R
    <2>2. PICK t \in Nat : t = Len(save.todo)
        BY <1>4
    <2>3. a \in Nat /\ Len(R) = a + t /\ Answered' = Len(R) - (t - 1)
        BY <1>4, <2>1, <2>2
    <2>4. (a + t) - (t - 1) = a + 1
        BY <2>3
    <2>5. QED
        BY <2>3, <2>4
<1>15. ASSUME NEW n \in DOMAIN rows
       PROVE  \E m \in 1..(a + 1) : R[m] = <<rows[n].kind, rows[n].of>>
    <2>1. CASE n \in DOMAIN save.rows
        <3>1. \E m \in 1..a : R[m] = <<save.rows[n].kind, save.rows[n].of>>
            BY <1>1, <1>2, <2>1 DEF Progress, a, R
        <3>2. QED
            BY <1>4, <1>12, <2>1, <3>1
    <2>2. CASE rows[n] = row
        <3>1. R[a + 1] = <<row.kind, row.of>>
            BY <1>3, <1>5
        <3>2. a + 1 \in 1..(a + 1)
            BY <1>4
        <3>3. QED
            BY <2>2, <3>1, <3>2
    <2>3. QED
        BY <1>12, <2>1, <2>2
<1>16. ASSUME NEW m \in 1..(a + 1)
       PROVE  HasRow(R[m])' \/ LeftOut(R[m])'
    <2>1. \A p : HasRow(p) => HasRow(p)'
        BY <1>10, <1>12 DEF HasRow
    <2>2. \A p : LeftOut(p) => LeftOut(p)'
        BY <1>10 DEF LeftOut
    <2>3. CASE m # a + 1
        <3>1. m \in 1..a
            BY <1>4, <2>3
        <3>2. HasRow(R[m]) \/ LeftOut(R[m])
            BY <1>1, <1>2, <3>1 DEF Progress, a, R
        <3>3. R' = R
            BY <1>10 DEF R
        <3>4. QED
            BY <2>1, <2>2, <3>2, <3>3
    <2>4. CASE m = a + 1
        <3>0. PICK p : p = q
            OBVIOUS
        <3>1. R[m] = p /\ R' = R
            BY <1>3, <1>10, <2>4, <3>0 DEF R
        <3>2. CASE ~ Skipped(row)
            <4>1. HasRow(p)'
                BY <1>5, <1>10, <1>13, <3>0, <3>2 DEF HasRow
            <4>2. QED
                BY <3>1, <4>1
        <3>3. CASE Skipped(row)
            <4>1. q[1] = "offer" /\ row.ref = 0
                BY <1>5, <3>3 DEF Skipped
            <4>2. LeftOut(q)
                <5> DEFINE links == save.snap.offer[q[2]].links
                <5>1. SUFFICES ASSUME links # << >>
                               PROVE  links[1] \notin IdsOf(save.snap.resource)
                    BY <4>1 DEF LeftOut
                <5>2. Target(q[1]) = "resource" /\ save.snap[q[1]][q[2]].links = links
                    BY <4>1 DEF Target
                <5>3. MappedRow("resource", links[1]) = 0
                    BY <1>6, <4>1, <5>1, <5>2
                <5>4. DOMAIN save.snap.resource = 1..Len(save.snap.resource)
                    BY <1>4, ListOf DEF Kind
                <5>5. /\ save.snap["resource"] = save.snap.resource
                      /\ links[1] \in IdsOf(save.snap["resource"]) =>
                            MappedRow("resource", links[1]) \in DOMAIN save.snap["resource"]
                    BY <1>1, <1>2, <4>1, <5>2, MapComplete DEF q
                <5>6. 0 \notin DOMAIN save.snap.resource
                    BY <5>4
                <5>7. QED
                    BY <5>3, <5>5, <5>6
            <4>3. QED
                BY <2>2, <3>0, <3>1, <4>2
        <3>4. QED
            BY <3>2, <3>3
    <2>5. QED
        BY <2>3, <2>4
<1>17. ASSUME NEW n \in DOMAIN rows, NEW o \in DOMAIN rows,
              rows[n].kind = rows[o].kind, rows[n].of = rows[o].of
       PROVE  n = o
    <2>1. ASSUME NEW e \in DOMAIN save.rows
          PROVE  ~ (save.rows[e].kind = row.kind /\ save.rows[e].of = row.of)
        <3>1. SUFFICES ASSUME save.rows[e].kind = row.kind, save.rows[e].of = row.of
                       PROVE  FALSE
            OBVIOUS
        <3>2. PICK m \in 1..a : R[m] = <<save.rows[e].kind, save.rows[e].of>>
            BY <1>1, <1>2, <2>1 DEF Progress, a, R
        <3>3. R[m] = R[a + 1]
            BY <1>3, <1>5, <3>1, <3>2
        <3>4. Len(save.todo) # 0
            BY <1>2, EmptySeq DEF Save
        <3>5. m \in 1..Len(R) /\ a + 1 \in 1..Len(R)
            BY <1>4, <3>4
        <3>6. m = a + 1
            BY <1>4, <3>3, <3>5, RequestsDiffer DEF R
        <3>7. QED
            BY <1>4, <3>2, <3>6
    <2>2. CASE n \in DOMAIN save.rows /\ o \in DOMAIN save.rows
        <3>1. save.rows[n].kind = save.rows[o].kind /\ save.rows[n].of = save.rows[o].of
            BY <1>12, <1>17, <2>2
        <3>2. QED
            BY <1>1, <1>2, <2>2, <3>1 DEF Progress
    <2>3. CASE n \in DOMAIN save.rows /\ o \notin DOMAIN save.rows
        BY <1>12, <1>17, <2>1, <2>3
    <2>4. CASE n \notin DOMAIN save.rows /\ o \in DOMAIN save.rows
        BY <1>12, <1>17, <2>1, <2>4
    <2>5. CASE n \notin DOMAIN save.rows /\ o \notin DOMAIN save.rows
        BY <1>12, <2>5
    <2>6. QED
        BY <2>2, <2>3, <2>4, <2>5
<1>18. Progress'
    <2>1. DistinctIds(save'.snap, save'.late)
        BY <1>4, <1>10
    <2>2. Requests(save'.snap) = R
        BY <1>10 DEF R
    <2>3. \A j \in DOMAIN save'.todo : save'.todo[j] = R[a + 1 + j]
        BY <1>3, <1>10
    <2>4. Answered' \in Nat
        BY <1>4, <1>14
    <2>5. \A m \in 1..Answered' : HasRow(R[m])' \/ LeftOut(R[m])'
        BY <1>14, <1>16
    <2>6. R' = R
        BY <1>10 DEF R
    <2>7. QED
        BY <1>10, <1>14, <1>15, <1>17, <2>1, <2>2, <2>3, <2>4, <2>5, <2>6 DEF Progress
<1>19. ASSUME q[1] \in {"offer", "catalog"}, row.ref # row.emb,
              Target(q[1]) \notin save.late
       PROVE  save.snap[q[1]][q[2]].links[1].padded
    <2> DEFINE links == save.snap[q[1]][q[2]].links
               t == Target(q[1])
               list == save.snap[t]
    <2>1. links # << >>
        BY <1>6, <1>8, <1>19
    <2>2. row.ref = MappedRow(t, links[1]) /\ row.emb = Find(list, links[1])
        BY <1>6, <1>7, <1>19, <2>1
    <2> HIDE DEF links
    <2>3. /\ t \in Kind /\ list \in Seq(Item)
          /\ links[1] \notin IdsOf(list) => MappedRow(t, links[1]) = 0
          /\ links[1] \in IdsOf(list) =>
                 /\ MappedRow(t, links[1]) \in DOMAIN list
                 /\ list[MappedRow(t, links[1])].id = links[1]
        BY <1>1, <1>2, <1>19, MapComplete DEF q
    <2>3a. t \notin save.late
        BY <1>19
    <2> HIDE DEF t
    <2>4. /\ links[1] \notin IdsOf(list) => Find(list, links[1]) = 0
          /\ links[1] \in IdsOf(list) =>
                 Find(list, links[1]) \in DOMAIN list /\ list[Find(list, links[1])].id = links[1]
        BY <2>3, FindFinds
    <2>5. Distinct(list)
        BY <1>4, <2>3, <2>3a DEF DistinctIds
    <2> HIDE DEF list
    <2>6. links[1].padded
        <3>1. SUFFICES ASSUME ~ links[1].padded
                       PROVE  MappedRow(t, links[1]) = Find(list, links[1])
            BY <1>19, <2>2 DEF list
        <3>2. CASE links[1] \notin IdsOf(list)
            BY <2>3, <2>4, <3>2 DEF list
        <3>3. CASE links[1] \in IdsOf(list)
            BY <2>3, <2>4, <2>5, <3>1, <3>3 DEF Distinct
        <3>4. QED
            BY <3>2, <3>3
    <2>7. QED
        BY <2>6 DEF links
<1>20. OneSource'
    <2>1. ASSUME NEW n \in DOMAIN rows,
                 rows[n].kind \in {"offer", "catalog"}, rows[n].ref # rows[n].emb,
                 Target(rows[n].kind) \notin save.late
          PROVE  save.snap[rows[n].kind][rows[n].of].links[1].padded
        <3>1. CASE n \in DOMAIN save.rows
            BY <1>2, <1>12, <2>1, <3>1 DEF OneSource
        <3>2. CASE rows[n] = row
            BY <1>5, <1>19, <2>1, <3>2
        <3>3. QED
            BY <1>12, <3>1, <3>2
    <2>2. QED
        BY <1>10, <2>1 DEF OneSource
<1>21. QED
    BY <1>11, <1>18, <1>20

LEMMA AnswerKeepsInv ==
    ASSUME IInv, SaveNext, save.todo # << >>
    PROVE  IInv'
<1>1. save' \in Save /\ Progress' /\ OneSource'
    BY AnswerKeepsProgress
<1>2. UNCHANGED <<step, shown, lists, form, edits, late>> /\ save.pc = "saving" /\ Draw
    BY DEF SaveNext
<1>3. save'.pc = "saving"
    BY DEF SaveNext, IInv, TypeOK, Save
<1>4. Idle'
    BY <1>3 DEF Idle
<1>5. QED
    BY <1>1, <1>2, <1>3, <1>4, DraftKept

--------------------------------------------------------------------------------
(* The theorems *)

LEMMA Stutter ==
    ASSUME IInv, UNCHANGED vars
    PROVE  IInv'
<1>1. /\ TypeOK /\ FormInv /\ Shows /\ IdsDistinct /\ EditFindsItsItem
      /\ Idle /\ Progress /\ OneSource
    BY DEF IInv
<1>2. Idle' /\ Progress' /\ OneSource' /\ IdsDistinct'
    <2>1. lists' = lists /\ save' = save /\ late' = late
        BY DEF vars
    <2>2. QED
        BY <1>1, <2>1, SaveKept, ListsKept
<1>3. TypeOK' /\ FormInv' /\ Shows' /\ EditFindsItsItem'
    BY <1>1 DEF vars, TypeOK, FormInv, Shows, CurrentProps, EditFindsItsItem
<1>4. QED
    BY <1>2, <1>3 DEF IInv

LEMMA Step == IInv /\ [Next]_vars => IInv'
<1> SUFFICES ASSUME IInv, [Next]_vars
             PROVE  IInv'
    OBVIOUS
<1>1. CASE ProvidersStep \/ CatalogsStep \/ ResourcesStep \/ OffersStep
    BY <1>1, PanelsKeepInv
<1>2. CASE NextStep \/ BackStep \/ Settle
    BY <1>2, PageKeepsInv
<1>3. CASE Publish
    BY <1>3, PublishKeepsInv
<1>4. CASE SaveNext
    BY <1>4, SuccessKeepsInv, AnswerKeepsInv
<1>5. CASE SaveFails
    BY <1>5, FailsKeepsInv
<1>6. CASE ResetAll
    BY <1>6, ResetKeepsInv
<1>7. CASE UNCHANGED vars
    BY <1>7, Stutter
<1>8. QED
    BY <1>1, <1>2, <1>3, <1>4, <1>5, <1>6, <1>7 DEF Next

LEMMA Invariance == Spec => []IInv
<1>1. Init => IInv
    BY Start
<1>2. IInv /\ [Next]_vars => IInv'
    BY Step
<1>3. QED
    BY <1>1, <1>2, PTL DEF Spec

\* Of every draft: the lists, the form and the attempt have their types, through
\* every edit, click and answer.
THEOREM TypeCorrect == Spec => []TypeOK
<1>1. IInv => TypeOK
    BY DEF IInv
<1>2. QED
    BY <1>1, Invariance, PTL

\* handleAdd lets no id typed without blanks into a list twice, however many
\* items are added, edited and removed, in panels that leave as well, as long as
\* none of these adds to the list after checking an older one.
THEOREM IdsAreDistinct == Spec => []IdsDistinct
<1>1. IInv => IdsDistinct
    BY DEF IInv
<1>2. QED
    BY <1>1, Invariance, PTL

\* While a form for an edit is open, editIdx is the index of the item that
\* startEdit opened, unless that item or one before it was removed meanwhile or a
\* leaving panel opened it from a list that had changed.
THEOREM EditFindsItem == Spec => []EditFindsItsItem
<1>1. IInv => EditFindsItsItem
    BY DEF IInv
<1>2. QED
    BY <1>1, Invariance, PTL

\* The map of row ids and the find in the lists lead handlePublish to one item,
\* for lists of any length, unless the id has blanks or a leaving panel has added
\* to the list looked up after checking an older one.
THEOREM SourcesAgree == Spec => []OneSource
<1>1. IInv => OneSource
    BY DEF IInv
<1>2. QED
    BY <1>1, Invariance, PTL

LEMMA SuccessIsComplete ==
    ASSUME IInv
    PROVE  SuccessSavesLinked
<1> SUFFICES ASSUME save.pc = "success"
             PROVE  SuccessSavesLinked
    BY DEF SuccessSavesLinked
<1>1. TypeOK /\ Progress
    BY DEF IInv
<1>2. /\ save.snap \in Lists /\ Len(save.todo) \in Nat
      /\ Answered \in Nat /\ Len(Requests(save.snap)) = Answered + Len(save.todo)
    BY <1>1, Attempt
<1>3. Len(Requests(save.snap)) = Answered
    <2>1. Len(save.todo) = 0
        BY <1>1 DEF Progress
    <2>2. QED
        BY <1>2, <2>1
<1>4. ASSUME NEW k \in SaveKind, NEW i \in 1..Size(save.snap, k)
      PROVE  HasRow(<<k, i>>) \/ LeftOut(<<k, i>>)
    <2>1. /\ Position(save.snap, k, i) \in 1..Answered
          /\ Requests(save.snap)[Position(save.snap, k, i)] = <<k, i>>
        BY <1>2, <1>3, RequestsAt
    <2>2. QED
        BY <1>1, <2>1 DEF Progress
<1>5. ASSUME NEW k \in SaveKind,
             NEW i \in DOMAIN save.snap[IF k = "publish" THEN "catalog" ELSE k]
      PROVE  LET list == save.snap[IF k = "publish" THEN "catalog" ELSE k]
                 rowsOf == {n \in DOMAIN save.rows :
                               save.rows[n].kind = k /\ save.rows[n].of = i}
             IN \/ \E n \in DOMAIN save.rows : rowsOf = {n}
                \/ /\ k = "offer" /\ rowsOf = {}
                   /\ list[i].links = << >>
                      \/ list[i].links[1] \notin IdsOf(save.snap.resource)
    <2> DEFINE l == IF k = "publish" THEN "catalog" ELSE k
               rowsOf == {n \in DOMAIN save.rows :
                             save.rows[n].kind = k /\ save.rows[n].of = i}
    <2>1. i \in 1..Size(save.snap, k)
        <3>1. l \in Kind
            BY DEF SaveKind, Kind
        <3>2. DOMAIN save.snap[l] = 1..Len(save.snap[l])
            BY <1>2, <3>1, ListOf
        <3>3. QED
            BY <3>2 DEF Size
    <2>2. CASE HasRow(<<k, i>>)
        <3>1. PICK n \in DOMAIN save.rows : save.rows[n].kind = k /\ save.rows[n].of = i
            BY <2>2 DEF HasRow
        <3>2. rowsOf = {n}
            BY <1>1, <3>1 DEF Progress
        <3>3. QED
            BY <3>2
    <2>3. CASE LeftOut(<<k, i>>) /\ ~ HasRow(<<k, i>>)
        <3>1. rowsOf = {}
            BY <2>3 DEF HasRow
        <3>2. /\ k = "offer"
              /\ \/ save.snap.offer[i].links = << >>
                 \/ save.snap.offer[i].links[1] \notin IdsOf(save.snap.resource)
            BY <2>3 DEF LeftOut
        <3>3. QED
            BY <3>1, <3>2
    <2>4. QED
        BY <1>4, <2>1, <2>2, <2>3
<1>6. QED
    BY <1>5 DEF SuccessSavesLinked, SaveKind

\* When the page says "Published successfully!", every item of the lists at the
\* click has its row and every catalog was published, each once, but for the
\* offers whose resource handlePublish did not find.
THEOREM SuccessIsWhole == Spec => []SuccessSavesLinked
<1>1. IInv => SuccessSavesLinked
    BY SuccessIsComplete
<1>2. QED
    BY <1>1, Invariance, PTL
=================================================================================
