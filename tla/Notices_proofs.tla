---------------------------- MODULE Notices_proofs ----------------------------
(***************************************************************************)
(* Proofs about Digest, Reminders and Chat, the parts that count how often *)
(* an FSO hears of an item or a due date and a user calls the assistant.   *)
(* For any numbers of items, FSOs and requests and any limit, whatever the *)
(* mail queue, the faults and the overlaps of a behaviour.  At the end,    *)
(* the types and the promises of all the services together.                *)
(***************************************************************************)
EXTENDS MCServices, Visits_proofs, Records_proofs, FiniteSetTheorems, TLAPS

(* One letter more, one letter less.                                       *)
Plus(B, letter) == B (+) SetToBag({letter})

LEMMA OneMore ==
  ASSUME NEW B, IsABag(B), NEW letter, NEW C, C = Plus(B, letter)
  PROVE  /\ IsABag(C) /\ BagToSet(C) = BagToSet(B) \cup {letter}
         /\ letter \notin BagToSet(B) => C[letter] = 1
         /\ \A x \in BagToSet(B) \ {letter} : C[x] = B[x]
  <1> DEFINE n(x) == (IF x \in DOMAIN B THEN B[x] ELSE 0) + (IF x = letter THEN 1 ELSE 0)
             D == DOMAIN B \cup {letter}
  <1>1. C = [x \in D |-> n(x)]
    BY DEF Plus, (+), SetToBag
  <1>2. \A x \in DOMAIN B : B[x] \in Nat /\ B[x] > 0
    BY DEF IsABag
  <1>3. \A x \in D : n(x) \in Nat /\ n(x) > 0
    BY <1>2
  <1>4. C \in [D -> {k \in Nat : k > 0}] /\ DOMAIN C = D /\ \A x \in D : C[x] = n(x)
    <2> HIDE DEF n, D
    <2> QED BY <1>1, <1>3
  <1>5. IsABag(C)
    BY <1>4 DEF IsABag
  <1>6. letter \notin DOMAIN B => C[letter] = 1
    <2>1. letter \in D /\ (letter \notin DOMAIN B => n(letter) = 1)
      OBVIOUS
    <2> HIDE DEF n, D
    <2> QED BY <1>4, <2>1
  <1>7. \A x \in DOMAIN B \ {letter} : C[x] = B[x]
    BY <1>2, <1>4
  <1> QED BY <1>4, <1>5, <1>6, <1>7 DEF BagToSet

LEMMA OneLess ==
  ASSUME NEW B, IsABag(B), NEW letter \in BagToSet(B), NEW C, C = B (-) SetToBag({letter})
  PROVE  /\ IsABag(C) /\ BagToSet(C) \subseteq BagToSet(B)
         /\ BagToSet(B) \ {letter} \subseteq BagToSet(C)
         /\ B[letter] = 1 => letter \notin BagToSet(C)
         /\ \A x \in BagToSet(C) \ {letter} : C[x] = B[x]
  <1> DEFINE n(x) == IF x = letter THEN B[x] - 1 ELSE B[x]
             D == {x \in DOMAIN B : n(x) > 0}
             F == [e \in DOMAIN B |-> IF e \in {letter} THEN B[e] - 1 ELSE B[e]]
  <1>1. \A x \in DOMAIN B : B[x] \in Nat /\ B[x] > 0
    BY DEF IsABag
  <1>2. C = [e \in {d \in DOMAIN F : F[d] > 0} |-> F[e]]
    <2>1. [e \in {letter} |-> 1] = SetToBag({letter})
      BY DEF SetToBag
    <2>2. F = [e \in DOMAIN B |-> IF e \in DOMAIN SetToBag({letter})
                                   THEN B[e] - SetToBag({letter})[e] ELSE B[e]]
      BY DEF SetToBag
    <2> QED BY <2>2 DEF (-)
  <1>3. {d \in DOMAIN F : F[d] > 0} = D /\ \A x \in D : F[x] = n(x)
    OBVIOUS
  <1>4. C = [x \in D |-> n(x)]
    <2> HIDE DEF F, n, D
    <2> QED BY <1>2, <1>3
  <1>5. \A x \in D : n(x) \in Nat /\ n(x) > 0
    BY <1>1
  <1>6. C \in [D -> {k \in Nat : k > 0}] /\ DOMAIN C = D /\ \A x \in D : C[x] = n(x)
    <2> HIDE DEF n, D
    <2> QED BY <1>4, <1>5
  <1>7. IsABag(C)
    BY <1>6 DEF IsABag
  <1>8. DOMAIN C \subseteq DOMAIN B /\ DOMAIN B \ {letter} \subseteq DOMAIN C
    BY <1>1, <1>6
  <1>9. B[letter] = 1 => letter \notin DOMAIN C
    BY <1>6
  <1>10. \A x \in DOMAIN C \ {letter} : C[x] = B[x]
    BY <1>6
  <1> QED BY <1>7, <1>8, <1>9, <1>10 DEF BagToSet

(* No item is in two digests on their way.                                 *)
Single(B) ==
  \A x, y \in BagToSet(B) :
    x.kind = "digest" /\ y.kind = "digest" /\ x.about \cap y.about # {} => x = y /\ B[x] = 1

(* A letter joins the queue.                                               *)
LEMMA Posted ==
  ASSUME NEW S, IsABag(outbox), BagToSet(outbox) \subseteq Letters({"mail", "digest"}, S),
         NEW letter \in Letters({"mail", "digest"}, S), NEW C, C = Plus(outbox, letter)
  PROVE  /\ IsABag(C) /\ BagToSet(C) = BagToSet(outbox) \cup {letter}
         /\ BagToSet(C) \subseteq Letters({"mail", "digest"}, S)
         /\ Single(outbox) /\ (letter.kind = "digest" =>
              \A x \in BagToSet(outbox) : x.kind = "digest" => x.about \cap letter.about = {})
              => Single(C)
  <1>1. /\ IsABag(C) /\ BagToSet(C) = BagToSet(outbox) \cup {letter}
        /\ letter \notin BagToSet(outbox) => C[letter] = 1
        /\ \A x \in BagToSet(outbox) \ {letter} : C[x] = outbox[x]
    BY OneMore
  <1>2. ASSUME Single(outbox), letter.kind = "digest" =>
                 \A x \in BagToSet(outbox) : x.kind = "digest" => x.about \cap letter.about = {}
        PROVE  Single(C)
    <2>1. SUFFICES ASSUME NEW x \in BagToSet(C), NEW y \in BagToSet(C),
                          x.kind = "digest", y.kind = "digest", x.about \cap y.about # {}
                   PROVE  x = y /\ C[x] = 1
      BY DEF Single
    <2>2. CASE x = letter \/ y = letter
      <3>1. x = letter /\ y = letter
        BY <1>1, <1>2, <2>1, <2>2
      <3>2. letter \notin BagToSet(outbox)
        BY <1>2, <2>1, <3>1
      <3> QED BY <1>1, <3>1, <3>2
    <2>3. CASE x # letter /\ y # letter
      BY <1>1, <1>2, <2>1, <2>3 DEF Single
    <2> QED BY <2>2, <2>3
  <1> QED BY <1>1, <1>2

(* A letter leaves the queue, for good or to be tried again.               *)
LEMMA Taken ==
  ASSUME NEW S, IsABag(outbox), BagToSet(outbox) \subseteq Letters({"mail", "digest"}, S),
         NEW letter \in BagToSet(outbox), Answered(letter)
  PROVE  /\ IsABag(outbox') /\ BagToSet(outbox') \subseteq BagToSet(outbox)
         /\ BagToSet(outbox) \ {letter} \subseteq BagToSet(outbox')
         /\ Single(outbox) => Single(outbox)'
         /\ Single(outbox) /\ letter.kind = "digest" =>
              \A x \in BagToSet(outbox') : x.kind = "digest" => x.about \cap letter.about = {}
  <1>1. outbox' = outbox (-) SetToBag({letter})
    BY DEF Answered
  <1>2. /\ IsABag(outbox') /\ BagToSet(outbox') \subseteq BagToSet(outbox)
        /\ BagToSet(outbox) \ {letter} \subseteq BagToSet(outbox')
        /\ outbox[letter] = 1 => letter \notin BagToSet(outbox')
        /\ \A x \in BagToSet(outbox') \ {letter} : outbox'[x] = outbox[x]
    BY <1>1, OneLess
  <1>3. ASSUME Single(outbox), NEW x \in BagToSet(outbox'), x.kind = "digest", letter.kind = "digest"
        PROVE  x.about \cap letter.about = {}
    <2>1. SUFFICES ASSUME x.about \cap letter.about # {} PROVE FALSE
      OBVIOUS
    <2>2. x = letter /\ outbox[letter] = 1
      BY <1>2, <1>3, <2>1 DEF Single
    <2> QED BY <1>2, <2>2
  <1>4. ASSUME Single(outbox) PROVE Single(outbox)'
    <2>1. SUFFICES ASSUME NEW x \in BagToSet(outbox'), NEW y \in BagToSet(outbox'),
                          x.kind = "digest", y.kind = "digest", x.about \cap y.about # {}
                   PROVE  x = y /\ outbox'[x] = 1
      BY DEF Single
    <2>2. x = y /\ outbox[x] = 1
      BY <1>2, <1>4, <2>1 DEF Single
    <2>3. x # letter
      BY <1>2, <2>2
    <2> QED BY <1>2, <2>2, <2>3
  <1> QED BY <1>2, <1>3, <1>4

LEMMA TriedAgain ==
  ASSUME NEW S, IsABag(outbox), BagToSet(outbox) \subseteq Letters({"mail", "digest"}, S),
         NEW letter \in BagToSet(outbox), Unanswered(letter)
  PROVE  \/ Answered(letter) /\ letter.retries = 4
         \/ /\ IsABag(outbox') /\ BagToSet(outbox') \subseteq Letters({"mail", "digest"}, S)
            /\ BagToSet(outbox) \ {letter} \subseteq BagToSet(outbox')
            /\ \A x \in BagToSet(outbox') :
                 x \in BagToSet(outbox) \/ (x.kind = letter.kind /\ x.about = letter.about)
            /\ \E x \in BagToSet(outbox') : x.kind = letter.kind /\ x.about = letter.about
            /\ Single(outbox) => Single(outbox)'
            /\ letter.retries < 4
  <1>1. letter.retries \in 0..4
    BY DEF Letters, MaxAttempts
  <1>2. CASE letter.retries = 4
    BY <1>2 DEF Unanswered, Answered, MaxAttempts
  <1>3. CASE letter.retries < 4
    <2>1. PICK rest : rest = outbox (-) SetToBag({letter})
      OBVIOUS
    <2>2. PICK again : again = [letter EXCEPT !.retries = letter.retries + 1]
      OBVIOUS
    <2>3. outbox' = Plus(rest, again)
      BY <1>1, <1>3, <2>1, <2>2 DEF Unanswered, MaxAttempts, Plus
    <2>4. /\ again \in Letters({"mail", "digest"}, S)
          /\ again.kind = letter.kind /\ again.about = letter.about
      BY <1>1, <1>3, <2>2 DEF Letters, MaxAttempts
    <2>5. /\ IsABag(rest) /\ BagToSet(rest) \subseteq BagToSet(outbox)
          /\ BagToSet(outbox) \ {letter} \subseteq BagToSet(rest)
          /\ outbox[letter] = 1 => letter \notin BagToSet(rest)
          /\ \A x \in BagToSet(rest) \ {letter} : rest[x] = outbox[x]
      BY <2>1, OneLess
    <2>6. /\ IsABag(outbox') /\ BagToSet(outbox') = BagToSet(rest) \cup {again}
          /\ again \notin BagToSet(rest) => outbox'[again] = 1
          /\ \A x \in BagToSet(rest) \ {again} : outbox'[x] = rest[x]
      BY <2>3, <2>5, OneMore
    <2>7. ASSUME Single(outbox) PROVE Single(outbox)'
      <3>1. SUFFICES ASSUME NEW x \in BagToSet(outbox'), NEW y \in BagToSet(outbox'),
                            x.kind = "digest", y.kind = "digest", x.about \cap y.about # {}
                     PROVE  x = y /\ outbox'[x] = 1
        BY DEF Single
      <3>2. ASSUME NEW z \in BagToSet(rest), z.kind = "digest", letter.kind = "digest"
            PROVE  z.about \cap letter.about = {}
        <4>1. SUFFICES ASSUME z.about \cap letter.about # {} PROVE FALSE
          OBVIOUS
        <4>2. z = letter /\ outbox[letter] = 1
          BY <2>5, <2>7, <3>2, <4>1 DEF Single
        <4> QED BY <2>5, <3>2, <4>2
      <3>3. CASE x = again \/ y = again
        <4>1. x = again /\ y = again
          BY <2>4, <2>6, <3>1, <3>2, <3>3
        <4>2. again \notin BagToSet(rest)
          BY <2>4, <3>1, <3>2, <4>1
        <4> QED BY <2>6, <4>1, <4>2
      <3>4. CASE x # again /\ y # again
        <4>1. x \in BagToSet(rest) /\ y \in BagToSet(rest)
          BY <2>6, <3>4
        <4>2. x = y /\ outbox[x] = 1
          BY <2>5, <2>7, <3>1, <4>1 DEF Single
        <4>3. x # letter
          BY <2>5, <4>1, <4>2
        <4> QED BY <2>5, <2>6, <3>4, <4>1, <4>2, <4>3
      <3> QED BY <3>3, <3>4
    <2>8. BagToSet(outbox') \subseteq Letters({"mail", "digest"}, S)
      BY <2>4, <2>5, <2>6
    <2>9. \A x \in BagToSet(outbox') :
            x \in BagToSet(outbox) \/ (x.kind = letter.kind /\ x.about = letter.about)
      BY <2>4, <2>5, <2>6
    <2>10. again \in BagToSet(outbox') /\ BagToSet(outbox) \ {letter} \subseteq BagToSet(outbox')
      BY <2>5, <2>6
    <2> QED BY <1>3, <2>4, <2>6, <2>7, <2>8, <2>9, <2>10
  <1> QED BY <1>1, <1>2, <1>3

-----------------------------------------------------------------------------
Announcements == [op : {"announce"}, at : {"notify"}, item : Items, new : {{}}]
DigestRuns ==
  [op : {"digest"}, at : {"count", "send", "mark"}, item : {0}, new : SUBSET Items]

DigestTypes ==
  /\ req \in [Requests -> {Idle} \cup Announcements \cup DigestRuns]
  /\ DigestOK

(* A run counts our items, and unless runs overlap none that an earlier    *)
(* digest has counted.                                                     *)
CountsOurs ==
  \A r \in Requests : req[r].op = "digest" => \A n \in req[r].new : holder[n] = "us"

RunsApart ==
  "retry" \notin mix =>
    /\ \A r, q \in Requests : req[r].op = "digest" /\ req[q].op = "digest" => r = q
    /\ \A r \in Requests : At(r, "digest", "send") => \A n \in req[r].new : n > Since

(* An item some digest has told of, or one on its way does, is not counted *)
(* again: the digest is marked as sent, or about to be.                    *)
Calm == mix \cap {"stop", "retry", "again"} = {}

Announced(n) ==
  \/ news[n].digest > 0
  \/ \E letter \in BagToSet(outbox) : letter.kind = "digest" /\ n \in letter.about

Marking == \E r \in Requests : At(r, "digest", "mark")

Sealed ==
  /\ Single(outbox)
  /\ \A letter \in BagToSet(outbox) : letter.kind = "digest" =>
       \A n \in letter.about : news[n].digest = 0
  /\ \A n \in Items : news[n].digest <= 1

CountedOnce ==
  /\ \A n \in Items : Announced(n) => holder[n] = "us" /\ (Marking \/ (~first /\ n <= marker))
  /\ \A r \in Requests : At(r, "digest", "send") => \A n \in req[r].new : ~Announced(n)
  /\ Sealed

DigestInv ==
  DigestTypes /\ CountsOurs /\ RunsApart /\ (Calm => CountedOnce)

LEMMA NoMail ==
  IsABag(EmptyBag) /\ BagToSet(EmptyBag) = {}
  <1>1. EmptyBag \in [{} -> {n \in Nat : n > 0}] /\ DOMAIN EmptyBag = {}
    BY DEF EmptyBag, SetToBag
  <1> QED BY <1>1 DEF IsABag, BagToSet

LEMMA DigestStarts ==
  ASSUME HandlersInit, DigestInit
  PROVE  DigestInv
  <1>1. outbox = EmptyBag /\ (\A r \in Requests : req[r] = Idle)
        /\ req \in [Requests -> {Idle} \cup Announcements \cup DigestRuns]
    BY DEF HandlersInit, DigestInit, MailInit
  <1>2. news \in [Items -> [mail : 0..1, digest : 0..2]] /\ \A n \in Items : news[n].digest = 0
    BY DEF DigestInit
  <1>3. DigestOK
    <2>1. made \in 0..MaxItems /\ \A n \in Items : holder[n] # "none" <=> n <= made
      BY DigestAssumption DEF DigestInit, Items
    <2> QED BY <1>1, <1>2, <2>1, NoMail DEF DigestInit, DigestOK
  <1>4. \A r \in Requests : req[r].op # "digest" /\ ~At(r, "digest", "send")
    BY <1>1 DEF Idle, At
  <1>5. CountedOnce
    BY <1>1, <1>2, <1>4, NoMail DEF CountedOnce, Announced, Sealed, Single
  <1> QED BY <1>1, <1>3, <1>4, <1>5 DEF DigestInv, DigestTypes, CountsOurs, RunsApart

LEMMA DigestShape ==
  ASSUME DigestInv, NEW r \in Requests, req[r] # Idle
  PROVE  /\ req[r] \in Announcements \/ req[r] \in DigestRuns
         /\ req[r].op = "announce" => req[r] \in Announcements /\ req[r].item \in Items
         /\ req[r].op = "digest" => req[r] \in DigestRuns /\ req[r].new \subseteq Items
  BY DEF DigestInv, DigestTypes, Announcements, DigestRuns

LEMMA DigestGoes ==
  ASSUME DigestInv, NEW r \in Requests, NEW q \in {Idle} \cup Announcements \cup DigestRuns,
         req' = [req EXCEPT ![r] = q]
  PROVE  /\ req' \in [Requests -> {Idle} \cup Announcements \cup DigestRuns]
         /\ req'[r] = q /\ \A x \in Requests \ {r} : req'[x] = req[x]
  BY DEF DigestInv, DigestTypes

(* Nothing happens to the runs, and no digest tells of more items.         *)
LEMMA DigestStands ==
  ASSUME DigestInv, mix' = mix, DigestTypes', UNCHANGED <<first, marker, dayAgo>>,
         \A n \in Items : holder[n] = "us" => holder'[n] = "us",
         \A r \in Requests : req'[r].op = "digest" \/ req[r].op = "digest" => req'[r] = req[r],
         \A n \in Items : Announced(n)' => Announced(n),
         Calm => Sealed'
  PROVE  DigestInv'
  <1>1. CountsOurs'
    <2>1. ASSUME NEW r \in Requests, req'[r].op = "digest", NEW n \in req'[r].new
          PROVE  holder'[n] = "us"
      <3>1. req'[r] = req[r] /\ req[r] # Idle /\ n \in Items
        BY <2>1, DigestShape DEF Idle
      <3> QED BY <2>1, <3>1 DEF DigestInv, CountsOurs
    <2> QED BY <2>1 DEF CountsOurs
  <1>2. Since' = Since /\ \A r \in Requests : \A s \in {"send", "mark"} :
          At(r, "digest", s)' <=> At(r, "digest", s)
    BY DEF Since, At
  <1>3. RunsApart'
    BY <1>2 DEF DigestInv, RunsApart, At
  <1>4. Marking' <=> Marking
    BY <1>2 DEF Marking
  <1>5. ASSUME Calm PROVE CountedOnce'
    <2>1. ASSUME NEW n \in Items, Announced(n)'
          PROVE  holder'[n] = "us" /\ (Marking' \/ (~first' /\ n <= marker'))
      BY <1>4, <1>5, <2>1 DEF DigestInv, CountedOnce
    <2>2. ASSUME NEW r \in Requests, At(r, "digest", "send")', NEW n \in req'[r].new
          PROVE  ~Announced(n)'
      <3>1. req'[r] = req[r] /\ At(r, "digest", "send") /\ n \in Items
        BY <2>2, DigestShape DEF At, Idle
      <3> QED BY <1>5, <2>2, <3>1 DEF DigestInv, CountedOnce
    <2> QED BY <1>5, <2>1, <2>2 DEF CountedOnce
  <1> QED BY <1>1, <1>3, <1>5 DEF DigestInv, Calm

LEMMA SealedStays ==
  ASSUME DigestInv, UNCHANGED <<outbox, news>>
  PROVE  (Calm => Sealed') /\ \A n \in Items : Announced(n)' <=> Announced(n)
  BY DEF DigestInv, CountedOnce, Sealed, Single, Announced

LEMMA CreateItemStep ==
  ASSUME DigestInv, NEW r \in Requests, NEW who \in {"us", "others"}, CreateItem(r, who)
  PROVE  /\ DigestInv' /\ made \in Nat /\ made + 1 \in Items /\ made' = made + 1
         /\ UNCHANGED <<mix, daily, first, marker, due, dayAgo, today, news, outbox>>
         /\ req[r] = Idle /\ \A x \in Requests \ {r} : req'[x] = req[x]
         /\ req'[r].op = "announce" /\ req'[r].item = made + 1
         /\ \A n \in Items \ {made + 1} : holder'[n] = holder[n]
         /\ holder[made + 1] = "none"
  <1> DEFINE q == [op |-> "announce", at |-> "notify", item |-> made + 1, new |-> {}]
  <1>1. /\ req' = [req EXCEPT ![r] = q] /\ req[r] = Idle /\ made' = made + 1
        /\ holder' = [holder EXCEPT ![made + 1] = who] /\ made < MaxItems
        /\ UNCHANGED <<mix, daily, first, marker, due, dayAgo, today, news, outbox>>
    BY DEF CreateItem, Begin
  <1>2. made \in Nat /\ made + 1 \in Items /\ made + 1 \in 0..MaxItems
    BY <1>1, DigestAssumption DEF DigestInv, DigestTypes, DigestOK, Items
  <1>3. q \in Announcements /\ q.op = "announce" /\ q.item = made + 1
    BY <1>2 DEF Announcements
  <1> HIDE DEF q
  <1>4. /\ req' \in [Requests -> {Idle} \cup Announcements \cup DigestRuns]
        /\ req'[r] = q /\ \A x \in Requests \ {r} : req'[x] = req[x]
    BY <1>1, <1>3, DigestGoes
  <1>5. /\ holder' \in [Items -> {"none", "us", "others"}] /\ holder[made + 1] = "none"
        /\ holder'[made + 1] # "none" /\ \A n \in Items \ {made + 1} : holder'[n] = holder[n]
    <2>1. made + 1 \in Items /\ ~(made + 1 <= made)
      BY <1>2
    <2> QED BY <1>1, <2>1 DEF DigestInv, DigestTypes, DigestOK
  <1>6. \A n \in Items : holder'[n] # "none" <=> n <= made'
    <2>1. \A n \in Items : n \in Nat /\ (holder[n] # "none" <=> n <= made)
      BY DigestAssumption DEF DigestInv, DigestTypes, DigestOK, Items
    <2> QED BY <1>1, <1>2, <1>5, <2>1
  <1>7. DigestOK'
    <2>1. made' \in 0..MaxItems /\ marker' \in 0..made' /\ dayAgo' \in 0..today' /\ today' \in 0..made'
      BY <1>1, <1>2 DEF DigestInv, DigestTypes, DigestOK
    <2> QED BY <1>1, <1>5, <1>6, <2>1 DEF DigestInv, DigestTypes, DigestOK
  <1>8. DigestTypes'
    BY <1>4, <1>7 DEF DigestTypes
  <1>9. \A x \in Requests : req'[x].op = "digest" \/ req[x].op = "digest" => req'[x] = req[x]
    BY <1>1, <1>3, <1>4 DEF Idle
  <1>10. \A n \in Items : holder[n] = "us" => holder'[n] = "us"
    BY <1>5
  <1>11. (Calm => Sealed') /\ \A n \in Items : Announced(n)' => Announced(n)
    BY <1>1, SealedStays
  <1>12. DigestInv'
    BY <1>1, <1>8, <1>9, <1>10, <1>11, DigestStands
  <1> QED BY <1>1, <1>2, <1>3, <1>4, <1>5, <1>12

LEMMA ReassignStep ==
  ASSUME DigestInv, NEW r \in Requests, NEW n \in Items, Reassign(r, n)
  PROVE  /\ DigestInv'
         /\ UNCHANGED <<mix, made, daily, first, marker, due, dayAgo, today, news, outbox>>
         /\ req[r] = Idle /\ \A x \in Requests \ {r} : req'[x] = req[x]
         /\ req'[r].op = "announce" /\ req'[r].item = n /\ req'[r].at = "notify"
         /\ holder[n] = "others" /\ \A m \in Items \ {n} : holder'[m] = holder[m]
  <1> DEFINE q == [op |-> "announce", at |-> "notify", item |-> n, new |-> {}]
  <1>1. /\ req' = [req EXCEPT ![r] = q] /\ req[r] = Idle /\ holder[n] = "others"
        /\ holder' = [holder EXCEPT ![n] = "us"]
        /\ UNCHANGED <<mix, made, daily, first, marker, due, dayAgo, today, news, outbox>>
    BY DEF Reassign, Begin, UpdateAssignedTo
  <1>2. q \in Announcements /\ q.op = "announce" /\ q.item = n /\ q.at = "notify"
    BY DEF Announcements
  <1> HIDE DEF q
  <1>3. /\ req' \in [Requests -> {Idle} \cup Announcements \cup DigestRuns]
        /\ req'[r] = q /\ \A x \in Requests \ {r} : req'[x] = req[x]
    BY <1>1, <1>2, DigestGoes
  <1>4. /\ holder' \in [Items -> {"none", "us", "others"}]
        /\ holder'[n] = "us" /\ \A m \in Items \ {n} : holder'[m] = holder[m]
    BY <1>1 DEF DigestInv, DigestTypes, DigestOK
  <1>5. DigestOK'
    BY <1>1, <1>4 DEF DigestInv, DigestTypes, DigestOK
  <1>6. DigestTypes'
    BY <1>3, <1>5 DEF DigestTypes
  <1>7. \A x \in Requests : req'[x].op = "digest" \/ req[x].op = "digest" => req'[x] = req[x]
    BY <1>1, <1>2, <1>3 DEF Idle
  <1>8. (Calm => Sealed') /\ \A m \in Items : Announced(m)' => Announced(m)
    BY <1>1, SealedStays
  <1>9. DigestInv'
    BY <1>1, <1>4, <1>6, <1>7, <1>8, DigestStands
  <1> QED BY <1>1, <1>2, <1>3, <1>4, <1>9

LEMMA NotifyItemStep ==
  ASSUME DigestInv, NEW r \in Requests, NotifyActionItemAssigned(r)
  PROVE  /\ DigestInv'
         /\ UNCHANGED <<mix, holder, made, daily, first, marker, due, dayAgo, today, news>>
         /\ At(r, "announce", "notify") /\ req[r] # Idle /\ req'[r] = Idle
         /\ \A x \in Requests \ {r} : req'[x] = req[x]
         /\ BagToSet(outbox) \subseteq BagToSet(outbox')
         /\ outbox' = outbox \/ \E letter \in BagToSet(outbox') : req[r].item \in letter.about
  <1>1. /\ At(r, "announce", "notify") /\ req[r] # Idle /\ req' = [req EXCEPT ![r] = Idle]
        /\ UNCHANGED <<mix, holder, made, daily, first, marker, due, dayAgo, today, news>>
    BY DEF NotifyActionItemAssigned, Done, At, Idle
  <1>2. /\ req' \in [Requests -> {Idle} \cup Announcements \cup DigestRuns]
        /\ req'[r] = Idle /\ \A x \in Requests \ {r} : req'[x] = req[x]
    BY <1>1, DigestGoes
  <1>3. \A x \in Requests : req'[x].op = "digest" \/ req[x].op = "digest" => req'[x] = req[x]
    BY <1>1, <1>2 DEF At, Idle
  <1>4. req[r].item \in Items
    BY <1>1, DigestShape DEF At
  <1>5. CASE outbox' = outbox
    <2>1. DigestTypes'
      BY <1>1, <1>2, <1>5 DEF DigestInv, DigestTypes, DigestOK
    <2>2. (Calm => Sealed') /\ \A m \in Items : Announced(m)' => Announced(m)
      BY <1>1, <1>5, SealedStays
    <2>3. DigestInv'
      BY <1>1, <1>3, <2>1, <2>2, DigestStands
    <2> QED BY <1>1, <1>2, <1>5, <2>3
  <1>6. CASE SendToQueue(Letter("mail", {req[r].item}))
    <2>1. PICK letter : letter = Letter("mail", {req[r].item})
      OBVIOUS
    <2>2. /\ letter \in Letters({"mail", "digest"}, Items) /\ letter.kind = "mail"
          /\ req[r].item \in letter.about
      BY <1>4, <2>1 DEF Letter, Letters, MaxAttempts
    <2>3. outbox' = Plus(outbox, letter)
      BY <1>6, <2>1 DEF SendToQueue, Plus
    <2>4. IsABag(outbox) /\ BagToSet(outbox) \subseteq Letters({"mail", "digest"}, Items)
      BY DEF DigestInv, DigestTypes, DigestOK
    <2>5. /\ IsABag(outbox') /\ BagToSet(outbox') = BagToSet(outbox) \cup {letter}
          /\ BagToSet(outbox') \subseteq Letters({"mail", "digest"}, Items)
          /\ Single(outbox) => Single(outbox)'
      <3>1. PICK C : C = outbox'
        OBVIOUS
      <3>2. /\ IsABag(C) /\ BagToSet(C) = BagToSet(outbox) \cup {letter}
            /\ BagToSet(C) \subseteq Letters({"mail", "digest"}, Items)
            /\ Single(outbox) => Single(C)
        BY <2>2, <2>3, <2>4, <3>1, Posted
      <3> QED BY <3>1, <3>2 DEF Single
    <2>6. DigestTypes'
      BY <1>1, <1>2, <2>5 DEF DigestInv, DigestTypes, DigestOK
    <2>7. \A m \in Items : Announced(m)' => Announced(m)
      BY <1>1, <2>2, <2>5 DEF Announced
    <2>8. Calm => Sealed'
      BY <1>1, <2>2, <2>5 DEF DigestInv, CountedOnce, Sealed
    <2>9. DigestInv'
      BY <1>1, <1>3, <2>6, <2>7, <2>8, DigestStands
    <2> QED BY <1>1, <1>2, <2>2, <2>5, <2>9
  <1> QED BY <1>5, <1>6 DEF NotifyActionItemAssigned

(* What the news become when a letter arrives.                             *)
LEMMA NewsTold ==
  ASSUME DigestOK, NEW letter \in BagToSet(outbox),
         news' = [n \in Items |->
              IF n \notin letter.about THEN news[n]
              ELSE IF letter.kind = "mail"
                THEN [news[n] EXCEPT !.mail = AddOne(news[n].mail, 1)]
                ELSE [news[n] EXCEPT !.digest = AddOne(news[n].digest, 2)]]
  PROVE  /\ news' \in [Items -> [mail : 0..1, digest : 0..2]]
         /\ \A n \in Items \ letter.about : news'[n] = news[n]
         /\ \A n \in letter.about : news'[n].mail > 0 \/ news'[n].digest > 0
         /\ letter.kind = "mail" => \A n \in Items : news'[n].digest = news[n].digest
         /\ \A n \in letter.about : news[n].digest = 0 => news'[n].digest <= 1
  <1>1. /\ letter.kind \in {"mail", "digest"} /\ letter.about \subseteq Items
        /\ news \in [Items -> [mail : 0..1, digest : 0..2]]
    BY DEF DigestOK, Letters
  <1>2. ASSUME NEW n \in letter.about, letter.kind = "mail"
        PROVE  /\ news'[n] \in [mail : 0..1, digest : 0..2]
               /\ news'[n].mail > 0 /\ news'[n].digest = news[n].digest
    <2>1. news[n].mail \in 0..1 /\ news[n].digest \in 0..2 /\ n \in Items
      BY <1>1
    <2>2. AddOne(news[n].mail, 1) = 1
      BY <2>1 DEF AddOne
    <2>3. news'[n] = [news[n] EXCEPT !.mail = 1]
      BY <1>1, <1>2, <2>1, <2>2
    <2>4. news[n] = [mail |-> news[n].mail, digest |-> news[n].digest]
      BY <1>1, <2>1
    <2>5. news'[n] = [mail |-> 1, digest |-> news[n].digest]
      BY <2>3, <2>4
    <2> QED BY <2>1, <2>5
  <1>3. ASSUME NEW n \in letter.about, letter.kind = "digest"
        PROVE  /\ news'[n] \in [mail : 0..1, digest : 0..2]
               /\ news'[n].digest > 0 /\ (news[n].digest = 0 => news'[n].digest <= 1)
    <2>1. news[n].mail \in 0..1 /\ news[n].digest \in 0..2 /\ n \in Items
      BY <1>1
    <2>2. PICK k : k = AddOne(news[n].digest, 2)
      OBVIOUS
    <2>3. k \in 1..2 /\ (news[n].digest = 0 => k = 1)
      BY <2>1, <2>2 DEF AddOne
    <2>4. news'[n] = [news[n] EXCEPT !.digest = k]
      BY <1>1, <1>3, <2>1, <2>2
    <2>5. news[n] = [mail |-> news[n].mail, digest |-> news[n].digest]
      BY <1>1, <2>1
    <2>6. news'[n] = [mail |-> news[n].mail, digest |-> k]
      BY <2>4, <2>5
    <2> QED BY <2>1, <2>3, <2>6
  <1>4. \A n \in Items \ letter.about : news'[n] = news[n]
    OBVIOUS
  <1>5. \A n \in Items : news'[n] \in [mail : 0..1, digest : 0..2]
    BY <1>1, <1>2, <1>3, <1>4
  <1>6. news' = [n \in Items |-> news'[n]]
    OBVIOUS
  <1>7. news' \in [Items -> [mail : 0..1, digest : 0..2]]
    BY <1>5, <1>6
  <1>8. letter.kind = "mail" => \A n \in Items : news'[n].digest = news[n].digest
    BY <1>2, <1>4
  <1>9. \A n \in letter.about : news[n].digest = 0 => news'[n].digest <= 1
    <2>1. ASSUME NEW n \in letter.about, news[n].digest = 0, letter.kind = "mail"
          PROVE  news'[n].digest <= 1
      <3>1. news'[n].digest = 0
        BY <1>1, <1>8, <2>1
      <3> QED BY <3>1
    <2> QED BY <1>1, <1>3, <2>1
  <1>10. \A n \in letter.about : news'[n].mail > 0 \/ news'[n].digest > 0
    BY <1>1, <1>2, <1>3
  <1> QED BY <1>4, <1>7, <1>8, <1>9, <1>10

(* What becomes of a letter that the queue posts.                          *)
LEMMA Delivered ==
  ASSUME DigestInv, NEW letter \in BagToSet(outbox), DeliverMail(letter)
  PROVE  /\ UNCHANGED <<mix, req, holder, made, daily, first, marker, due, dayAgo, today>>
         /\ IsABag(outbox') /\ BagToSet(outbox') \subseteq Letters({"mail", "digest"}, Items)
         /\ BagToSet(outbox) \ {letter} \subseteq BagToSet(outbox')
         /\ \A x \in BagToSet(outbox') :
              x \in BagToSet(outbox) \/ (x.kind = letter.kind /\ x.about = letter.about)
         /\ Single(outbox) => Single(outbox)'
         /\ \/ /\ HandleSendTask(letter)
               /\ news' = [n \in Items |->
                    IF n \notin letter.about THEN news[n]
                    ELSE IF letter.kind = "mail"
                      THEN [news[n] EXCEPT !.mail = AddOne(news[n].mail, 1)]
                      ELSE [news[n] EXCEPT !.digest = AddOne(news[n].digest, 2)]]
            \/ /\ news' = news
               /\ \/ "astray" \in mix \/ letter.retries = 4
                  \/ \E x \in BagToSet(outbox') : x.about = letter.about
  <1>1. /\ IsABag(outbox) /\ BagToSet(outbox) \subseteq Letters({"mail", "digest"}, Items)
        /\ letter.retries \in 0..4
    BY DEF DigestInv, DigestTypes, DigestOK, Letters, MaxAttempts
  <1>2. Answered(letter) \/ Unanswered(letter)
    BY DEF DeliverMail, HandleSendTask, HandleSendTaskFails
  <1>3. /\ IsABag(outbox') /\ BagToSet(outbox') \subseteq Letters({"mail", "digest"}, Items)
        /\ BagToSet(outbox) \ {letter} \subseteq BagToSet(outbox')
        /\ \A x \in BagToSet(outbox') :
             x \in BagToSet(outbox) \/ (x.kind = letter.kind /\ x.about = letter.about)
        /\ Single(outbox) => Single(outbox)'
    <2>1. CASE Answered(letter)
      BY <1>1, <2>1, Taken
    <2>2. CASE Unanswered(letter)
      BY <1>1, <2>1, <2>2, TriedAgain
    <2> QED BY <1>2, <2>1, <2>2
  <1>4. CASE HandleSendTaskFails(letter) /\ news' = news
    <2>1. ASSUME "astray" \notin mix, letter.retries # 4
          PROVE  \E x \in BagToSet(outbox') : x.about = letter.about
      <3>1. Unanswered(letter)
        BY <1>1, <1>4, <2>1 DEF HandleSendTaskFails, DeadLetter
      <3> QED BY <1>1, <2>1, <3>1, TriedAgain
    <2> QED BY <1>3, <1>4, <2>1 DEF DeliverMail
  <1> QED BY <1>3, <1>4 DEF DeliverMail

LEMMA DeliverStep ==
  ASSUME DigestInv, NEW letter \in BagToSet(outbox), DeliverMail(letter)
  PROVE  DigestInv'
  <1>1. letter.kind \in {"mail", "digest"} /\ letter.about \subseteq Items /\ DigestOK
    BY DEF DigestInv, DigestTypes, DigestOK, Letters
  <1>2. news' \in [Items -> [mail : 0..1, digest : 0..2]]
    BY <1>1, Delivered, NewsTold DEF DigestOK
  <1>3. DigestTypes'
    BY <1>2, Delivered DEF DigestInv, DigestTypes, DigestOK
  <1>4. ASSUME NEW n \in Items, Announced(n)' PROVE Announced(n)
    <2>1. CASE news'[n].digest > 0
      <3>1. news'[n] = news[n] \/ (n \in letter.about /\ letter.kind = "digest")
              \/ news'[n].digest = news[n].digest
        BY <1>1, Delivered, NewsTold
      <3> QED BY <2>1, <3>1 DEF Announced
    <2>2. CASE \E x \in BagToSet(outbox') : x.kind = "digest" /\ n \in x.about
      BY <2>2, Delivered DEF Announced
    <2> QED BY <1>4, <2>1, <2>2 DEF Announced
  <1>5. ASSUME Calm PROVE Sealed'
    <2>1. Sealed
      BY <1>5 DEF DigestInv, CountedOnce
    <2>2. Single(outbox)'
      BY <2>1, Delivered DEF Sealed
    <2>3. CASE news' = news
      <3>1. ASSUME NEW x \in BagToSet(outbox'), x.kind = "digest", NEW n \in x.about
            PROVE  news'[n].digest = 0
        <4>1. \E y \in BagToSet(outbox) : y.kind = "digest" /\ n \in y.about
          BY <3>1, Delivered
        <4> QED BY <2>1, <2>3, <4>1 DEF Sealed
      <3> QED BY <2>1, <2>2, <2>3, <3>1 DEF Sealed
    <2>4. CASE /\ HandleSendTask(letter)
               /\ news' = [n \in Items |->
                    IF n \notin letter.about THEN news[n]
                    ELSE IF letter.kind = "mail"
                      THEN [news[n] EXCEPT !.mail = AddOne(news[n].mail, 1)]
                      ELSE [news[n] EXCEPT !.digest = AddOne(news[n].digest, 2)]]
      <3>1. Answered(letter)
        BY <1>5, <2>4 DEF HandleSendTask, Calm
      <3>2. /\ BagToSet(outbox') \subseteq BagToSet(outbox)
            /\ letter.kind = "digest" =>
                 \A x \in BagToSet(outbox') : x.kind = "digest" => x.about \cap letter.about = {}
        BY <2>1, <3>1, Taken DEF Sealed, DigestInv, DigestTypes, DigestOK
      <3>3. /\ \A n \in Items \ letter.about : news'[n] = news[n]
            /\ letter.kind = "mail" => \A n \in Items : news'[n].digest = news[n].digest
            /\ \A n \in letter.about : news[n].digest = 0 => news'[n].digest <= 1
        BY <1>1, <2>4, NewsTold
      <3>4. ASSUME NEW x \in BagToSet(outbox'), x.kind = "digest", NEW n \in x.about
            PROVE  news'[n].digest = 0
        <4>1. news[n].digest = 0 /\ n \in Items
          BY <2>1, <3>2, <3>4 DEF Sealed, DigestInv, DigestTypes, DigestOK, Letters
        <4> QED BY <1>1, <3>2, <3>3, <3>4, <4>1
      <3>5. ASSUME NEW n \in Items PROVE news'[n].digest <= 1
        <4>1. CASE letter.kind = "digest" /\ n \in letter.about
          BY <2>1, <3>3, <4>1 DEF Sealed
        <4>2. CASE letter.kind = "mail" \/ n \notin letter.about
          <5>1. news'[n].digest = news[n].digest
            BY <3>3, <4>2
          <5> QED BY <2>1, <5>1 DEF Sealed
        <4> QED BY <1>1, <4>1, <4>2
      <3> QED BY <2>2, <3>4, <3>5 DEF Sealed
    <2> QED BY <2>3, <2>4, Delivered
  <1>6. UNCHANGED <<mix, req, holder, first, marker, dayAgo>>
    BY Delivered
  <1> QED BY <1>3, <1>4, <1>5, <1>6, DigestStands

LEMMA SetFrequencyStep ==
  ASSUME DigestInv, SetFrequency \/ UNCHANGED <<mix, req, digestVars>>
  PROVE  DigestInv' /\ mix' = mix
  <1>1. /\ UNCHANGED <<mix, req, holder, made, first, marker, due, dayAgo, today, news, outbox>>
        /\ daily' \in BOOLEAN
    BY DEF SetFrequency, digestVars, DigestInv, DigestTypes, DigestOK
  <1>2. DigestTypes'
    BY <1>1 DEF DigestInv, DigestTypes, DigestOK
  <1>3. (Calm => Sealed') /\ \A n \in Items : Announced(n)' => Announced(n)
    BY <1>1, SealedStays
  <1> QED BY <1>1, <1>2, <1>3, DigestStands

LEMMA DayPassesStep ==
  ASSUME DigestInv, DayPasses
  PROVE  DigestInv' /\ mix' = mix
  <1>1. /\ UNCHANGED <<mix, req, holder, made, daily, first, marker, news, outbox>>
        /\ due' = TRUE /\ dayAgo' = today /\ today' = made
        /\ \A r \in Requests : req[r] = Idle
    BY DEF DayPasses
  <1>2. DigestTypes'
    <2>1. dayAgo' \in 0..today' /\ today' \in 0..made'
      BY <1>1, DigestAssumption DEF DigestInv, DigestTypes, DigestOK
    <2> QED BY <1>1, <2>1 DEF DigestInv, DigestTypes, DigestOK
  <1>3. (Calm => Sealed') /\ \A n \in Items : Announced(n)' <=> Announced(n)
    BY <1>1, SealedStays
  <1>4. \A r \in Requests : req'[r].op # "digest" /\ \A s : ~At(r, "digest", s) /\ ~At(r, "digest", s)'
    BY <1>1 DEF At, Idle
  <1>5. CountsOurs' /\ RunsApart'
    BY <1>4 DEF CountsOurs, RunsApart
  <1>6. Calm => CountedOnce'
    BY <1>1, <1>3, <1>4 DEF DigestInv, CountedOnce, Marking
  <1> QED BY <1>1, <1>2, <1>5, <1>6 DEF DigestInv, Calm

LEMMA ListEligibleStep ==
  ASSUME DigestInv, NEW r \in Requests, ListEligible(r)
  PROVE  /\ DigestInv' /\ UNCHANGED <<mix, digestVars>>
         /\ req[r] = Idle /\ \A x \in Requests \ {r} : req'[x] = req[x]
         /\ req'[r].at = "count"
  <1> DEFINE q == [op |-> "digest", at |-> "count", item |-> 0, new |-> {}]
  <1>1. /\ req' = [req EXCEPT ![r] = q] /\ req[r] = Idle
        /\ "retry" \in mix \/ \A x \in Requests : req[x].op # "digest"
        /\ UNCHANGED <<mix, digestVars>>
    BY DEF ListEligible, Begin
  <1>2. q \in DigestRuns /\ q.op = "digest" /\ q.at = "count" /\ q.new = {}
    BY DEF DigestRuns
  <1> HIDE DEF q
  <1>3. /\ req' \in [Requests -> {Idle} \cup Announcements \cup DigestRuns]
        /\ req'[r] = q /\ \A x \in Requests \ {r} : req'[x] = req[x]
    BY <1>1, <1>2, DigestGoes
  <1>4. UNCHANGED <<holder, made, daily, first, marker, due, dayAgo, today, news, outbox>>
    BY <1>1 DEF digestVars
  <1>5. DigestTypes'
    BY <1>3, <1>4 DEF DigestInv, DigestTypes, DigestOK
  <1>6. \A x \in Requests, s \in {"send", "mark"} :
          At(x, "digest", s)' <=> At(x, "digest", s) /\ x # r
    BY <1>1, <1>2, <1>3 DEF At, Idle
  <1>7. CountsOurs'
    BY <1>2, <1>3, <1>4 DEF DigestInv, CountsOurs
  <1>8. RunsApart'
    <2>1. ASSUME "retry" \notin mix PROVE \A x \in Requests : req'[x].op = "digest" => x = r
      BY <1>1, <1>3, <2>1
    <2> QED BY <1>1, <1>6, <2>1 DEF RunsApart, At
  <1>9. Marking' <=> Marking
    BY <1>1, <1>6 DEF Marking, At, Idle
  <1>10. (Calm => Sealed') /\ \A n \in Items : Announced(n)' <=> Announced(n)
    BY <1>4, SealedStays
  <1>11. ASSUME Calm PROVE CountedOnce'
    <2>1. ASSUME NEW x \in Requests, At(x, "digest", "send")', NEW n \in req'[x].new
          PROVE  ~Announced(n)'
      <3>1. x # r /\ At(x, "digest", "send") /\ n \in req[x].new
        BY <1>3, <1>6, <2>1
      <3>2. n \in Items
        BY <3>1, DigestShape DEF At, Idle
      <3> QED BY <1>10, <1>11, <3>1, <3>2 DEF DigestInv, CountedOnce
    <2> QED BY <1>4, <1>9, <1>10, <1>11, <2>1 DEF DigestInv, CountedOnce
  <1>12. DigestInv'
    BY <1>1, <1>5, <1>7, <1>8, <1>11 DEF DigestInv, Calm
  <1> QED BY <1>1, <1>2, <1>3, <1>12

LEMMA CountStep ==
  ASSUME DigestInv, NEW r \in Requests, CountForFSO(r)
  PROVE  /\ DigestInv' /\ UNCHANGED <<mix, digestVars>>
         /\ At(r, "digest", "count") /\ \A x \in Requests \ {r} : req'[x] = req[x]
         /\ req'[r].at = "send" \/ (req'[r].at = "mark" /\ req'[r].new = {})
  <1> DEFINE new == {n \in Items : holder[n] = "us" /\ n > Since}
             step == IF new = {} THEN "mark" ELSE "send"
  <1>1. /\ At(r, "digest", "count") /\ req[r] # Idle
        /\ UNCHANGED <<mix, digestVars>>
        /\ req' = [req EXCEPT ![r].at = step, ![r].new = new]
    BY DEF CountForFSO, At, Idle
  <1>2. PICK q : q = [[req[r] EXCEPT !.at = step] EXCEPT !.new = new]
    OBVIOUS
  <1>3. step \in {"mark", "send"} /\ (step = "mark" => new = {}) /\ new \subseteq Items
        /\ \A n \in new : holder[n] = "us" /\ n > Since
    OBVIOUS
  <1> HIDE DEF new, step
  <1>4. req[r] \in DigestRuns /\ req[r].op = "digest"
    BY <1>1, DigestShape DEF At
  <1>5. q \in DigestRuns /\ q.op = "digest" /\ q.at = step /\ q.new = new /\ q # Idle
    BY <1>2, <1>3, <1>4 DEF DigestRuns, Idle
  <1>6. req' = [req EXCEPT ![r] = q]
    BY <1>1, <1>2
  <1>7. /\ req' \in [Requests -> {Idle} \cup Announcements \cup DigestRuns]
        /\ req'[r] = q /\ \A x \in Requests \ {r} : req'[x] = req[x]
    BY <1>5, <1>6, DigestGoes
  <1>8. UNCHANGED <<holder, made, daily, first, marker, due, dayAgo, today, news, outbox>>
    BY <1>1 DEF digestVars
  <1>9. DigestTypes'
    BY <1>7, <1>8 DEF DigestInv, DigestTypes, DigestOK
  <1>10. CountsOurs'
    BY <1>3, <1>5, <1>7, <1>8 DEF DigestInv, CountsOurs
  <1>11. ASSUME "retry" \notin mix
         PROVE  \A x \in Requests : req'[x].op = "digest" \/ req[x].op = "digest" => x = r
    BY <1>4, <1>7, <1>11 DEF DigestInv, RunsApart
  <1>12. Since' = Since
    BY <1>8 DEF Since
  <1>13. RunsApart'
    <2>1. SUFFICES ASSUME "retry" \notin mix,
                          NEW x \in Requests, At(x, "digest", "send")', NEW n \in req'[x].new
                   PROVE  n > Since'
      BY <1>1, <1>11 DEF RunsApart
    <2>2. x = r
      BY <1>11, <2>1 DEF At
    <2> QED BY <1>3, <1>5, <1>7, <1>12, <2>1, <2>2
  <1>14. (Calm => Sealed') /\ \A n \in Items : Announced(n)' <=> Announced(n)
    BY <1>8, SealedStays
  <1>15. ASSUME Calm PROVE CountedOnce'
    <2>1. ~Marking /\ "retry" \notin mix
      BY <1>1, <1>11, <1>15 DEF Marking, At, Calm
    <2>2. \A n \in Items : Announced(n) => holder[n] = "us" /\ ~first /\ n <= marker
      BY <1>15, <2>1 DEF DigestInv, CountedOnce
    <2>3. \A n \in new : ~Announced(n)
      <3>1. SUFFICES ASSUME NEW n \in new, Announced(n) PROVE FALSE
        OBVIOUS
      <3>2. ~first /\ n <= marker /\ n > marker
        BY <1>3, <2>2, <3>1 DEF Since
      <3>3. n \in Nat /\ marker \in Nat
        BY <1>3, DigestAssumption DEF Items, DigestInv, DigestTypes, DigestOK
      <3> QED BY <3>2, <3>3
    <2>4. ASSUME NEW x \in Requests, At(x, "digest", "send")', NEW n \in req'[x].new
          PROVE  ~Announced(n)'
      <3>1. x = r /\ n \in new
        BY <1>5, <1>7, <1>11, <2>1, <2>4 DEF At
      <3> QED BY <1>3, <1>14, <2>3, <3>1
    <2> QED BY <1>8, <1>14, <1>15, <2>2, <2>4 DEF CountedOnce
  <1>16. DigestInv'
    BY <1>1, <1>9, <1>10, <1>13, <1>15 DEF DigestInv, Calm
  <1> QED BY <1>1, <1>3, <1>5, <1>7, <1>16

LEMMA RunEnds ==
  ASSUME DigestInv, NEW r \in Requests, req[r] # Idle, Done(r), UNCHANGED <<mix, digestVars>>,
         Calm => ~At(r, "digest", "mark")
  PROVE  DigestInv' /\ req'[r] = Idle /\ \A x \in Requests \ {r} : req'[x] = req[x]
  <1>1. /\ req' \in [Requests -> {Idle} \cup Announcements \cup DigestRuns]
        /\ req'[r] = Idle /\ \A x \in Requests \ {r} : req'[x] = req[x]
    BY DigestGoes DEF Done
  <1>2. UNCHANGED <<holder, made, daily, first, marker, due, dayAgo, today, news, outbox>>
    BY DEF digestVars
  <1>3. DigestTypes'
    BY <1>1, <1>2 DEF DigestInv, DigestTypes, DigestOK
  <1>4. CountsOurs' /\ RunsApart'
    BY <1>1, <1>2 DEF DigestInv, CountsOurs, RunsApart, At, Idle, Since
  <1>5. (Calm => Sealed') /\ \A n \in Items : Announced(n)' <=> Announced(n)
    BY <1>2, SealedStays
  <1>6. ASSUME Calm PROVE CountedOnce'
    <2>1. Marking' <=> Marking
      BY <1>1, <1>6 DEF Marking, At, Idle
    <2>2. ASSUME NEW x \in Requests, At(x, "digest", "send")', NEW n \in req'[x].new
          PROVE  ~Announced(n)'
      <3>1. At(x, "digest", "send") /\ n \in req[x].new
        BY <1>1, <2>2 DEF At, Idle
      <3>2. n \in Items
        BY <3>1, DigestShape DEF At, Idle
      <3> QED BY <1>5, <1>6, <3>1, <3>2 DEF DigestInv, CountedOnce
    <2> QED BY <1>2, <1>5, <1>6, <2>1, <2>2 DEF DigestInv, CountedOnce
  <1> QED BY <1>1, <1>3, <1>4, <1>6 DEF DigestInv, Calm

LEMMA SendStep ==
  ASSUME DigestInv, NEW r \in Requests, SendDailySummary(r)
  PROVE  /\ DigestInv' /\ At(r, "digest", "send") /\ req[r] # Idle
         /\ UNCHANGED <<mix, holder, made, daily, first, marker, due, dayAgo, today, news>>
         /\ \A x \in Requests \ {r} : req'[x] = req[x]
         /\ \/ req'[r] = Idle /\ outbox' = outbox
            \/ /\ req'[r].at = "mark" /\ req'[r].new = req[r].new
               /\ BagToSet(outbox) \subseteq BagToSet(outbox')
               /\ \E letter \in BagToSet(outbox') : letter.about = req[r].new
  <1>1. /\ At(r, "digest", "send") /\ req[r] # Idle
        /\ UNCHANGED <<mix, holder, made, daily, first, marker, due, dayAgo, today, news>>
    BY DEF SendDailySummary, At, Idle
  <1>2. /\ req[r] \in DigestRuns /\ req[r].op = "digest" /\ req[r].at = "send"
        /\ req[r].new \subseteq Items
    BY <1>1, DigestShape DEF At
  <1>3. CASE outbox' = outbox /\ Done(r)
    <2>1. DigestInv' /\ req'[r] = Idle /\ \A x \in Requests \ {r} : req'[x] = req[x]
      BY <1>1, <1>3, RunEnds DEF At, digestVars
    <2> QED BY <1>1, <1>3, <2>1
  <1>4. CASE SendToQueue(Letter("digest", req[r].new)) /\ GoTo(r, "mark")
    <2>1. PICK letter : letter = Letter("digest", req[r].new)
      OBVIOUS
    <2>2. PICK q : q = [req[r] EXCEPT !.at = "mark"]
      OBVIOUS
    <2>3. /\ letter \in Letters({"mail", "digest"}, Items) /\ letter.kind = "digest"
          /\ letter.about = req[r].new
      BY <1>2, <2>1 DEF Letter, Letters, MaxAttempts
    <2>4. /\ q \in DigestRuns /\ q.op = "digest" /\ q.at = "mark" /\ q.new = req[r].new
          /\ req' = [req EXCEPT ![r] = q]
      BY <1>2, <1>4, <2>2 DEF DigestRuns, GoTo
    <2>5. /\ req' \in [Requests -> {Idle} \cup Announcements \cup DigestRuns]
          /\ req'[r] = q /\ \A x \in Requests \ {r} : req'[x] = req[x]
      BY <2>4, DigestGoes
    <2>6. /\ outbox' = Plus(outbox, letter) /\ IsABag(outbox)
          /\ BagToSet(outbox) \subseteq Letters({"mail", "digest"}, Items)
      BY <1>4, <2>1 DEF SendToQueue, Plus, DigestInv, DigestTypes, DigestOK
    <2>7. /\ IsABag(outbox') /\ BagToSet(outbox') = BagToSet(outbox) \cup {letter}
          /\ BagToSet(outbox') \subseteq Letters({"mail", "digest"}, Items)
          /\ Single(outbox) /\ (\A x \in BagToSet(outbox) :
                                  x.kind = "digest" => x.about \cap letter.about = {})
               => Single(outbox)'
      <3>1. PICK C : C = outbox'
        OBVIOUS
      <3>2. /\ IsABag(C) /\ BagToSet(C) = BagToSet(outbox) \cup {letter}
            /\ BagToSet(C) \subseteq Letters({"mail", "digest"}, Items)
            /\ Single(outbox) /\ (\A x \in BagToSet(outbox) :
                                    x.kind = "digest" => x.about \cap letter.about = {})
                 => Single(C)
        BY <2>3, <2>6, <3>1, Posted
      <3> QED BY <3>1, <3>2 DEF Single
    <2>8. DigestTypes'
      BY <1>1, <2>5, <2>7 DEF DigestInv, DigestTypes, DigestOK
    <2>9. CountsOurs'
      BY <1>1, <1>2, <2>4, <2>5 DEF DigestInv, CountsOurs
    <2>10. RunsApart'
      BY <1>1, <1>2, <2>4, <2>5 DEF DigestInv, RunsApart, At, Since
    <2>11. ASSUME Calm PROVE CountedOnce'
      <3>1. "retry" \notin mix /\ CountedOnce
        BY <2>11 DEF Calm, DigestInv
      <3>2. \A n \in req[r].new : ~Announced(n) /\ holder[n] = "us"
        BY <1>1, <1>2, <3>1 DEF CountedOnce, DigestInv, CountsOurs
      <3>3. Single(outbox)'
        BY <2>3, <2>7, <3>1, <3>2 DEF Announced, CountedOnce, Sealed
      <3>4. \A n \in req[r].new : news[n].digest = 0
        BY <1>2, <3>2 DEF Announced, DigestInv, DigestTypes, DigestOK
      <3>5. Sealed'
        BY <1>1, <2>3, <2>7, <3>1, <3>3, <3>4 DEF Sealed, CountedOnce
      <3>6. \A n \in Items : Announced(n)' => Announced(n) \/ n \in req[r].new
        BY <1>1, <2>3, <2>7 DEF Announced
      <3>7. Marking'
        BY <2>4, <2>5 DEF Marking, At
      <3>8. \A x \in Requests : ~At(x, "digest", "send")'
        BY <1>2, <2>4, <2>5, <3>1 DEF DigestInv, RunsApart, At
      <3> QED BY <1>1, <3>1, <3>2, <3>5, <3>6, <3>7, <3>8 DEF CountedOnce
    <2>12. DigestInv'
      BY <1>1, <2>8, <2>9, <2>10, <2>11 DEF DigestInv, Calm
    <2>13. letter \in BagToSet(outbox') /\ BagToSet(outbox) \subseteq BagToSet(outbox')
      BY <2>7
    <2> QED BY <1>1, <2>3, <2>4, <2>5, <2>12, <2>13
  <1> QED BY <1>3, <1>4 DEF SendDailySummary, AfterFailedMail

LEMMA MarkStep ==
  ASSUME DigestInv, NEW r \in Requests, MarkSent(r)
  PROVE  /\ DigestInv' /\ At(r, "digest", "mark") /\ req[r] # Idle /\ req'[r] = Idle
         /\ UNCHANGED <<mix, holder, made, daily, dayAgo, today, news, outbox>>
         /\ \A x \in Requests \ {r} : req'[x] = req[x]
  <1>1. /\ At(r, "digest", "mark") /\ req[r] # Idle /\ req' = [req EXCEPT ![r] = Idle]
        /\ first' = FALSE /\ marker' = made /\ due' = FALSE
        /\ UNCHANGED <<mix, holder, made, daily, dayAgo, today, news, outbox>>
    BY DEF MarkSent, Done, At, Idle
  <1>2. /\ req' \in [Requests -> {Idle} \cup Announcements \cup DigestRuns]
        /\ req'[r] = Idle /\ \A x \in Requests \ {r} : req'[x] = req[x]
    BY <1>1, DigestGoes
  <1>3. made \in Nat /\ \A n \in Items : holder[n] = "us" => n <= made
    BY DigestAssumption DEF DigestInv, DigestTypes, DigestOK
  <1>4. DigestTypes'
    <2>1. marker' \in 0..made'
      BY <1>1, <1>3
    <2> QED BY <1>1, <1>2, <2>1 DEF DigestInv, DigestTypes, DigestOK
  <1>5. CountsOurs'
    BY <1>1, <1>2 DEF DigestInv, CountsOurs, Idle
  <1>6. ASSUME "retry" \notin mix PROVE \A x \in Requests : req'[x].op # "digest"
    BY <1>1, <1>2, <1>6 DEF DigestInv, RunsApart, At, Idle
  <1>7. RunsApart'
    BY <1>1, <1>6 DEF RunsApart, At
  <1>8. (Calm => Sealed') /\ \A n \in Items : Announced(n)' <=> Announced(n)
    BY <1>1, SealedStays
  <1>9. ASSUME Calm PROVE CountedOnce'
    <2>1. \A x \in Requests : req'[x].op # "digest"
      BY <1>6, <1>9 DEF Calm
    <2>2. \A n \in Items : Announced(n) => holder[n] = "us" /\ n <= made
      BY <1>3, <1>9 DEF DigestInv, CountedOnce
    <2> QED BY <1>1, <1>8, <1>9, <2>1, <2>2 DEF CountedOnce, At
  <1>10. DigestInv'
    BY <1>1, <1>4, <1>5, <1>7, <1>9 DEF DigestInv, Calm
  <1> QED BY <1>1, <1>2, <1>10

LEMMA DigestAbandonStep ==
  ASSUME DigestInv, NEW r \in Requests, "stop" \in mix, Abandon(r), UNCHANGED digestVars
  PROVE  DigestInv' /\ mix' = mix /\ req[r] # Idle /\ req'[r] = Idle
           /\ \A x \in Requests \ {r} : req'[x] = req[x]
  BY RunEnds DEF Abandon, Calm

LEMMA DigestStays ==
  ASSUME DigestInv, [DigestNext]_<<mix, req, digestVars>>
  PROVE  DigestInv' /\ mix' = mix
  <1>1. ASSUME NEW letter \in BagToSet(outbox), DeliverMail(letter) PROVE mix' = mix
    BY <1>1 DEF DeliverMail
  <1> QED BY <1>1, CreateItemStep, ReassignStep, NotifyItemStep, DeliverStep, SetFrequencyStep,
             DayPassesStep, ListEligibleStep, CountStep, SendStep, MarkStep, DigestAbandonStep
          DEF DigestNext

(* No item is announced by two digests unless runs overlap, a run stops    *)
(* between mail and mark, or the queue posts again what had been accepted  *)
(* (digest/digest.go:280).                                                 *)
THEOREM DigestsApart == DigestSpec => []NoSecondDigest
  <1>1. HandlersInit /\ DigestInit => DigestInv
    BY DigestStarts
  <1>2. DigestInv /\ [DigestNext]_<<mix, req, digestVars>> => DigestInv'
    BY DigestStays
  <1>3. DigestInv => NoSecondDigest
    BY DEF DigestInv, Calm, CountedOnce, Sealed, NoSecondDigest
  <1> QED BY <1>1, <1>2, <1>3, PTL DEF DigestSpec

-----------------------------------------------------------------------------
(* What excuses that an item comes to be missed, as MissedOnlyBy lists it. *)
Excused(n) ==
  \/ daily # daily'
  \/ first /\ dayAgo # dayAgo'
  \/ holder[n] = "others" /\ n <= Since
  \/ DropsMailAbout(n)
  \/ \E r \in Requests :
       /\ Moves(r)
       /\ \/ At(r, "announce", "notify") /\ req[r].item = n /\ outbox' = outbox
          \/ At(r, "digest", "mark") /\ n \notin req[r].new
          \/ At(r, "digest", "send") /\ ("retry" \in mix \/ ~daily)

(* Unless what is known of an item changes, it comes to be missed only     *)
(* with a letter about it or with the request that was to tell of it, or   *)
(* as a run of the digest that counted it is about to be marked.           *)
LEMMA Turns ==
  ASSUME NEW n \in Items, ~Missed(n), Missed(n)', UNCHANGED <<daily, first, marker, dayAgo>>,
         holder'[n] = holder[n], news'[n] = news[n]
  PROVE  \/ \E letter \in BagToSet(outbox) \ BagToSet(outbox') : n \in letter.about
         \/ \E r \in Requests :
              /\ req'[r] # req[r]
              /\ \/ At(r, "digest", "send") /\ n \in req[r].new
                 \/ At(r, "announce", "notify") /\ req[r].item = n /\ ~daily
                 \/ At(r, "digest", "mark")' /\ n \in req'[r].new /\ daily /\ n > Since
  <1>1. Since' = Since /\ (Heard(n)' <=> Heard(n))
    BY DEF Since, Heard
  <1>2. CASE WaitsForDigest(n)
    BY <1>1, <1>2 DEF Missed, WaitsForDigest, At
  <1>3. CASE ~WaitsForDigest(n)
    BY <1>1, <1>3 DEF Missed, At
  <1> QED BY <1>2, <1>3

LEMMA CreateItemExcused ==
  ASSUME DigestInv, NEW n \in Items, ~Missed(n), Missed(n)',
         NEW r \in Requests, NEW who \in {"us", "others"}, CreateItem(r, who)
  PROVE  Excused(n)
  <1>1. CASE n = made + 1
    <2>1. daily' /\ ~WaitsForDigest(n)' /\ Since' = Since /\ daily' = daily
      <3>1. At(r, "announce", "notify")' /\ req'[r].item = n
        BY <1>1, CreateItemStep DEF CreateItem, Begin, At, DigestInv, DigestTypes
      <3> QED BY <3>1, CreateItemStep DEF Missed, Since
    <2>2. n > Since'
      <3>1. Since \in 0..made /\ made \in Nat
        BY CreateItemStep DEF Since, DigestInv, DigestTypes, DigestOK
      <3> QED BY <1>1, <2>1, <3>1
    <2>3. PICK q \in Requests : At(q, "digest", "mark")' /\ n \in req'[q].new
      BY <2>1, <2>2 DEF WaitsForDigest
    <2>4. q # r /\ req'[q] = req[q]
      BY <2>3, CreateItemStep DEF At
    <2>5. holder[n] = "us"
      BY <2>3, <2>4 DEF DigestInv, CountsOurs, At
    <2> QED BY <1>1, <2>5, CreateItemStep
  <1>2. CASE n # made + 1
    BY <1>2, CreateItemStep, Turns DEF At, Idle
  <1> QED BY <1>1, <1>2

LEMMA ReassignExcused ==
  ASSUME DigestInv, NEW n \in Items, ~Missed(n), Missed(n)',
         NEW r \in Requests, NEW m \in Items, Reassign(r, m)
  PROVE  Excused(n)
  <1>1. CASE n = m
    <2>1. SUFFICES ASSUME ~(n <= Since) PROVE FALSE
      BY <1>1, ReassignStep DEF Excused
    <2>2. n > Since'
      <3>1. Since \in Nat /\ n \in Nat /\ Since' = Since
        BY ReassignStep, DigestAssumption DEF Since, DigestInv, DigestTypes, DigestOK, Items
      <3> QED BY <2>1, <3>1
    <2>3. daily'
      BY <1>1, ReassignStep DEF Missed, At
    <2>4. PICK q \in Requests : At(q, "digest", "mark")' /\ n \in req'[q].new
      BY <2>2, <2>3 DEF Missed, WaitsForDigest
    <2>5. q # r /\ req'[q] = req[q]
      BY <2>4, ReassignStep DEF At
    <2>6. holder[n] = "us"
      BY <2>4, <2>5 DEF DigestInv, CountsOurs, At
    <2> QED BY <1>1, <2>6, ReassignStep
  <1>2. CASE n # m
    BY <1>2, ReassignStep, Turns DEF At, Idle
  <1> QED BY <1>1, <1>2

LEMMA NotifyExcused ==
  ASSUME DigestInv, NEW n \in Items, ~Missed(n), Missed(n)',
         NEW r \in Requests, NotifyActionItemAssigned(r)
  PROVE  Excused(n)
  <1>1. At(r, "announce", "notify") /\ req[r].item = n
    BY NotifyItemStep, Turns DEF At, Idle
  <1>2. outbox' = outbox
    BY <1>1, NotifyItemStep DEF Missed
  <1> QED BY <1>1, <1>2, NotifyItemStep DEF Excused, Moves

LEMMA DeliverExcused ==
  ASSUME DigestInv, NEW n \in Items, ~Missed(n), Missed(n)',
         NEW letter \in BagToSet(outbox), DeliverMail(letter)
  PROVE  Excused(n)
  <1>1. CASE news'[n] = news[n] /\ ~(n \in letter.about /\ news' # news)
    <2>1. PICK x \in BagToSet(outbox) \ BagToSet(outbox') : n \in x.about
      BY <1>1, Delivered, Turns
    <2>2. x = letter
      BY <2>1, Delivered
    <2>3. "astray" \in mix \/ letter.retries = 4
      <3>1. ~\E y \in BagToSet(outbox') : y.about = letter.about
        BY <2>1, <2>2 DEF Missed
      <3>2. ~(news'[n].mail > 0 \/ news'[n].digest > 0) /\ n \in letter.about /\ DigestOK
        BY <2>1, <2>2 DEF Missed, Heard, DigestInv, DigestTypes
      <3> QED BY <3>1, <3>2, Delivered, NewsTold
    <2>4. ~BagIn(letter, outbox')
      BY <2>1, <2>2 DEF BagIn, BagToSet
    <2> QED BY <2>1, <2>2, <2>3, <2>4 DEF Excused, DropsMailAbout
  <1>2. CASE ~(news'[n] = news[n] /\ ~(n \in letter.about /\ news' # news))
    <2>1. DigestOK
      BY DEF DigestInv, DigestTypes
    <2>2. news'[n].mail > 0 \/ news'[n].digest > 0
      BY <1>2, <2>1, Delivered, NewsTold
    <2> QED BY <2>2 DEF Missed, Heard
  <1> QED BY <1>1, <1>2

LEMMA SendExcused ==
  ASSUME DigestInv, NEW n \in Items, ~Missed(n), Missed(n)', NEW r \in Requests,
         \/ SendDailySummary(r)
         \/ Abandon(r) /\ UNCHANGED digestVars
  PROVE  Excused(n)
  <1>1. CASE req'[r] = Idle /\ outbox' = outbox
    <2>1. /\ req[r] # Idle /\ \A x \in Requests \ {r} : req'[x] = req[x]
          /\ UNCHANGED <<mix, holder, made, daily, first, marker, due, dayAgo, today, news>>
      <3>1. CASE SendDailySummary(r)
        BY <3>1, SendStep
      <3>2. CASE Abandon(r) /\ UNCHANGED digestVars
        BY <3>2 DEF Abandon, Done, digestVars, DigestInv, DigestTypes
      <3> QED BY <3>1, <3>2
    <2>2. \/ At(r, "digest", "send") /\ n \in req[r].new
          \/ At(r, "announce", "notify") /\ req[r].item = n
      BY <1>1, <2>1, Turns DEF At, Idle
    <2>3. Moves(r)
      BY <1>1, <2>1 DEF Moves
    <2>4. CASE At(r, "announce", "notify") /\ req[r].item = n
      BY <1>1, <2>3, <2>4 DEF Excused
    <2>5. CASE At(r, "digest", "send") /\ n \in req[r].new
      <3>1. SUFFICES ASSUME "retry" \notin mix, daily PROVE FALSE
        BY <2>3, <2>5 DEF Excused
      <3>2. n > Since /\ Since' = Since
        BY <2>1, <2>5, <3>1 DEF DigestInv, RunsApart, Since
      <3>3. PICK q \in Requests : At(q, "digest", "mark")' /\ n \in req'[q].new
        BY <2>1, <3>1, <3>2 DEF Missed, WaitsForDigest
      <3>4. q # r /\ req'[q] = req[q]
        BY <1>1, <2>1, <3>3 DEF At, Idle
      <3> QED BY <2>5, <3>1, <3>3, <3>4 DEF DigestInv, RunsApart, At
    <2> QED BY <2>2, <2>4, <2>5
  <1>2. CASE ~(req'[r] = Idle /\ outbox' = outbox)
    <2>1. /\ SendDailySummary(r) /\ req'[r].new = req[r].new
          /\ BagToSet(outbox) \subseteq BagToSet(outbox')
          /\ \E letter \in BagToSet(outbox') : letter.about = req[r].new
      <3>1. ~(Abandon(r) /\ UNCHANGED digestVars)
        BY <1>2 DEF Abandon, Done, digestVars, DigestInv, DigestTypes
      <3> QED BY <1>2, <3>1, SendStep
    <2>2. n \notin req[r].new
      BY <2>1 DEF Missed
    <2> QED BY <2>1, <2>2, SendStep, Turns DEF At
  <1> QED BY <1>1, <1>2

LEMMA MarkExcused ==
  ASSUME DigestInv, NEW n \in Items, ~Missed(n), Missed(n)', NEW r \in Requests, MarkSent(r)
  PROVE  Excused(n)
  <1>1. SUFFICES ASSUME n \in req[r].new PROVE FALSE
    BY MarkStep DEF Excused, Moves
  <1>2. ~WaitsForDigest(n)
    BY <1>1, MarkStep DEF WaitsForDigest
  <1>3. \A x \in Requests : At(x, "digest", "mark") \/ req'[x] = req[x]
    BY MarkStep
  <1> QED BY <1>2, <1>3, MarkStep DEF Missed, Heard, At

LEMMA MissedExcused ==
  ASSUME DigestInv, DigestNext, NEW n \in Items, ~Missed(n), Missed(n)'
  PROVE  Excused(n)
  <1>1. ASSUME NEW r \in Requests, ListEligible(r) PROVE Excused(n)
    BY <1>1, ListEligibleStep, Turns DEF digestVars, At, Idle
  <1>2. ASSUME NEW r \in Requests, CountForFSO(r) PROVE Excused(n)
    BY <1>2, CountStep, Turns DEF digestVars, At
  <1>3. ASSUME SetFrequency PROVE Excused(n)
    <2>1. daily \in BOOLEAN /\ daily' = ~daily
      BY <1>3 DEF SetFrequency, DigestInv, DigestTypes, DigestOK
    <2> QED BY <2>1 DEF Excused
  <1>4. ASSUME DayPasses PROVE Excused(n)
    <2>1. /\ UNCHANGED <<mix, req, holder, made, daily, first, marker, news, outbox>>
      BY <1>4 DEF DayPasses
    <2> QED BY <2>1, Turns DEF Excused, Since, Missed, WaitsForDigest, Heard, At
  <1> QED BY <1>1, <1>2, <1>3, <1>4, CreateItemExcused, ReassignExcused, NotifyExcused,
             DeliverExcused, SendExcused, MarkExcused DEF DigestNext

(* An item is missed only if it came after the digest in progress had      *)
(* counted and before it was marked as sent, was handed over after a       *)
(* digest had passed it, or the FSO changed the frequency while it waited; *)
(* or if its mail could not be queued or was given up; or else if the      *)
(* first digest failed for a day, or a stopped or an overlapping run was   *)
(* marked by another (digest/digest.go:247, :280, email/handler.go:29).    *)
THEOREM NoItemMissed == DigestSpec => MissedOnlyBy
  <1>1. HandlersInit /\ DigestInit => DigestInv
    BY DigestStarts
  <1>2. DigestInv /\ [DigestNext]_<<mix, req, digestVars>> => DigestInv'
    BY DigestStays
  <1>3. DigestInv /\ [DigestNext]_<<mix, req, digestVars>> =>
          [\A n \in Items :
       ~Missed(n) /\ Missed(n)' =>
         \/ daily # daily'
         \/ first /\ dayAgo # dayAgo'
         \/ holder[n] = "others" /\ n <= Since
         \/ DropsMailAbout(n)
         \/ \E r \in Requests :
              /\ Moves(r)
              /\ \/ At(r, "announce", "notify") /\ req[r].item = n /\ outbox' = outbox
                 \/ At(r, "digest", "mark") /\ n \notin req[r].new
                 \/ At(r, "digest", "send") /\ ("retry" \in mix \/ ~daily)]_<<mix, req, digestVars>>
    BY MissedExcused DEF Excused
  <1> QED BY <1>1, <1>2, <1>3, PTL DEF DigestSpec, MissedOnlyBy

-----------------------------------------------------------------------------
Passes == [op : {"remind"}, at : {"notify", "mark"}, todo : SUBSET FSOs]

RemindersTypes == req \in [Requests -> {Idle} \cup Passes] /\ RemindersOK

(* Nothing is due on the first day of a new record, nor in a pass.         *)
NothingDue ==
  /\ Running => left <= 90
  /\ left = 91 => ago = MaxAgo

(* How often an FSO may have been told that many days before the due date  *)
(* if the last reminder is that long ago.                                  *)
Quota(days, gap) ==
  IF days < 0 THEN (IF gap = 0 THEN 1 ELSE 0)
  ELSE IF days <= 30
    THEN (IF gap + days <= 10 THEN 2 ELSE IF gap + days <= 30 THEN 1 ELSE 0)
  ELSE IF days <= 90 /\ gap + days <= 90 THEN 1 ELSE 0

(* The part of it a pass leaves to an FSO it is still to notify.           *)
Spared(r, f) == IF f \in req[r].todo THEN Quota(left, 0) - 1 ELSE Quota(left, 0)

WithinQuota ==
  mix \cap {"overlap", "stop"} = {} =>
    /\ ~Running => \A f \in FSOs : mails[f] <= Quota(left, ago)
    /\ \A r, q \in Requests : req[r].op = "remind" /\ req[q].op = "remind" => r = q
    /\ \A r \in Requests : req[r].op = "remind" => \A f \in FSOs : mails[f] <= Spared(r, f)

(* Everyone who wants mails has been told in this bucket, or else no       *)
(* reminder in it silences the next pass.                                  *)
Told == \A f \in covers \ summary : mails[f] > 0

Audible(days, gap) ==
  IF days < 0 THEN gap > 0
  ELSE IF days <= 30 THEN gap + days > 20
  ELSE IF days <= 90 THEN gap + days > 91
  ELSE gap = MaxAgo

NobodyForgotten ==
  mix \cap {"stop", "change"} = {} =>
    /\ Running \/ Told \/ Audible(left, ago)
    /\ \A r \in Requests : req[r].op = "remind" =>
         \A f \in covers \ summary : f \in req[r].todo \/ mails[f] > 0
    /\ passed /\ left <= 90 /\ LastDayOf(BucketOf(left)) => Told

RemindersInv == RemindersTypes /\ NothingDue /\ WithinQuota /\ NobodyForgotten

LEMMA Calendar ==
  ASSUME NEW d \in Int, d <= 91
  PROVE  BucketOf(d) = IF d < 0 THEN "overdue" ELSE IF d <= 30 THEN "d30"
                       ELSE IF d <= 90 THEN "d90" ELSE "none"
  <1>1. d < 0 => d \notin 0..30 /\ d \notin 31..90
    OBVIOUS
  <1>2. d >= 0 /\ d <= 30 => d \in 0..30 /\ d \notin 31..90 /\ ~(d < 0)
    OBVIOUS
  <1>3. d > 30 /\ d <= 90 => d \notin 0..30 /\ d \in 31..90 /\ ~(d < 0)
    OBVIOUS
  <1>4. d > 90 => d \notin 0..30 /\ d \notin 31..90 /\ ~(d < 0)
    OBVIOUS
  <1>5. d < 0 \/ (d >= 0 /\ d <= 30) \/ (d > 30 /\ d <= 90) \/ d > 90
    OBVIOUS
  <1> QED BY <1>1, <1>2, <1>3, <1>4, <1>5 DEF BucketOf

LEMMA Numbers ==
  ASSUME RemindersOK
  PROVE  /\ left \in Int /\ left <= 91 /\ left >= -MaxLate /\ MaxLate \in Nat
         /\ ago \in Nat /\ ago <= 61 /\ \A f \in FSOs : mails[f] \in Nat /\ mails[f] <= 3
         /\ passed \in BOOLEAN
         /\ BucketOf(left) = IF left < 0 THEN "overdue" ELSE IF left <= 30 THEN "d30"
                             ELSE IF left <= 90 THEN "d90" ELSE "none"
  <1>1. /\ left \in Int /\ left <= 91 /\ left >= -MaxLate /\ MaxLate \in Nat
        /\ ago \in Nat /\ ago <= 61 /\ \A f \in FSOs : mails[f] \in Nat /\ mails[f] <= 3
    BY RemindersAssumption DEF RemindersOK, MaxAgo
  <1> QED BY <1>1, Calendar DEF RemindersOK

LEMMA PassShape ==
  ASSUME RemindersTypes, NEW r \in Requests
  PROVE  /\ req[r] # Idle <=> req[r].op = "remind"
         /\ req[r] # Idle => req[r] \in Passes /\ req[r].todo \subseteq FSOs
                               /\ req[r].at \in {"notify", "mark"}
  BY DEF RemindersTypes, Passes, Idle

LEMMA PassGoes ==
  ASSUME RemindersTypes, NEW r \in Requests, NEW q \in {Idle} \cup Passes,
         req' = [req EXCEPT ![r] = q]
  PROVE  /\ req' \in [Requests -> {Idle} \cup Passes]
         /\ req'[r] = q /\ \A x \in Requests \ {r} : req'[x] = req[x]
  BY DEF RemindersTypes

LEMMA RemindersStart ==
  ASSUME HandlersInit, RemindersInit
  PROVE  RemindersInv
  <1>1. /\ req \in [Requests -> {Idle} \cup Passes] /\ \A r \in Requests : req[r].op # "remind"
        /\ left \in {91, 31, 0} /\ ago = 61 /\ passed = FALSE
        /\ \A f \in FSOs : mails[f] = 0
    BY DEF HandlersInit, RemindersInit, Idle, FirstDays, MaxAgo
  <1>2. RemindersOK
    <2>1. left \in -MaxLate..91 /\ ago \in 0..61
      BY <1>1, RemindersAssumption
    <2>2. mails \in [FSOs -> 0..3]
      BY DEF RemindersInit
    <2> QED BY <2>1, <2>2 DEF RemindersInit, RemindersOK, MaxAgo
  <1>3. NothingDue
    BY <1>1 DEF NothingDue, Running, MaxAgo
  <1>4. WithinQuota
    <2>1. Quota(left, ago) = 0
      BY <1>1 DEF Quota
    <2> QED BY <1>1, <2>1 DEF WithinQuota
  <1>5. NobodyForgotten
    <2>1. Audible(left, ago)
      BY <1>1 DEF Audible, MaxAgo
    <2> QED BY <1>1, <2>1 DEF NobodyForgotten
  <1> QED BY <1>1, <1>2, <1>3, <1>4, <1>5 DEF RemindersInv, RemindersTypes

LEMMA ListStep ==
  ASSUME RemindersInv, NEW r \in Requests, List(r)
  PROVE  RemindersInv' /\ mix' = mix
  <1> DEFINE q == [op |-> "remind", at |-> "notify", todo |-> covers]
  <1>1. /\ MayList(BucketOf(left)) /\ (Running => "overlap" \in mix) /\ req[r] = Idle
        /\ req' = [req EXCEPT ![r] = q]
        /\ UNCHANGED <<mix, left, ago, covers, summary, passed, mails>>
    BY DEF List, Begin, reminderVars
  <1>2. q \in Passes /\ q.op = "remind" /\ q.todo = covers
    BY DEF Passes, RemindersInv, RemindersTypes, RemindersOK
  <1> HIDE DEF q
  <1>3. /\ req' \in [Requests -> {Idle} \cup Passes]
        /\ req'[r] = q /\ \A x \in Requests \ {r} : req'[x] = req[x]
    BY <1>1, <1>2, PassGoes DEF RemindersInv
  <1>4. RemindersTypes'
    BY <1>1, <1>3 DEF RemindersInv, RemindersTypes, RemindersOK
  <1>5. left <= 90 /\ Quota(left, ago) <= Quota(left, 0) - 1 /\ Quota(left, 0) \in Nat
          /\ Quota(left, ago) \in Nat
    BY <1>1, Numbers DEF RemindersInv, RemindersTypes, MayList, Gate, Quota
  <1>6. NothingDue'
    BY <1>1, <1>5, Numbers DEF RemindersInv, RemindersTypes, NothingDue
  <1>7. Running'
    BY <1>2, <1>3 DEF Running
  <1>8. WithinQuota'
    <2>1. SUFFICES ASSUME mix \cap {"overlap", "stop"} = {}
                   PROVE  /\ \A x \in Requests : req'[x].op = "remind" => x = r
                          /\ \A f \in FSOs : mails'[f] <= Spared(r, f)'
      BY <1>1, <1>7 DEF WithinQuota
    <2>2. ~Running
      BY <1>1, <2>1
    <2>3. \A f \in FSOs : mails[f] <= Quota(left, ago)
      BY <2>1, <2>2 DEF RemindersInv, WithinQuota
    <2>4. \A f \in FSOs : mails[f] <= Quota(left, 0) - 1 /\ mails[f] <= Quota(left, 0)
      BY <1>5, <2>3, Numbers DEF RemindersInv, RemindersTypes
    <2>5. \A f \in FSOs : mails'[f] <= Spared(r, f)'
      BY <1>1, <2>4 DEF Spared, Quota
    <2> QED BY <1>3, <2>2, <2>5 DEF Running
  <1>9. NobodyForgotten'
    <2>1. SUFFICES ASSUME mix \cap {"stop", "change"} = {}
                   PROVE  /\ \A x \in Requests : req'[x].op = "remind" =>
                               \A f \in covers' \ summary' : f \in req'[x].todo \/ mails'[f] > 0
                          /\ passed' /\ left' <= 90 /\ LastDayOf(BucketOf(left))' => Told'
      BY <1>1, <1>7 DEF NobodyForgotten
    <2>2. /\ \A x \in Requests : req[x].op = "remind" =>
               \A f \in covers \ summary : f \in req[x].todo \/ mails[f] > 0
          /\ passed /\ left <= 90 /\ LastDayOf(BucketOf(left)) => Told
      BY <2>1 DEF RemindersInv, NobodyForgotten
    <2>3. LastDayOf(BucketOf(left))' = LastDayOf(BucketOf(left)) /\ (Told' <=> Told)
      BY <1>1 DEF LastDayOf, BucketOf, Told
    <2> QED BY <1>1, <1>2, <1>3, <2>2, <2>3
  <1> QED BY <1>1, <1>4, <1>6, <1>8, <1>9 DEF RemindersInv

LEMMA NotifyDueStep ==
  ASSUME RemindersInv, NEW r \in Requests, NEW g \in FSOs, NotifyDue(r, g)
  PROVE  RemindersInv' /\ mix' = mix
  <1>1. /\ At(r, "remind", "notify") /\ g \in req[r].todo /\ req[r] # Idle
        /\ UNCHANGED <<mix, left, ago, covers, summary, passed>>
    BY DEF NotifyDue, At, Idle
  <1>2. PICK q : q = [op |-> "remind", at |-> "mark", todo |-> req[r].todo \ {g}]
    OBVIOUS
  <1>3. q \in Passes /\ q.op = "remind" /\ q.todo = req[r].todo \ {g}
    BY <1>1, <1>2, PassShape DEF Passes, RemindersInv
  <1>4. req' = [req EXCEPT ![r] = q]
    BY <1>2 DEF NotifyDue
  <1>5. /\ req' \in [Requests -> {Idle} \cup Passes]
        /\ req'[r] = q /\ \A x \in Requests \ {r} : req'[x] = req[x]
    BY <1>3, <1>4, PassGoes DEF RemindersInv
  <1>6. /\ \A f \in FSOs : mails[f] \in Nat /\ mails[f] <= 3
        /\ mails \in [FSOs -> 0..3]
    BY Numbers DEF RemindersInv, RemindersTypes, RemindersOK
  <1>7. /\ mails' \in [FSOs -> 0..3] /\ \A f \in FSOs \ {g} : mails'[f] = mails[f]
        /\ mails'[g] <= mails[g] + 1 /\ mails'[g] >= mails[g]
        /\ g \notin summary => mails'[g] > 0
    <2>1. mails' = [mails EXCEPT ![g] = AddMail(mails[g])] \/ (mails' = mails /\ ~ShouldSendNow(g))
      BY DEF NotifyDue
    <2>2. CASE mails' = mails /\ ~ShouldSendNow(g)
      BY <1>6, <2>2 DEF ShouldSendNow
    <2>3. CASE mails' = [mails EXCEPT ![g] = AddMail(mails[g])]
      <3>1. AddMail(mails[g]) \in 0..3 /\ AddMail(mails[g]) <= mails[g] + 1
              /\ AddMail(mails[g]) >= mails[g] /\ AddMail(mails[g]) > 0
        BY <1>6 DEF AddMail
      <3> QED BY <1>6, <2>3, <3>1
    <2> QED BY <2>1, <2>2, <2>3
  <1>8. RemindersTypes'
    BY <1>1, <1>5, <1>7 DEF RemindersInv, RemindersTypes, RemindersOK
  <1>9. Running /\ Running'
    BY <1>1, <1>3, <1>5 DEF Running, At
  <1>10. NothingDue'
    BY <1>1, <1>9 DEF RemindersInv, NothingDue
  <1>11. WithinQuota'
    <2>1. SUFFICES ASSUME mix \cap {"overlap", "stop"} = {}
                   PROVE  /\ \A x \in Requests : req'[x].op = "remind" => x = r
                          /\ \A f \in FSOs : mails'[f] <= Spared(r, f)'
      BY <1>1, <1>9 DEF WithinQuota
    <2>2. /\ \A x \in Requests : req[x].op = "remind" => x = r
          /\ \A f \in FSOs : mails[f] <= Spared(r, f)
      BY <1>1, <2>1 DEF RemindersInv, WithinQuota, At
    <2>3. Quota(left, 0) \in Nat /\ Quota(left, 0)' = Quota(left, 0)
      BY <1>1 DEF Quota
    <2>4. mails'[g] <= Spared(r, g)'
      <3>1. mails[g] <= Quota(left, 0) - 1
        BY <1>1, <2>2 DEF Spared
      <3>2. mails'[g] \in Nat
        BY <1>7
      <3> QED BY <1>3, <1>5, <1>6, <1>7, <2>3, <3>1, <3>2 DEF Spared
    <2>5. \A f \in FSOs \ {g} : mails'[f] <= Spared(r, f)'
      BY <1>3, <1>5, <1>7, <2>2, <2>3 DEF Spared
    <2> QED BY <1>5, <2>2, <2>4, <2>5
  <1>12. NobodyForgotten'
    <2>1. SUFFICES ASSUME mix \cap {"stop", "change"} = {}
                   PROVE  /\ \A x \in Requests : req'[x].op = "remind" =>
                               \A f \in covers' \ summary' : f \in req'[x].todo \/ mails'[f] > 0
                          /\ passed' /\ left' <= 90 /\ LastDayOf(BucketOf(left))' => Told'
      BY <1>1, <1>9 DEF NobodyForgotten
    <2>2. /\ \A x \in Requests : req[x].op = "remind" =>
               \A f \in covers \ summary : f \in req[x].todo \/ mails[f] > 0
          /\ passed /\ left <= 90 /\ LastDayOf(BucketOf(left)) => Told
      BY <2>1 DEF RemindersInv, NobodyForgotten
    <2>3. \A f \in covers \ summary : f \in FSOs /\ (mails[f] > 0 => mails'[f] > 0)
      BY <1>6, <1>7 DEF RemindersInv, RemindersTypes, RemindersOK
    <2>4. LastDayOf(BucketOf(left))' = LastDayOf(BucketOf(left)) /\ (Told => Told')
      BY <1>1, <2>3 DEF LastDayOf, BucketOf, Told
    <2>5. ASSUME NEW x \in Requests, req'[x].op = "remind", NEW f \in covers \ summary
          PROVE  f \in req'[x].todo \/ mails'[f] > 0
      BY <1>1, <1>3, <1>5, <1>7, <2>2, <2>3, <2>5 DEF At
    <2> QED BY <1>1, <2>2, <2>4, <2>5
  <1> QED BY <1>1, <1>8, <1>10, <1>11, <1>12 DEF RemindersInv

(* A request of a pass ends or goes on; the passes of others stand.        *)
LEMMA MarkRemindedStep ==
  ASSUME RemindersInv, NEW r \in Requests, MarkReminded(r)
  PROVE  RemindersInv' /\ mix' = mix
  <1>1. /\ At(r, "remind", "mark") /\ req[r] # Idle /\ req[r].op = "remind" /\ Running
        /\ UNCHANGED <<mix, left, covers, summary, mails>>
        /\ (ago' = 0 \/ ("stop" \in mix /\ ago' = ago))
        /\ passed' \in BOOLEAN
    <2>1. passed \in BOOLEAN
      BY DEF RemindersInv, RemindersTypes, RemindersOK
    <2>2. /\ At(r, "remind", "mark")
          /\ UNCHANGED <<mix, left, covers, summary, mails>>
          /\ (ago' = 0 \/ ("stop" \in mix /\ ago' = ago))
          /\ (passed' = TRUE \/ passed' = passed)
      BY DEF MarkReminded
    <2>3. req[r] # Idle /\ req[r].op = "remind" /\ Running
      BY <2>2 DEF At, Idle, Running
    <2> QED BY <2>1, <2>2, <2>3
  <1>2. PICK q : q = IF req[r].todo = {} THEN Idle ELSE [req[r] EXCEPT !.at = "notify"]
    OBVIOUS
  <1>3. /\ req' = [req EXCEPT ![r] = q] /\ q \in {Idle} \cup Passes
        /\ req[r].todo = {} => q = Idle /\ passed'
        /\ req[r].todo # {} => q.op = "remind" /\ q.todo = req[r].todo /\ passed' = passed
    BY <1>1, <1>2, PassShape DEF MarkReminded, Done, GoTo, Passes, RemindersInv
  <1>4. /\ req' \in [Requests -> {Idle} \cup Passes]
        /\ req'[r] = q /\ \A x \in Requests \ {r} : req'[x] = req[x]
    BY <1>3, PassGoes DEF RemindersInv
  <1>5. RemindersTypes'
    <2>1. ago' \in 0..MaxAgo
      BY <1>1 DEF RemindersInv, RemindersTypes, RemindersOK, MaxAgo
    <2> QED BY <1>1, <1>4, <2>1 DEF RemindersInv, RemindersTypes, RemindersOK
  <1>6. left <= 90
    BY <1>1 DEF RemindersInv, NothingDue
  <1>7. NothingDue'
    BY <1>1, <1>6, Numbers DEF NothingDue, RemindersInv, RemindersTypes
  <1>8. WithinQuota'
    <2>1. SUFFICES ASSUME mix \cap {"overlap", "stop"} = {} PROVE WithinQuota'
      BY <1>1 DEF WithinQuota
    <2>2. /\ \A x \in Requests : req[x].op = "remind" => x = r
          /\ \A f \in FSOs : mails[f] <= Spared(r, f)
      BY <1>1, <2>1 DEF RemindersInv, WithinQuota
    <2>3. ago' = 0 /\ Quota(left, 0) \in Nat /\ Quota(left, ago)' = Quota(left, 0)
            /\ Quota(left, 0)' = Quota(left, 0)
      BY <1>1, <2>1 DEF Quota
    <2>4. ASSUME NEW f \in FSOs PROVE mails'[f] <= Quota(left, ago)'
      BY <1>1, <2>2, <2>3, Numbers DEF Spared, RemindersInv, RemindersTypes
    <2>5. ASSUME req'[r].op = "remind", NEW f \in FSOs PROVE mails'[f] <= Spared(r, f)'
      <3>1. req'[r].todo = req[r].todo
        BY <1>3, <1>4, <2>5 DEF Idle
      <3> QED BY <1>1, <2>2, <2>3, <3>1 DEF Spared
    <2> QED BY <1>4, <2>2, <2>4, <2>5 DEF WithinQuota
  <1>9. NobodyForgotten'
    <2>1. SUFFICES ASSUME mix \cap {"stop", "change"} = {} PROVE NobodyForgotten'
      BY <1>1 DEF NobodyForgotten
    <2>2. /\ \A x \in Requests : req[x].op = "remind" =>
               \A f \in covers \ summary : f \in req[x].todo \/ mails[f] > 0
          /\ passed /\ left <= 90 /\ LastDayOf(BucketOf(left)) => Told
      BY <2>1 DEF RemindersInv, NobodyForgotten
    <2>3. LastDayOf(BucketOf(left))' = LastDayOf(BucketOf(left)) /\ (Told' <=> Told)
      BY <1>1 DEF LastDayOf, BucketOf, Told
    <2>4. \A x \in Requests : req'[x].op = "remind" =>
               \A f \in covers' \ summary' : f \in req'[x].todo \/ mails'[f] > 0
      BY <1>1, <1>3, <1>4, <2>2 DEF Idle
    <2>5. CASE req[r].todo = {}
      <3>1. Told
        BY <1>1, <2>2, <2>5 DEF Told
      <3> QED BY <2>3, <2>4, <3>1 DEF NobodyForgotten
    <2>6. CASE req[r].todo # {}
      <3>1. Running'
        BY <1>3, <1>4, <2>6 DEF Running
      <3> QED BY <1>1, <1>3, <2>2, <2>3, <2>4, <2>6, <3>1 DEF NobodyForgotten
    <2> QED BY <2>5, <2>6
  <1> QED BY <1>1, <1>5, <1>7, <1>8, <1>9 DEF RemindersInv

LEMMA PassStops ==
  ASSUME RemindersInv, NEW r \in Requests, "stop" \in mix, Abandon(r), passed' = TRUE,
         UNCHANGED <<left, ago, covers, summary, mails>>
  PROVE  RemindersInv' /\ mix' = mix
  <1>1. mix' = mix /\ req[r] # Idle /\ req' = [req EXCEPT ![r] = Idle]
    BY DEF Abandon, Done
  <1>2. /\ req' \in [Requests -> {Idle} \cup Passes]
        /\ req'[r] = Idle /\ \A x \in Requests \ {r} : req'[x] = req[x]
    BY <1>1, PassGoes DEF RemindersInv
  <1>3. RemindersTypes'
    BY <1>2 DEF RemindersInv, RemindersTypes, RemindersOK
  <1>4. NothingDue'
    BY <1>2 DEF RemindersInv, NothingDue, Running, Idle
  <1>5. WithinQuota' /\ NobodyForgotten'
    BY <1>1 DEF WithinQuota, NobodyForgotten
  <1> QED BY <1>1, <1>3, <1>4, <1>5 DEF RemindersInv

LEMMA ListNothingStep ==
  ASSUME RemindersInv, ListNothing
  PROVE  RemindersInv' /\ mix' = mix
  <1>1. passed' /\ ~Running /\ (MayPass(BucketOf(left)) \/ covers = {})
        /\ UNCHANGED <<mix, req, left, ago, covers, summary, mails>>
    BY DEF ListNothing
  <1>2. RemindersTypes'
    BY DEF ListNothing, RemindersInv, RemindersTypes, RemindersOK
  <1>3. NothingDue' /\ WithinQuota'
    BY <1>1 DEF RemindersInv, NothingDue, Running, WithinQuota, Spared, Quota
  <1>4. ASSUME mix \cap {"stop", "change"} = {}, left <= 90, LastDayOf(BucketOf(left))
        PROVE  Told
    <2>1. CASE covers = {}
      BY <2>1 DEF Told
    <2>2. CASE MayPass(BucketOf(left))
      <3>1. ~Audible(left, ago)
        BY <1>4, <2>2, Numbers
        DEF MayPass, Gate, Audible, LastDayOf, RemindersInv, RemindersTypes
      <3> QED BY <1>1, <1>4, <3>1 DEF RemindersInv, NobodyForgotten
    <2> QED BY <1>1, <2>1, <2>2
  <1>5. NobodyForgotten'
    BY <1>1, <1>4 DEF RemindersInv, NobodyForgotten, Running, Told, Audible, LastDayOf, BucketOf
  <1> QED BY <1>1, <1>2, <1>3, <1>5 DEF RemindersInv

LEMMA NextDayStep ==
  ASSUME RemindersInv, NextDay
  PROVE  RemindersInv' /\ mix' = mix
  <1>1. /\ passed /\ ~Running /\ left > -MaxLate /\ left' = left - 1
        /\ ago' = (IF ago < 61 THEN ago + 1 ELSE ago) /\ passed' = FALSE
        /\ UNCHANGED <<mix, req, covers, summary>>
        /\ mails' = IF BucketOf(left') # BucketOf(left) \/ left' < 0
                      THEN [f \in FSOs |-> 0] ELSE mails
    BY DEF NextDay, MaxAgo
  <1>2. /\ left \in Int /\ left <= 91 /\ left >= -MaxLate /\ MaxLate \in Nat
        /\ ago \in Nat /\ ago <= 61 /\ \A f \in FSOs : mails[f] \in Nat
        /\ BucketOf(left) = IF left < 0 THEN "overdue" ELSE IF left <= 30 THEN "d30"
                            ELSE IF left <= 90 THEN "d90" ELSE "none"
        /\ BucketOf(left') = IF left' < 0 THEN "overdue" ELSE IF left' <= 30 THEN "d30"
                             ELSE IF left' <= 90 THEN "d90" ELSE "none"
    <2>1. /\ left \in Int /\ left <= 91 /\ left >= -MaxLate /\ MaxLate \in Nat
          /\ ago \in Nat /\ ago <= 61 /\ \A f \in FSOs : mails[f] \in Nat
      BY Numbers DEF RemindersInv, RemindersTypes
    <2>2. left' \in Int /\ left' <= 91
      BY <1>1, <2>1
    <2> QED BY <2>1, <2>2, Calendar
  <1>3. RemindersTypes'
    <2>1. left' \in -MaxLate..91 /\ ago' \in 0..61
      BY <1>1, <1>2
    <2>2. mails' \in [FSOs -> 0..3]
      BY <1>1 DEF RemindersInv, RemindersTypes, RemindersOK
    <2> QED BY <1>1, <2>1, <2>2 DEF RemindersInv, RemindersTypes, RemindersOK, MaxAgo
  <1>4. ~Running' /\ \A r \in Requests : req'[r].op # "remind"
    BY <1>1 DEF Running
  <1>5. NothingDue'
    BY <1>1, <1>2, <1>4 DEF NothingDue
  <1>6. left = 91 => ago = 61
    BY DEF RemindersInv, NothingDue, MaxAgo
  <1>7. CASE BucketOf(left') # BucketOf(left) \/ left' < 0
    <2>1. WithinQuota'
      <3>1. Quota(left, ago)' \in Nat /\ \A f \in FSOs : mails'[f] = 0
        BY <1>1, <1>7 DEF Quota
      <3> QED BY <1>4, <3>1 DEF WithinQuota
    <2>2. Audible(left, ago)'
      BY <1>1, <1>2, <1>6, <1>7 DEF Audible
    <2>3. NobodyForgotten'
      BY <1>1, <1>4, <2>2 DEF NobodyForgotten
    <2> QED BY <1>1, <1>3, <1>5, <2>1, <2>3 DEF RemindersInv
  <1>8. CASE BucketOf(left') = BucketOf(left) /\ ~(left' < 0)
    <2>1. mails' = mails
      BY <1>1, <1>8
    <2>2. WithinQuota'
      <3>1. Quota(left, ago) <= Quota(left, ago)' /\ Quota(left, ago) \in Nat
              /\ Quota(left, ago)' \in Nat
        BY <1>1, <1>2, <1>8 DEF Quota
      <3>2. ASSUME mix \cap {"overlap", "stop"} = {}
            PROVE  \A f \in FSOs : mails'[f] <= Quota(left, ago)'
        <4>1. \A f \in FSOs : mails[f] <= Quota(left, ago)
          BY <1>1, <3>2 DEF RemindersInv, WithinQuota
        <4> QED BY <1>2, <2>1, <3>1, <4>1
      <3> QED BY <1>1, <1>4, <3>2 DEF WithinQuota
    <2>3. NobodyForgotten'
      <3>1. Audible(left, ago) => Audible(left, ago)'
        BY <1>1, <1>2, <1>6, <1>8 DEF Audible, MaxAgo
      <3>2. Told => Told'
        BY <1>1, <2>1 DEF Told
      <3> QED BY <1>1, <1>4, <3>1, <3>2 DEF RemindersInv, NobodyForgotten
    <2> QED BY <1>1, <1>3, <1>5, <2>2, <2>3 DEF RemindersInv
  <1> QED BY <1>7, <1>8

LEMMA FSOsChange ==
  ASSUME RemindersInv,
         \/ \E f \in FSOs : SetPrimaryFSO(f) \/ ChooseFrequency(f)
         \/ UNCHANGED <<mix, req, reminderVars>>
  PROVE  RemindersInv' /\ mix' = mix
  <1>1. /\ UNCHANGED <<mix, req, left, ago, passed, mails>>
        /\ covers' \subseteq FSOs /\ summary' \subseteq FSOs
        /\ "change" \in mix \/ UNCHANGED <<covers, summary>>
    BY DEF SetPrimaryFSO, ChooseFrequency, reminderVars, RemindersInv, RemindersTypes, RemindersOK
  <1>2. RemindersTypes' /\ NothingDue' /\ WithinQuota'
    BY <1>1 DEF RemindersInv, RemindersTypes, RemindersOK, NothingDue, WithinQuota, Running,
                Spared, Quota
  <1>3. NobodyForgotten'
    BY <1>1 DEF RemindersInv, NobodyForgotten, Running, Told, Audible, LastDayOf, BucketOf
  <1> QED BY <1>1, <1>2, <1>3 DEF RemindersInv

LEMMA RemindersStay ==
  ASSUME RemindersInv, [RemindersNext]_<<mix, req, reminderVars>>
  PROVE  RemindersInv' /\ mix' = mix
  BY ListStep, NotifyDueStep, MarkRemindedStep, PassStops, ListNothingStep, NextDayStep,
     FSOsChange DEF RemindersNext

(* While passes neither overlap nor stop and FSOs stay, an FSO who wants   *)
(* mails is told once in the 90-day bucket, once or twice in the 30-day    *)
(* bucket and once a day when the date is past; at most that often in any  *)
(* case but overlapping and stopped passes (reminders/reminders.go:187).   *)
THEOREM RemindersReach == RemindersSpec => []ToldInEveryBucket
  <1>1. HandlersInit /\ RemindersInit => RemindersInv
    BY RemindersStart
  <1>2. RemindersInv /\ [RemindersNext]_<<mix, req, reminderVars>> => RemindersInv'
    BY RemindersStay
  <1>3. ASSUME RemindersInv PROVE ToldInEveryBucket
    <2>1. BucketOf(left) # "none" => left <= 90
      BY <1>3, Numbers DEF RemindersInv, RemindersTypes
    <2>2. Quota(left, ago) <= AtMost(BucketOf(left)) /\ Quota(left, 0) <= AtMost(BucketOf(left))
            /\ Quota(left, ago) \in Nat /\ Quota(left, 0) \in Nat /\ AtMost(BucketOf(left)) \in Nat
      BY <1>3, Numbers DEF RemindersInv, RemindersTypes, Quota, AtMost
    <2>3. ASSUME mix \cap {"overlap", "stop"} = {}, NEW f \in FSOs
          PROVE  mails[f] <= AtMost(BucketOf(left))
      <3>1. mails[f] \in Nat
        BY <1>3, Numbers DEF RemindersInv, RemindersTypes
      <3>2. CASE ~Running
        <4>1. mails[f] <= Quota(left, ago)
          BY <1>3, <2>3, <3>2 DEF RemindersInv, WithinQuota
        <4> QED BY <2>2, <3>1, <4>1
      <3>3. CASE Running
        <4>1. PICK r \in Requests : mails[f] <= Spared(r, f)
          BY <1>3, <2>3, <3>3 DEF RemindersInv, WithinQuota, Running
        <4> QED BY <2>2, <3>1, <4>1 DEF Spared
      <3> QED BY <3>2, <3>3
    <2>4. BucketOf(left) # "none" /\ LastDayOf(BucketOf(left)) /\ passed
            /\ mix \cap {"stop", "change"} = {} => Told
      BY <1>3, <2>1 DEF RemindersInv, NobodyForgotten
    <2> QED BY <2>3, <2>4 DEF ToldInEveryBucket, Told
  <1> QED BY <1>1, <1>2, <1>3, PTL DEF RemindersSpec

-----------------------------------------------------------------------------
Calling == [op : {"chat"}, at : {"ask", "stream", "record"}]

(* The requests that passed the count, and those of them that have called. *)
Admitted == {r \in Requests : req[r].op = "chat"}
Asked == {r \in Requests : req[r].op = "chat" /\ req[r].at \in {"stream", "record"}}

Most == DailyLimit + Cardinality(Requests) - 1

ChatInv ==
  /\ req \in [Requests -> {Idle} \cup Calling]
  /\ used \in Nat /\ calls \in Nat /\ broken \in Nat
  /\ used + Cardinality(Admitted) <= Most
  /\ calls <= used + broken + Cardinality(Asked)
  /\ calls <= MaxCalls /\ broken + Cardinality(Asked) <= calls + Cardinality(Requests)

LEMMA ChatSizes ==
  /\ Cardinality(Requests) \in Nat /\ Most \in Nat
  /\ Cardinality(Admitted) \in Nat /\ Cardinality(Admitted) <= Cardinality(Requests)
  /\ Cardinality(Asked) \in Nat /\ Cardinality(Asked) <= Cardinality(Admitted)
  <1>1. IsFiniteSet(Requests) /\ DailyLimit \in Nat \ {0}
    BY ChatAssumption
  <1>2. Admitted \subseteq Requests /\ Asked \subseteq Admitted
    BY DEF Admitted, Asked
  <1>3. IsFiniteSet(Admitted) /\ Cardinality(Admitted) <= Cardinality(Requests)
    BY <1>1, <1>2, FS_Subset
  <1>4. IsFiniteSet(Asked) /\ Cardinality(Asked) <= Cardinality(Admitted)
    BY <1>2, <1>3, FS_Subset
  <1> QED BY <1>1, <1>3, <1>4, FS_CardinalityType DEF Most

LEMMA ChatStarts ==
  ASSUME HandlersInit, ChatInit
  PROVE  ChatInv
  <1>1. Admitted = {} /\ Asked = {}
    BY DEF HandlersInit, Admitted, Asked, Idle
  <1>2. calls = 0 /\ broken = 0 /\ used = 0 /\ MaxCalls \in Nat
    BY ChatAssumption DEF ChatInit
  <1> QED BY <1>1, <1>2, ChatSizes, FS_EmptySet DEF HandlersInit, ChatInv

(* How the sizes change when one request moves.                            *)
LEMMA OneCaller ==
  ASSUME NEW S \in SUBSET Requests, NEW r \in Requests
  PROVE  /\ r \notin S => Cardinality(S \cup {r}) = Cardinality(S) + 1
         /\ r \in S => Cardinality(S \ {r}) = Cardinality(S) - 1
  BY ChatAssumption, FS_Subset, FS_AddElement, FS_RemoveElement

LEMMA CallMoves ==
  ASSUME ChatInv, NEW r \in Requests, NEW q \in {Idle} \cup Calling,
         req' = [req EXCEPT ![r] = q]
  PROVE  /\ req' \in [Requests -> {Idle} \cup Calling]
         /\ Admitted' = IF q = Idle THEN Admitted \ {r} ELSE Admitted \cup {r}
         /\ Asked' = IF q # Idle /\ q.at # "ask" THEN Asked \cup {r} ELSE Asked \ {r}
  <1>1. /\ req' \in [Requests -> {Idle} \cup Calling]
        /\ req'[r] = q /\ \A x \in Requests \ {r} : req'[x] = req[x]
    BY DEF ChatInv
  <1>2. q.op = "chat" <=> q # Idle
    BY DEF Calling, Idle
  <1>3. q # Idle => q.at \in {"ask", "stream", "record"}
    BY DEF Calling
  <1> QED BY <1>1, <1>2, <1>3 DEF Admitted, Asked

LEMMA CallShape ==
  ASSUME ChatInv, NEW r \in Requests, req[r].op = "chat"
  PROVE  /\ req[r] \in Calling /\ r \in Admitted
         /\ r \in Asked <=> req[r].at # "ask"
         /\ \A s \in {"stream", "record"} :
              /\ [req[r] EXCEPT !.at = s] \in Calling
              /\ [req[r] EXCEPT !.at = s] # Idle
              /\ [req[r] EXCEPT !.at = s].at = s
  BY DEF ChatInv, Calling, Idle, Admitted, Asked

LEMMA ChatStays ==
  ASSUME ChatInv, [ChatNext]_<<mix, req, chatVars>>
  PROVE  ChatInv'
  <1>0. Admitted \subseteq Requests /\ Asked \subseteq Requests
    BY DEF Admitted, Asked
  <1>1. ASSUME NEW r \in Requests, CountUser(r)
        PROVE  ChatInv'
    <2> DEFINE q == [op |-> "chat", at |-> "ask"]
    <2>1. q \in Calling /\ q # Idle /\ q.at = "ask"
      BY DEF Calling, Idle
    <2>2. /\ req' = [req EXCEPT ![r] = q] /\ req[r] = Idle
          /\ UNCHANGED <<used, calls, broken>> /\ used < DailyLimit
      BY <1>1 DEF CountUser, Begin, MayCall, chatVars
    <2> HIDE DEF q
    <2>3. /\ req' \in [Requests -> {Idle} \cup Calling]
          /\ Admitted' = Admitted \cup {r} /\ Asked' = Asked \ {r}
      BY <2>1, <2>2, CallMoves
    <2>4. r \notin Asked /\ r \notin Admitted
      BY <2>2 DEF Admitted, Asked, Idle
    <2>5. Asked' = Asked /\ Cardinality(Admitted') <= Cardinality(Requests)
      BY <2>3, <2>4, ChatAssumption, FS_Subset, <1>0
    <2>6. Cardinality(Admitted') = Cardinality(Admitted) + 1
      BY <1>0, <2>3, <2>4, OneCaller
    <2>7. used' + Cardinality(Admitted') <= Most
      BY <2>2, <2>5, <2>6, ChatSizes, ChatAssumption DEF ChatInv, Most
    <2> QED BY <2>2, <2>3, <2>5, <2>7 DEF ChatInv, Most
  <1>2. ASSUME NEW r \in Requests, Ask(r)
        PROVE  ChatInv'
    <2>1. /\ req[r].op = "chat" /\ req[r].at = "ask" /\ calls' = calls + 1
          /\ UNCHANGED <<used, broken>>
          /\ req' = [req EXCEPT ![r] = [req[r] EXCEPT !.at = "stream"]]
      BY <1>2 DEF Ask, At, GoTo
    <2>2. /\ req' \in [Requests -> {Idle} \cup Calling]
          /\ Admitted' = Admitted \cup {r} /\ Asked' = Asked \cup {r}
      BY <2>1, CallShape, CallMoves
    <2>3. Admitted' = Admitted /\ Cardinality(Asked') = Cardinality(Asked) + 1
      BY <1>0, <2>1, <2>2, CallShape, OneCaller
    <2>4. calls' <= used' + broken' + Cardinality(Asked')
      BY <2>1, <2>3, ChatSizes DEF ChatInv
    <2>5. used' + Cardinality(Admitted') <= Most /\ calls' \in Nat
      BY <2>1, <2>3 DEF ChatInv
    <2>6. calls' <= MaxCalls /\ broken' + Cardinality(Asked') <= calls' + Cardinality(Requests)
      BY <1>2, <2>1, <2>3, ChatSizes, ChatAssumption DEF Ask, ChatInv
    <2> QED BY <2>1, <2>2, <2>4, <2>5, <2>6 DEF ChatInv, Most
  <1>3. ASSUME NEW r \in Requests, req[r].op = "chat", req[r].at = "stream",
               req' = [req EXCEPT ![r] = [req[r] EXCEPT !.at = "record"]],
               UNCHANGED <<used, calls, broken>>
        PROVE  ChatInv'
    <2>1. /\ req' \in [Requests -> {Idle} \cup Calling]
          /\ Admitted' = Admitted \cup {r} /\ Asked' = Asked \cup {r}
      BY <1>3, CallShape, CallMoves
    <2>2. Admitted' = Admitted /\ Asked' = Asked
      BY <1>3, <2>1, CallShape
    <2> QED BY <1>3, <2>1, <2>2 DEF ChatInv
  <1>4. ASSUME NEW r \in Requests, req[r].op = "chat", Done(r), calls' = calls,
               \/ used' = used + 1 /\ broken' = broken
               \/ used' = used /\ broken' = broken + 1 /\ req[r].at # "ask"
               \/ used' = used /\ broken' = broken /\ req[r].at = "ask"
        PROVE  ChatInv'
    <2>1. /\ req' \in [Requests -> {Idle} \cup Calling]
          /\ Admitted' = Admitted \ {r} /\ Asked' = Asked \ {r}
      BY <1>4, CallMoves DEF Done
    <2>2. Cardinality(Admitted') = Cardinality(Admitted) - 1
      BY <1>0, <1>4, <2>1, CallShape, OneCaller
    <2>3. CASE req[r].at = "ask"
      <3>1. Asked' = Asked
        BY <1>4, <2>1, <2>3, CallShape
      <3>2. /\ used' \in Nat /\ calls' = calls /\ broken' = broken
            /\ (used' = used + 1 \/ used' = used)
        BY <1>4, <2>3 DEF ChatInv
      <3>3. /\ used' + Cardinality(Admitted') <= Most
            /\ calls' <= used' + broken' + Cardinality(Asked')
            /\ calls' <= MaxCalls /\ broken' + Cardinality(Asked') <= calls' + Cardinality(Requests)
        BY <2>2, <3>1, <3>2, ChatSizes DEF ChatInv
      <3> QED BY <2>1, <3>2, <3>3 DEF ChatInv, Most
    <2>4. CASE req[r].at # "ask"
      <3>1. Cardinality(Asked') = Cardinality(Asked) - 1
        BY <1>0, <1>4, <2>1, <2>4, CallShape, OneCaller
      <3>2. /\ used' \in Nat /\ calls' \in Nat /\ broken' \in Nat
            /\ used' + Cardinality(Admitted') <= Most
            /\ calls' <= used' + broken' + Cardinality(Asked')
            /\ calls' <= MaxCalls /\ broken' + Cardinality(Asked') <= calls' + Cardinality(Requests)
        BY <1>4, <2>2, <2>4, <3>1, ChatSizes DEF ChatInv
      <3> QED BY <2>1, <3>2 DEF ChatInv, Most
    <2> QED BY <2>3, <2>4
  <1>5. ASSUME NEW r \in Requests, Stream(r)
        PROVE  ChatInv'
    BY <1>3, <1>4, <1>5 DEF Stream, At, GoTo
  <1>6. ASSUME NEW r \in Requests, Record(r)
        PROVE  ChatInv'
    BY <1>4, <1>6 DEF Record, At
  <1>7. ASSUME NEW r \in Requests, Abandon(r), req[r].op = "chat",
               broken' = broken + (IF req[r].at = "ask" THEN 0 ELSE 1),
               UNCHANGED <<used, calls>>
        PROVE  ChatInv'
    <2>1. broken \in Nat
      BY DEF ChatInv
    <2> QED BY <1>4, <1>7, <2>1 DEF Abandon
  <1>8. CASE MidnightUTC
    <2>1. Admitted' = Admitted /\ Asked' = Asked
      BY <1>8 DEF MidnightUTC, Admitted, Asked
    <2>2. Cardinality(Asked) <= Cardinality(Requests) /\ MaxCalls \in Nat
      BY ChatSizes, ChatAssumption
    <2> QED BY <1>8, <2>1, <2>2, ChatSizes DEF MidnightUTC, ChatInv
  <1>9. CASE UNCHANGED <<mix, req, chatVars>>
    BY <1>9 DEF ChatInv, Admitted, Asked, chatVars
  <1> QED BY <1>1, <1>2, <1>5, <1>6, <1>7, <1>8, <1>9 DEF ChatNext

(* A day's calls exceed the limit by the other requests and the calls that *)
(* broke off, and no more (chat/handler.go:137).                           *)
THEOREM CallsBounded == ChatSpec => []LimitExceededOnlyByOverlap
  <1>1. HandlersInit /\ ChatInit => ChatInv
    BY ChatStarts
  <1>2. ChatInv /\ [ChatNext]_<<mix, req, chatVars>> => ChatInv'
    BY ChatStays
  <1>3. ChatInv => LimitExceededOnlyByOverlap
    BY ChatSizes DEF ChatInv, LimitExceededOnlyByOverlap, Most
  <1> QED BY <1>1, <1>2, <1>3, PTL DEF ChatSpec

-----------------------------------------------------------------------------
(* The mix of operations is that of the behaviour.                         *)
LEMMA BoardSameMix ==
  ASSUME BoardNext PROVE mix' = mix
  BY DEF BoardNext, DraftReport, Cancel, MarkUnderReview, CreateVisit, CreateReport,
         SubmitReport, File, CreateEntry, AdminUpdateVisit, AdminUpdateReport, ApproveReport,
         RejectReport, Review, ResolveBySource, UpdateEntry, Cascade, Abandon

LEMMA DocumentsSameMix ==
  ASSUME DocumentsNext PROVE mix' = mix
  BY DEF DocumentsNext, UploadForm, UploadToPost, UploadToReport, UploadFile, Scan, StoreBlob,
         InsertFile, AdminDeleteFile, DeleteUpload, DeleteFile, RemoveBlob, CreateOwner,
         DeletePost, Abandon

LEMMA ChatSameMix ==
  ASSUME ChatNext PROVE mix' = mix
  BY DEF ChatNext, CountUser, Ask, Stream, Record, MidnightUTC, Abandon

LEMMA ChatTyped ==
  ASSUME ChatInv PROVE ChatOK
  <1>1. /\ Cardinality(Requests) \in Nat /\ Cardinality(Admitted) \in Nat
        /\ Cardinality(Asked) \in Nat /\ MaxCalls \in Nat /\ DailyLimit \in Nat \ {0}
    BY ChatSizes, ChatAssumption
  <1>2. used <= DailyLimit + Cardinality(Requests) /\ broken <= MaxCalls + Cardinality(Requests)
    BY <1>1 DEF ChatInv, Most
  <1> QED BY <1>1, <1>2 DEF ChatInv, ChatOK

(* A form that is linked, read on to or about to be named has been there.  *)
FormsThere ==
  \A r \in Requests : req[r] # Idle => \A f \in req[r].forms \cap Forms : form[f] # "none"

LEMMA ContractsTyped ==
  ASSUME ContractsInv, ContractsOK, FormsThere, ContractsNext
  PROVE  ContractsOK' /\ FormsThere' /\ mix' = mix
  <1>1. ASSUME NEW f \in Forms, UploadDD254(f) \/ DeleteForm(f)
        PROVE  ContractsOK' /\ FormsThere' /\ mix' = mix
    <2>1. /\ UNCHANGED <<mix, req, reading, contract, terms>> /\ lost' \subseteq Forms
          /\ form' \in [Forms -> {"none", "active", "superseded"}]
          /\ \A g \in Forms : form[g] # "none" => form'[g] # "none"
      BY <1>1 DEF UploadDD254, DeleteForm, Lose, ContractsOK
    <2> QED BY <2>1 DEF ContractsOK, FormsThere
  <1>2. ASSUME NEW f \in Forms, RevokeAccess(f) \/ \E debriefed \in BOOLEAN : GrantAccess(f, debriefed)
        PROVE  ContractsOK' /\ FormsThere' /\ mix' = mix
    <2>1. /\ UNCHANGED <<mix, req, form, contract, terms>> /\ lost' \subseteq Forms
          /\ reading' \in [Forms -> {"none", "on", "debriefed"}]
          /\ \A g \in Forms : reading'[g] # "none" => reading[g] # "none" \/ form[g] # "none"
      BY <1>2 DEF RevokeAccess, GrantAccess, Granted, Lose, ContractsOK
    <2> QED BY <2>1 DEF ContractsOK, FormsThere
  <1>3. ASSUME NEW r \in Requests, NEW q, Begin(r, q), UNCHANGED <<mix, contractVars>>,
               \A f \in q.forms \cap Forms : form[f] # "none"
        PROVE  ContractsOK' /\ FormsThere' /\ mix' = mix
    <2>1. req'[r] = q /\ \A x \in Requests \ {r} : req'[x] = req[x]
      BY <1>3 DEF Begin, ContractsInv
    <2> QED BY <1>3, <2>1 DEF ContractsOK, FormsThere, contractVars
  <1>4. ASSUME NEW r \in Requests, NEW f \in Forms \cup {"none"}, Declare(r, f)
        PROVE  ContractsOK' /\ FormsThere' /\ mix' = mix
    <2> DEFINE q == [op |-> "declare", at |-> "insert", forms |-> {f}]
    <2>1. q.forms = {f}
      OBVIOUS
    <2>2. Begin(r, q) /\ UNCHANGED <<mix, contractVars>>
      BY <1>4 DEF Declare
    <2>3. f \in Forms => form[f] # "none"
      BY <1>4, ContractsAssumption DEF Declare, UserHasAccess
    <2> HIDE DEF q
    <2> QED BY <1>3, <2>1, <2>2, <2>3
  <1>5. ASSUME NEW r \in Requests, SuggestForVisit(r)
        PROVE  ContractsOK' /\ FormsThere' /\ mix' = mix
    <2> DEFINE q == [op |-> "panel", at |-> "offer", forms |-> Suggested]
    <2>1. q.forms = Suggested /\ \A f \in Suggested : form[f] # "none"
      BY DEF Suggested
    <2>2. Begin(r, q) /\ UNCHANGED <<mix, contractVars>>
      BY <1>5 DEF SuggestForVisit
    <2> HIDE DEF q
    <2> QED BY <1>3, <2>1, <2>2
  <1>6. ASSUME NEW r \in Requests, req[r] # Idle, Done(r), UNCHANGED <<mix, form, reading, terms, lost>>,
               contract' \in {contract, "none"} \cup req[r].forms
        PROVE  ContractsOK' /\ FormsThere' /\ mix' = mix
    <2>1. req'[r] = Idle /\ \A x \in Requests \ {r} : req'[x] = req[x]
      BY <1>6 DEF Done, ContractsInv
    <2>2. req[r].forms \subseteq Forms \cup {"none"}
      BY <1>6 DEF ContractsInv, Namings
    <2>3. /\ contract' \in Forms \cup {"unmade", "none"}
          /\ contract' \in Forms => form[contract'] # "none"
      BY <1>6, <2>2, ContractsAssumption DEF ContractsOK, FormsThere
    <2>4. ContractsOK'
      BY <1>6, <2>3 DEF ContractsOK
    <2> QED BY <1>6, <2>1, <2>4 DEF FormsThere
  <1>7. ASSUME NEW r \in Requests, InsertVisit(r)
        PROVE  ContractsOK' /\ FormsThere' /\ mix' = mix
    <2>1. /\ req[r] # Idle /\ req[r].op = "declare" /\ Done(r)
          /\ UNCHANGED <<mix, form, reading, terms, lost>>
          /\ contract' = IF contract = "unmade" THEN CHOOSE f \in req[r].forms : TRUE ELSE contract
      BY <1>7 DEF InsertVisit, At, Idle
    <2>2. req[r].forms # {}
      BY <2>1 DEF ContractsInv, Named
    <2>3. contract' \in {contract, "none"} \cup req[r].forms
      BY <2>1, <2>2
    <2> QED BY <1>6, <2>1, <2>3
  <1>8. ASSUME NEW f \in Forms \cup {"none"}, LinkVisitRequest(f)
        PROVE  ContractsOK' /\ FormsThere' /\ mix' = mix
    BY <1>8, ContractsAssumption
    DEF LinkVisitRequest, SetVisitRequestDD254, ContractsOK, FormsThere
  <1>9. ASSUME NEW r \in Requests, \/ Abandon(r) /\ UNCHANGED contractVars
                                   \/ ClosePanel(r)
        PROVE  ContractsOK' /\ FormsThere' /\ mix' = mix
    <2>1. /\ req[r] # Idle /\ Done(r) /\ UNCHANGED <<mix, contractVars>>
      BY <1>9 DEF Abandon, ClosePanel, At, Idle
    <2> QED BY <1>6, <2>1 DEF contractVars
  <1> QED BY <1>1, <1>2, <1>4, <1>5, <1>7, <1>8, <1>9 DEF ContractsNext

(* What a service keeps while a behaviour uses another.                    *)
LEMMA OthersRest ==
  ASSUME mix' = mix
  PROVE  /\ BoardOK /\ UNCHANGED boardVars => BoardOK'
         /\ ClearancesOK /\ UNCHANGED clearanceVars => ClearancesOK'
         /\ DocumentsOK /\ UNCHANGED documentVars => DocumentsOK'
         /\ DigestOK /\ UNCHANGED digestVars => DigestOK'
         /\ RemindersOK /\ UNCHANGED reminderVars => RemindersOK'
         /\ AssignmentsOK /\ UNCHANGED assignmentVars => AssignmentsOK'
         /\ ChatOK /\ UNCHANGED chatVars => ChatOK'
         /\ ContractsOK /\ UNCHANGED contractVars => ContractsOK'
  <1>1. BoardOK /\ UNCHANGED boardVars => BoardOK'
    BY DEF BoardOK, boardVars
  <1>2. ClearancesOK /\ UNCHANGED clearanceVars => ClearancesOK'
    BY DEF ClearancesOK, clearanceVars
  <1>3. DocumentsOK /\ UNCHANGED documentVars => DocumentsOK'
    BY DEF DocumentsOK, documentVars
  <1>4. DigestOK /\ UNCHANGED digestVars => DigestOK'
    BY DEF DigestOK, digestVars
  <1>5. RemindersOK /\ UNCHANGED reminderVars => RemindersOK'
    BY DEF RemindersOK, reminderVars
  <1>6. AssignmentsOK /\ UNCHANGED assignmentVars => AssignmentsOK'
    BY DEF AssignmentsOK, assignmentVars
  <1>7. ChatOK /\ UNCHANGED chatVars => ChatOK'
    BY DEF ChatOK, chatVars
  <1>8. ContractsOK /\ UNCHANGED contractVars => ContractsOK'
    BY DEF ContractsOK, contractVars
  <1> QED BY <1>1, <1>2, <1>3, <1>4, <1>5, <1>6, <1>7, <1>8

Services == {"file", "clear", "upload", "digest", "remind", "assign", "chat", "declare"}

LEMMA OneService ==
  ASSUME mix \in Operations
  PROVE  /\ \A s, t \in Services : On(s) /\ On(t) => s = t
         /\ On("file") => Kinds \cap mix # {}
  BY DEF Operations, Services, On, Kinds

(* The service in use keeps its invariant, the others their first types.   *)
ServicesInv ==
  /\ TypeOK
  /\ On("file") => BoardInv
  /\ On("clear") => ClearancesInv /\ Filed
  /\ On("upload") => DocumentsInv
  /\ On("digest") => DigestInv
  /\ On("remind") => RemindersInv
  /\ On("assign") => AssignmentsInv
  /\ On("chat") => ChatInv
  /\ On("declare") => ContractsInv /\ FormsThere

(* Whichever service a behaviour uses, every variable has its type and     *)
(* every reference is to what is there.                                    *)
THEOREM ServicesTypes ==
  ASSUME Mixes \subseteq Operations
  PROVE  Spec => []TypeOK
  <1>1. ASSUME Init PROVE ServicesInv
    <2>1. HandlersInit /\ mix \in Operations /\ mix \in Mixes
      BY <1>1 DEF Init, HandlersInit
    <2>2. /\ ClearancesInv /\ DocumentsInv /\ DigestInv /\ RemindersInv /\ AssignmentsInv
          /\ ChatInv /\ ContractsInv
      BY <1>1, <2>1, ClearancesStart, DocumentsStart, DigestStarts, RemindersStart,
         AssignmentsStart, ChatStarts, ContractsStarts DEF Init
    <2>3. On("file") => BoardInv
      BY <1>1, <2>1, BoardStarts, OneService DEF Init
    <2>4. BoardOK /\ ContractsOK
      BY <1>1, ContractsAssumption
      DEF Init, BoardInit, BoardOK, ContractsInit, ContractsOK
    <2>5. ClearancesOK /\ Filed
      <3>1. Setting = {}
        BY <2>1 DEF HandlersInit, Setting, Idle
      <3> QED BY <1>1, <3>1 DEF Init, ClearancesInit, ClearancesOK, Filed
    <2>6. FormsThere
      BY <2>1 DEF HandlersInit, FormsThere
    <2> QED BY <2>1, <2>2, <2>3, <2>4, <2>5, <2>6, ChatTyped
            DEF ServicesInv, TypeOK, DocumentsInv, FileTypes, DigestInv, DigestTypes,
                RemindersInv, RemindersTypes, AssignmentsInv, CreationTypes
  <1>2. ASSUME ServicesInv, [Next]_vars PROVE ServicesInv'
    <2>1. mix \in Operations /\ mix \in Mixes /\ TypeOK
      BY <1>2 DEF ServicesInv, TypeOK
    <2>2. ASSUME mix' = mix, NEW s \in Services, On(s)
          PROVE  \A t \in Services : On(t)' => t = s
      BY <2>1, <2>2, OneService DEF On
    <2>3. CASE UNCHANGED vars
      <3>1. /\ UNCHANGED <<mix, req>> /\ UNCHANGED boardVars /\ UNCHANGED clearanceVars
            /\ UNCHANGED documentVars /\ UNCHANGED digestVars /\ UNCHANGED reminderVars
            /\ UNCHANGED assignmentVars /\ UNCHANGED chatVars /\ UNCHANGED contractVars
        BY <2>3 DEF vars
      <3>2. TypeOK'
        BY <2>1, <3>1, OthersRest DEF TypeOK
      <3>3. /\ BoardInv => BoardInv'
            /\ ClearancesInv => ClearancesInv'
            /\ DocumentsInv => DocumentsInv'
            /\ DigestInv => DigestInv'
        BY <3>1, BoardStays, ClearancesStay, DocumentsStay, DigestStays
      <3>4. /\ RemindersInv => RemindersInv'
            /\ AssignmentsInv => AssignmentsInv'
            /\ ChatInv => ChatInv'
            /\ ContractsInv => ContractsInv'
        BY <3>1, RemindersStay, AssignmentsStay, ChatStays, ContractsStays
      <3>5. (Filed => Filed') /\ (FormsThere => FormsThere')
        BY <3>1 DEF Filed, Setting, FormsThere, clearanceVars, contractVars
      <3> QED BY <1>2, <3>1, <3>2, <3>3, <3>4, <3>5 DEF ServicesInv, On
    <2>4. CASE /\ On("file") /\ BoardNext
               /\ UNCHANGED <<clearanceVars, documentVars, digestVars, reminderVars,
                              assignmentVars, chatVars, contractVars>>
      <3>1. BoardInv' /\ mix' = mix
        BY <1>2, <2>4, BoardStays, BoardSameMix DEF ServicesInv
      <3>2. TypeOK'
        BY <2>1, <2>4, <3>1, OthersRest DEF TypeOK, BoardInv, BoardTypes
      <3> QED BY <2>2, <2>4, <3>1, <3>2 DEF ServicesInv, Services
    <2>5. CASE /\ On("clear") /\ ClearancesNext
               /\ UNCHANGED <<boardVars, documentVars, digestVars, reminderVars,
                              assignmentVars, chatVars, contractVars>>
      <3>1. ClearancesInv' /\ Filed' /\ ClearancesOK' /\ mix' = mix
        BY <1>2, <2>1, <2>5, ClearancesStay, ClearancesTyped DEF ServicesInv, TypeOK
      <3>2. TypeOK'
        BY <2>1, <2>5, <3>1, OthersRest DEF TypeOK
      <3> QED BY <2>2, <2>5, <3>1, <3>2 DEF ServicesInv, Services
    <2>6. CASE /\ On("upload") /\ DocumentsNext
               /\ UNCHANGED <<boardVars, clearanceVars, digestVars, reminderVars,
                              assignmentVars, chatVars, contractVars>>
      <3>1. DocumentsInv' /\ mix' = mix
        BY <1>2, <2>6, DocumentsStay, DocumentsSameMix DEF ServicesInv
      <3>2. TypeOK'
        BY <2>1, <2>6, <3>1, OthersRest DEF TypeOK, DocumentsInv, FileTypes
      <3> QED BY <2>2, <2>6, <3>1, <3>2 DEF ServicesInv, Services
    <2>7. CASE /\ On("digest") /\ DigestNext
               /\ UNCHANGED <<boardVars, clearanceVars, documentVars, reminderVars,
                              assignmentVars, chatVars, contractVars>>
      <3>1. DigestInv' /\ mix' = mix
        BY <1>2, <2>7, DigestStays DEF ServicesInv
      <3>2. TypeOK'
        BY <2>1, <2>7, <3>1, OthersRest DEF TypeOK, DigestInv, DigestTypes
      <3> QED BY <2>2, <2>7, <3>1, <3>2 DEF ServicesInv, Services
    <2>8. CASE /\ On("remind") /\ RemindersNext
               /\ UNCHANGED <<boardVars, clearanceVars, documentVars, digestVars,
                              assignmentVars, chatVars, contractVars>>
      <3>1. RemindersInv' /\ mix' = mix
        BY <1>2, <2>8, RemindersStay DEF ServicesInv
      <3>2. TypeOK'
        BY <2>1, <2>8, <3>1, OthersRest DEF TypeOK, RemindersInv, RemindersTypes
      <3> QED BY <2>2, <2>8, <3>1, <3>2 DEF ServicesInv, Services
    <2>9. CASE /\ On("assign") /\ AssignmentsNext
               /\ UNCHANGED <<boardVars, clearanceVars, documentVars, digestVars,
                              reminderVars, chatVars, contractVars>>
      <3>1. AssignmentsInv' /\ mix' = mix
        BY <1>2, <2>9, AssignmentsStay DEF ServicesInv
      <3>2. TypeOK'
        BY <2>1, <2>9, <3>1, OthersRest DEF TypeOK, AssignmentsInv, CreationTypes
      <3> QED BY <2>2, <2>9, <3>1, <3>2 DEF ServicesInv, Services
    <2>10. CASE /\ On("chat") /\ ChatNext
                /\ UNCHANGED <<boardVars, clearanceVars, documentVars, digestVars,
                               reminderVars, assignmentVars, contractVars>>
      <3>1. ChatInv' /\ mix' = mix
        BY <1>2, <2>10, ChatStays, ChatSameMix DEF ServicesInv
      <3>2. ChatOK'
        BY <3>1, ChatTyped, PTL
      <3>3. TypeOK'
        BY <2>1, <2>10, <3>1, <3>2, OthersRest DEF TypeOK
      <3> QED BY <2>2, <2>10, <3>1, <3>3 DEF ServicesInv, Services
    <2>11. CASE /\ On("declare") /\ ContractsNext
                /\ UNCHANGED <<boardVars, clearanceVars, documentVars, digestVars,
                               reminderVars, assignmentVars, chatVars>>
      <3>1. ContractsInv' /\ ContractsOK' /\ FormsThere' /\ mix' = mix
        BY <1>2, <2>1, <2>11, ContractsStays, ContractsTyped DEF ServicesInv, TypeOK
      <3>2. TypeOK'
        BY <2>1, <2>11, <3>1, OthersRest DEF TypeOK
      <3> QED BY <2>2, <2>11, <3>1, <3>2 DEF ServicesInv, Services
    <2> QED BY <1>2, <2>3, <2>4, <2>5, <2>6, <2>7, <2>8, <2>9, <2>10, <2>11 DEF Next
  <1>3. ServicesInv => TypeOK
    BY DEF ServicesInv
  <1> QED BY <1>1, <1>2, <1>3, PTL DEF Spec

-----------------------------------------------------------------------------
(* A behaviour of the services is a behaviour of the one it uses, and the  *)
(* others stay as they began.                                              *)
LEMMA MixStays ==
  ASSUME [Next]_vars PROVE mix' = mix
  <1>1. ClearancesNext => mix' = mix
    BY DEF ClearancesNext, SetClearance, Supersede, InsertRecord, Repoint, RemoveMember, Abandon
  <1>2. DigestNext => mix' = mix
    BY DEF DigestNext, CreateItem, Reassign, NotifyActionItemAssigned, ListEligible, CountForFSO,
           SendDailySummary, MarkSent, DeliverMail, SetFrequency, DayPasses, Abandon
  <1>3. RemindersNext => mix' = mix
    BY DEF RemindersNext, List, NotifyDue, MarkReminded, ListNothing, NextDay, SetPrimaryFSO,
           ChooseFrequency, Abandon
  <1>4. AssignmentsNext => mix' = mix
    BY DEF AssignmentsNext, CreateTask, InsertRequirement, InsertRule, ListContacts,
           NotifyTaskAssigned, Archive, Unarchive, Move, Abandon
  <1>5. ContractsNext => mix' = mix
    BY DEF ContractsNext, UploadDD254, DeleteForm, RevokeAccess, GrantAccess, Declare,
           LinkVisitRequest, InsertVisit, SuggestForVisit, ClosePanel, Abandon,
           SetVisitRequestDD254
  <1> QED BY <1>1, <1>2, <1>3, <1>4, <1>5, BoardSameMix, DocumentsSameMix, ChatSameMix
          DEF Next, vars

LEMMA Selected ==
  ASSUME mix \in Operations, [Next]_vars
  PROVE  /\ IF On("file") THEN [BoardNext]_<<mix, req, boardVars>> ELSE UNCHANGED boardVars
         /\ IF On("clear") THEN [ClearancesNext]_<<mix, req, clearanceVars>>
                           ELSE UNCHANGED clearanceVars
         /\ IF On("upload") THEN [DocumentsNext]_<<mix, req, documentVars>>
                            ELSE UNCHANGED documentVars
         /\ IF On("digest") THEN [DigestNext]_<<mix, req, digestVars>> ELSE UNCHANGED digestVars
         /\ IF On("remind") THEN [RemindersNext]_<<mix, req, reminderVars>>
                            ELSE UNCHANGED reminderVars
         /\ IF On("assign") THEN [AssignmentsNext]_<<mix, req, assignmentVars>>
                            ELSE UNCHANGED assignmentVars
         /\ IF On("chat") THEN [ChatNext]_<<mix, req, chatVars>> ELSE UNCHANGED chatVars
         /\ IF On("declare") THEN [ContractsNext]_<<mix, req, contractVars>>
                             ELSE UNCHANGED contractVars
  <1>1. \A s, t \in Services : On(s) /\ On(t) => s = t
    BY OneService
  <1>2. CASE UNCHANGED vars
    BY <1>2 DEF vars
  <1>3. CASE Next
    BY <1>1, <1>3 DEF Next, Services
  <1> QED BY <1>2, <1>3


LEMMA BoardInServices ==
  ASSUME Mixes \subseteq Operations
  PROVE  Spec => []PartedOnlySince
  <1>1. Init => HandlersInit /\ BoardInit /\ mix \in Operations
    BY DEF Init, HandlersInit
  <1>2. mix \in Operations /\ On("file") /\ [Next]_vars =>
          /\ (mix \in Operations)' /\ On("file")'
          /\ [BoardNext]_<<mix, req, boardVars>>
    BY MixStays, Selected DEF On
  <1>3. mix \in Operations /\ ~On("file") /\ BoardInit /\ [Next]_vars =>
          /\ (mix \in Operations)' /\ ~On("file")' /\ BoardInit'
          /\ UNCHANGED boardVars
    BY MixStays, Selected DEF On, boardVars, BoardInit
  <1>4. BoardInit => PartedOnlySince
    BY DEF BoardInit, PartedOnlySince, Agree, Waiting, Open
  <1>5. mix \in Operations /\ On("file") => Kinds \cap mix # {}
    BY OneService
  <1> QED BY <1>1, <1>2, <1>3, <1>4, <1>5, BoardHolds, PTL DEF Spec, BoardSpec

LEMMA ClearancesInServices ==
  ASSUME Mixes \subseteq Operations
  PROVE  Spec => []OneCurrentUnlessDoubt
  <1>1. Init => HandlersInit /\ ClearancesInit /\ mix \in Operations
    BY DEF Init, HandlersInit
  <1>2. mix \in Operations /\ On("clear") /\ [Next]_vars =>
          /\ (mix \in Operations)' /\ On("clear")'
          /\ [ClearancesNext]_<<mix, req, clearanceVars>>
    BY MixStays, Selected DEF On
  <1>3. mix \in Operations /\ ~On("clear") /\ ClearancesInit /\ [Next]_vars =>
          /\ (mix \in Operations)' /\ ~On("clear")' /\ ClearancesInit'
          /\ UNCHANGED clearanceVars
    BY MixStays, Selected DEF On, clearanceVars, ClearancesInit
  <1>4. ClearancesInit => OneCurrentUnlessDoubt
    BY DEF ClearancesInit, OneCurrentUnlessDoubt, CurrentAgrees, Current
  <1> QED BY <1>1, <1>2, <1>3, <1>4, LoneChangeRestores, PTL DEF Spec, ClearancesSpec

LEMMA DocumentsInServices ==
  ASSUME Mixes \subseteq Operations
  PROVE  Spec => ContentLostOnlyBy /\ OrphanLeftOnlyBy
  <1>1. Init => HandlersInit /\ DocumentsInit /\ mix \in Operations
    BY DEF Init, HandlersInit
  <1>2. mix \in Operations /\ On("upload") /\ [Next]_vars =>
          /\ (mix \in Operations)' /\ On("upload")'
          /\ [DocumentsNext]_<<mix, req, documentVars>>
    BY MixStays, Selected DEF On
  <1>3. mix \in Operations /\ ~On("upload") /\ DocumentsInit /\ [Next]_vars =>
          /\ (mix \in Operations)' /\ ~On("upload")' /\ DocumentsInit'
          /\ UNCHANGED documentVars
    BY MixStays, Selected DEF On, documentVars, DocumentsInit
  <1>4. DocumentsInit /\ UNCHANGED documentVars =>
          [\A f \in files \cap files' :
               blob = f /\ blob' # f =>
                 \E r \in Requests :
                   /\ Moves(r)
                   /\ IF req[r].file = f THEN At(r, "upload", "clean")
                      ELSE Owner # "dd254"]_<<mix, req, documentVars>>
    BY DEF documentVars
  <1>5. DocumentsInit /\ UNCHANGED documentVars =>
          [~Orphan /\ Orphan' =>
               \/ "stop" \in mix
               \/ owner = "there" /\ owner' = "gone"
               \/ \E r \in Requests :
                    Moves(r) /\ req[r].at = (IF Owner = "travel" /\ req[r].op = "upload"
                                              THEN "insert" ELSE "clean")]_<<mix, req, documentVars>>
    BY DEF documentVars, DocumentsInit, Orphan
  <1> QED BY <1>1, <1>2, <1>3, <1>4, <1>5, ContentStays, BlobsFollowRows, PTL
          DEF Spec, DocumentsSpec, ContentLostOnlyBy, OrphanLeftOnlyBy

LEMMA DigestInServices ==
  ASSUME Mixes \subseteq Operations
  PROVE  Spec => []NoSecondDigest /\ MissedOnlyBy
  <1>1. Init => HandlersInit /\ DigestInit /\ mix \in Operations
    BY DEF Init, HandlersInit
  <1>2. mix \in Operations /\ On("digest") /\ [Next]_vars =>
          /\ (mix \in Operations)' /\ On("digest")'
          /\ [DigestNext]_<<mix, req, digestVars>>
    BY MixStays, Selected DEF On
  <1>3. mix \in Operations /\ ~On("digest") /\ DigestInit /\ [Next]_vars =>
          /\ (mix \in Operations)' /\ ~On("digest")' /\ DigestInit'
          /\ UNCHANGED digestVars
    BY MixStays, Selected DEF On, digestVars, DigestInit, MailInit
  <1>4. DigestInit => NoSecondDigest
    BY DEF DigestInit, NoSecondDigest
  <1>5. DigestInit /\ UNCHANGED digestVars =>
          [\A n \in Items :
               ~Missed(n) /\ Missed(n)' =>
                 \/ daily # daily'
                 \/ first /\ dayAgo # dayAgo'
                 \/ holder[n] = "others" /\ n <= Since
                 \/ DropsMailAbout(n)
                 \/ \E r \in Requests :
                      /\ Moves(r)
                      /\ \/ At(r, "announce", "notify") /\ req[r].item = n /\ outbox' = outbox
                         \/ At(r, "digest", "mark") /\ n \notin req[r].new
                         \/ At(r, "digest", "send") /\ ("retry" \in mix \/ ~daily)]_<<mix, req, digestVars>>
    BY DEF DigestInit, digestVars, Missed
  <1> QED BY <1>1, <1>2, <1>3, <1>4, <1>5, DigestsApart, NoItemMissed, PTL
          DEF Spec, DigestSpec, MissedOnlyBy

LEMMA RemindersInServices ==
  ASSUME Mixes \subseteq Operations
  PROVE  Spec => []ToldInEveryBucket
  <1>1. Init => HandlersInit /\ RemindersInit /\ mix \in Operations
    BY DEF Init, HandlersInit
  <1>2. mix \in Operations /\ On("remind") /\ [Next]_vars =>
          /\ (mix \in Operations)' /\ On("remind")'
          /\ [RemindersNext]_<<mix, req, reminderVars>>
    BY MixStays, Selected DEF On
  <1>3. mix \in Operations /\ ~On("remind") /\ RemindersInit /\ [Next]_vars =>
          /\ (mix \in Operations)' /\ ~On("remind")' /\ RemindersInit'
          /\ UNCHANGED reminderVars
    BY MixStays, Selected DEF On, reminderVars, RemindersInit
  <1>4. RemindersInit => ToldInEveryBucket
    BY DEF RemindersInit, ToldInEveryBucket, AtMost
  <1> QED BY <1>1, <1>2, <1>3, <1>4, RemindersReach, PTL DEF Spec, RemindersSpec

LEMMA AssignmentsInServices ==
  ASSUME Mixes \subseteq Operations
  PROVE  Spec => UnreadyOnlyBy
  <1>1. Init => HandlersInit /\ AssignmentsInit /\ mix \in Operations
    BY DEF Init, HandlersInit
  <1>2. mix \in Operations /\ On("assign") /\ [Next]_vars =>
          /\ (mix \in Operations)' /\ On("assign")'
          /\ [AssignmentsNext]_<<mix, req, assignmentVars>>
    BY MixStays, Selected DEF On
  <1>3. mix \in Operations /\ ~On("assign") /\ AssignmentsInit /\ [Next]_vars =>
          /\ (mix \in Operations)' /\ ~On("assign")' /\ AssignmentsInit'
          /\ UNCHANGED assignmentVars
    BY MixStays, Selected DEF On, assignmentVars, AssignmentsInit
  <1>4. AssignmentsInit /\ UNCHANGED assignmentVars =>
          [\A u \in Staff :
               ~Unready(u) /\ Unready(u)' =>
                 \/ u \notin members /\ u \in members'
                 \/ state # "active"
                 \/ \E r \in Requests :
                      /\ Moves(r)
                      /\ ~req[r].mail \/ (req'[r] = Idle /\ u \notin told')]_<<mix, req, assignmentVars>>
    BY DEF AssignmentsInit, assignmentVars, Unready
  <1> QED BY <1>1, <1>2, <1>3, <1>4, ReadyUnless, PTL DEF Spec, AssignmentsSpec, UnreadyOnlyBy

LEMMA ChatInServices ==
  ASSUME Mixes \subseteq Operations
  PROVE  Spec => []LimitExceededOnlyByOverlap
  <1>1. Init => HandlersInit /\ ChatInit /\ mix \in Operations
    BY DEF Init, HandlersInit
  <1>2. mix \in Operations /\ On("chat") /\ [Next]_vars =>
          /\ (mix \in Operations)' /\ On("chat")'
          /\ [ChatNext]_<<mix, req, chatVars>>
    BY MixStays, Selected DEF On
  <1>3. mix \in Operations /\ ~On("chat") /\ ChatInit /\ [Next]_vars =>
          /\ (mix \in Operations)' /\ ~On("chat")' /\ ChatInit'
          /\ UNCHANGED chatVars
    BY MixStays, Selected DEF On, chatVars, ChatInit
  <1>4. ChatInit => LimitExceededOnlyByOverlap
    BY ChatSizes, ChatAssumption DEF ChatInit, LimitExceededOnlyByOverlap
  <1> QED BY <1>1, <1>2, <1>3, <1>4, CallsBounded, PTL DEF Spec, ChatSpec

LEMMA ContractsInServices ==
  ASSUME Mixes \subseteq Operations
  PROVE  Spec => UnauthorisedOnlyBy
  <1>1. Init => HandlersInit /\ ContractsInit /\ mix \in Operations
    BY DEF Init, HandlersInit
  <1>2. mix \in Operations /\ On("declare") /\ [Next]_vars =>
          /\ (mix \in Operations)' /\ On("declare")'
          /\ [ContractsNext]_<<mix, req, contractVars>>
    BY MixStays, Selected DEF On
  <1>3. mix \in Operations /\ ~On("declare") /\ ContractsInit /\ [Next]_vars =>
          /\ (mix \in Operations)' /\ ~On("declare")' /\ ContractsInit'
          /\ UNCHANGED contractVars
    BY MixStays, Selected DEF On, contractVars, ContractsInit
  <1>4. ContractsInit /\ UNCHANGED contractVars =>
          [contract' # contract /\ Unauthorised' =>
             \/ contract' \in lost
             \/ contract # "unmade" /\ ~Offered(contract')]_<<mix, req, contractVars>>
    BY DEF contractVars
  <1> QED BY <1>1, <1>2, <1>3, <1>4, AuthorisedWhenNamed, PTL
          DEF Spec, ContractsSpec, UnauthorisedOnlyBy

(* Whichever service a behaviour uses, the invariants of all of them hold  *)
(* and no step breaks a promise but in the ways it names: source and item  *)
(* part, a clearance loses its one current record, a digest repeats, a     *)
(* reminder fails, a limit is exceeded, content is lost or left behind, an *)
(* item is missed, a task appears unready or a contract unauthorised only  *)
(* for the reasons given.                                                  *)
THEOREM ServicesPromises ==
  ASSUME Mixes \subseteq Operations
  PROVE  Spec => /\ []PartedOnlySince /\ []OneCurrentUnlessDoubt /\ []NoSecondDigest
                 /\ []ToldInEveryBucket /\ []LimitExceededOnlyByOverlap
                 /\ ContentLostOnlyBy /\ OrphanLeftOnlyBy /\ MissedOnlyBy
                 /\ UnreadyOnlyBy /\ UnauthorisedOnlyBy
  BY BoardInServices, ClearancesInServices, DocumentsInServices, DigestInServices,
     RemindersInServices, AssignmentsInServices, ChatInServices, ContractsInServices, PTL
=============================================================================
