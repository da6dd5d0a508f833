----------------------------- MODULE PagesProofs -----------------------------
(***************************************************************************)
(* Proofs about the pages of the desktop and what stands behind them: the    *)
(* session, the settings of models, MCP servers, skills and voices, the page *)
(* of a team, and the tools of a thread.  Each component has an inductive    *)
(* invariant, XInv, and three lemmas: it holds at the start (XStarts), every *)
(* step keeps it (XKept), and it implies what the runs check (XInvSafe).     *)
(* The theorems at the end put them together for MCPages.                    *)
(***************************************************************************)
EXTENDS MCPages, SequenceTheorems, FiniteSetTheorems, TLAPS

-----------------------------------------------------------------------------
(* The session of a client *)

SessionTyped ==
    /\ mobile \in BOOLEAN /\ overlapped \in BOOLEAN
    /\ tokens \in Accounts \cup {NoAccount}
    /\ showing \in [status : {"booting", "guest", "unavailable", "authenticated"},
                    user : Accounts \cup {NoAccount}]
    /\ boot \in [phase : {"off", "start", "me", "refresh", "again"}, as : Accounts \cup {NoAccount}]
    /\ call \in [phase : {"off", "access", "refresh", "again"}, as : Accounts \cup {NoAccount}]
    /\ signing \in [phase : {"off", "in", "stored", "out"}, as : Accounts \cup {NoAccount}]
    /\ signing.phase = "off" => signing = Off

\* What is under way holds the tokens that are stored, while nothing overlaps it.
TokensHeld ==
    /\ boot.phase \notin {"off", "start"} =>
           boot.as = tokens /\ signing.phase \in {"off", "in"} /\ showing.status # "guest"
    /\ call.phase # "off" => call.as = tokens \/ showing.status = "guest"
    /\ signing.phase = "stored" =>
           signing.as = tokens /\ (showing.status = "guest" => call.phase = "off")
    /\ signing.phase = "out" => tokens = NoAccount /\ call.phase = "off"
    /\ showing.status = "guest" /\ boot.phase # "off" =>
           call.phase = "off" /\ (tokens = NoAccount \/ signing.phase = "stored")

UserShown ==
    /\ showing.status = "authenticated" /\ signing.phase \in {"off", "in"} => showing.user = tokens
    /\ showing.status = "guest" => showing.user = NoAccount

SessionInv == SessionTyped /\ (~overlapped => TokensHeld /\ UserShown)

LEMMA SessionStarts == SessionInit => SessionInv
<1> SUFFICES ASSUME SessionInit PROVE SessionInv
  OBVIOUS
<1>1. SessionTyped
  BY DEF SessionInit, SessionTyped, Off, Shows
<1>2. boot.phase = "start" /\ call.phase = "off" /\ signing.phase = "off" /\ showing.status = "booting"
  BY DEF SessionInit, Off, Shows
<1> QED
  BY <1>1, <1>2 DEF SessionInv, TokensHeld, UserShown

LEMMA SessionKept == SessionInv /\ [SessionNext]_sessionVars => SessionInv'
<1> SUFFICES ASSUME SessionInv, [SessionNext]_sessionVars PROVE SessionInv'
  OBVIOUS
<1> USE DEF SessionInv, SessionTyped, TokensHeld, UserShown, Off, Shows, UnderWay, Answers
<1>1. CASE UNCHANGED sessionVars
  BY <1>1 DEF sessionVars
<1>2. CASE BeginBoot
  <2>1. overlapped' \in BOOLEAN /\ (~overlapped' => ~overlapped /\ signing = Off)
    BY <1>2 DEF BeginBoot
  <2>2. CASE tokens = NoAccount
    <3>1. /\ boot' = Off /\ showing' = Shows("guest", NoAccount)
          /\ UNCHANGED <<mobile, tokens, call, signing>>
      BY <1>2, <2>2 DEF BeginBoot, BootEnds
    <3>2. SessionTyped'
      BY <2>1, <3>1
    <3> QED
      BY <2>1, <2>2, <3>1, <3>2
  <2>3. CASE tokens # NoAccount
    <3>1. /\ boot' = [phase |-> "me", as |-> tokens] /\ boot.phase = "start"
          /\ UNCHANGED <<mobile, tokens, call, signing, showing>>
      BY <1>2, <2>3 DEF BeginBoot, BootEnds
    <3>2. SessionTyped'
      BY <2>1, <3>1
    <3> QED
      BY <2>1, <2>3, <3>1, <3>2
  <2> QED
    BY <2>2, <2>3
<1>3. ASSUME NEW answer \in Answers, BootAsked(answer) PROVE SessionInv'
  BY <1>3 DEF BootAsked, BootEnds, BootFails, Refused
<1>4. ASSUME NEW answer \in Answers, BootRefreshed(answer) PROVE SessionInv'
  BY <1>4 DEF BootRefreshed, BootEnds, BootFails, Refused
<1>5. ASSUME NEW answer \in Answers, BootAskedAgain(answer) PROVE SessionInv'
  BY <1>5 DEF BootAskedAgain, BootEnds, BootFails, Refused
<1>6. ASSUME NEW answer \in Answers, CallAnswered(answer) PROVE SessionInv'
  <2>1. /\ call' \in [phase : {"off", "access", "refresh", "again"}, as : Accounts \cup {NoAccount}]
        /\ call'.phase # "off" => call.phase # "off" /\ call'.as = call.as
        /\ UNCHANGED <<mobile, tokens, showing, boot, signing, overlapped>>
    BY <1>6 DEF CallAnswered
  <2> QED
    BY <2>1
<1>12. ASSUME NEW answer \in Answers, CallRefreshed(answer) PROVE SessionInv'
  <2>1. /\ call' \in [phase : {"off", "access", "refresh", "again"}, as : Accounts \cup {NoAccount}]
        /\ call'.phase # "off" => call'.as = call.as /\ tokens' = call.as
        /\ tokens' \in {tokens, call.as} /\ call.phase # "off"
        /\ UNCHANGED <<mobile, showing, boot, signing, overlapped>>
    BY <1>12 DEF CallRefreshed
  <2> QED
    BY <2>1
<1>7. ASSUME NEW a \in Accounts, SignIn(a) PROVE SessionInv'
  BY <1>7 DEF SignIn
<1>8. CASE SignInFails
  BY <1>8 DEF SignInFails
<1>13. CASE SignedIn
  <2>1. overlapped' \in BOOLEAN /\ (~overlapped' => ~overlapped /\ ~UnderWay)
    BY <1>13 DEF SignedIn
  <2>2. /\ signing' = Off /\ showing' = Shows("authenticated", signing.as)
        /\ signing.phase = "stored" /\ UNCHANGED <<mobile, tokens, boot, call>>
    BY <1>13 DEF SignedIn
  <2> QED
    BY <2>1, <2>2
<1>14. CASE SignedOut
  BY <1>14 DEF SignedOut
<1>9. CASE SignInStored
  <2>1. overlapped' \in BOOLEAN /\ (~overlapped' => ~overlapped /\ ~UnderWay)
    BY <1>9 DEF SignInStored
  <2>2. /\ tokens' = signing.as /\ signing' = [signing EXCEPT !.phase = "stored"]
        /\ signing.phase = "in" /\ UNCHANGED <<mobile, showing, boot, call>>
    BY <1>9 DEF SignInStored
  <2> QED
    BY <2>1, <2>2
<1>10. CASE SignOut
  BY <1>10 DEF SignOut
<1>11. CASE BeginCallApi
  BY <1>11 DEF BeginCallApi
<1> QED
  BY <1>1, <1>2, <1>3, <1>4, <1>5, <1>6, <1>7, <1>8, <1>9, <1>10, <1>11, <1>12, <1>13, <1>14 DEF SessionNext

LEMMA SessionInvSafe == SessionInv => SessionTypeOK /\ PagesShowTokensUser
  BY DEF SessionInv, SessionTyped, TokensHeld, UserShown, SessionTypeOK, PagesShowTokensUser,
         UnderWay, Off

-----------------------------------------------------------------------------
(* The models *)

Cards == [id : ModelIds, filled : BOOLEAN]

\* No two cards of the draft have the same identifier.
Distinct(list) == \A i, j \in 1 .. Len(list) : list[i].id = list[j].id => i = j

ModelOrNone == ModelIds \cup {NoModel}

ModelsTyped ==
    /\ configured \in Lists
    /\ DOMAIN draft = {"list", "drag"} /\ draft.list \in Seq(Cards) /\ Distinct(draft.list)
    /\ draft.drag \in [dragged : ModelOrNone, target : ModelOrNone]
    /\ saving \in [phase : {"off", "put", "get", "publish"}, list : Lists]
    /\ saving.phase = "off" => saving = NoSave
    /\ chooser \in [open : BOOLEAN, asked : {"no", "asked", "answered"}, answer : Lists,
                    changed : BOOLEAN, models : Lists, selected : ModelOrNone]
    /\ ~chooser.open => chooser.asked = "no"
    /\ remembered \in ModelOrNone
    /\ elsewhere \in BOOLEAN

\* The selected model goes with the list that is offered.
Fits(list, m) ==
    /\ m = NoModel <=> list = <<>>
    /\ list # <<>> => m \in Range(list)

\* What the page offers or is about to offer, while no save is half done.
Followed ==
    /\ saving.phase = "publish" => saving.list = configured
    /\ saving.phase \in {"off", "put"} /\ chooser.open =>
          /\ chooser.asked = "no" \/ chooser.changed => chooser.models = configured
          /\ chooser.asked = "answered" /\ ~chooser.changed => chooser.answer = configured
    /\ chooser.open /\ (chooser.asked = "no" \/ chooser.changed) =>
          Fits(chooser.models, chooser.selected)

ModelsInv ==
    /\ ModelsTyped
    /\ chooser.open => chooser.selected = remembered
    /\ ~elsewhere => Followed

LEMMA InLists ==
    ASSUME NEW s \in Seq(ModelIds), IsInjective(s)
    PROVE  s \in Lists
<1>1. s \in [1 .. Len(s) -> ModelIds] /\ Len(s) \in Nat
  OBVIOUS
<1>2. s \in Injection(1 .. Len(s), ModelIds)
  BY <1>1 DEF Injection
<1>3. Cardinality(1 .. Len(s)) <= Cardinality(ModelIds)
  BY <1>2, FS_Injection, ModelsAssumption
<1>4. Cardinality(1 .. Len(s)) = Len(s)
  <2>1. Cardinality(1 .. Len(s)) = IF 1 > Len(s) THEN 0 ELSE Len(s) - 1 + 1
    BY <1>1, 1 \in Int, Len(s) \in Int, FS_Interval
  <2> QED
    BY <1>1, <2>1
<1>5. Cardinality(ModelIds) \in Nat
  BY ModelsAssumption, FS_CardinalityType
<1>6. Len(s) \in 0 .. Cardinality(ModelIds)
  BY <1>1, <1>3, <1>4, <1>5
<1> QED
  BY <1>1, <1>6 DEF Lists

LEMMA ListsAre ==
    ASSUME NEW s \in Lists
    PROVE  s \in Seq(ModelIds) /\ IsInjective(s)
<1>1. PICK n \in 0 .. Cardinality(ModelIds) : s \in [1 .. n -> ModelIds]
  BY DEF Lists
<1>2. n \in Nat
  BY <1>1, ModelsAssumption, FS_CardinalityType
<1> QED
  BY <1>1, <1>2 DEF Lists

LEMMA EmptyListed == <<>> \in Lists
<1>1. <<>> \in Seq(ModelIds) /\ IsInjective(<<>>)
  BY DEF IsInjective
<1> QED
  BY <1>1, InLists

LEMMA FilledCards ==
    ASSUME NEW s \in Lists
    PROVE  Filled(s) \in Seq(Cards) /\ Distinct(Filled(s))
<1>1. s \in Seq(ModelIds) /\ IsInjective(s)
  BY ListsAre
<1>2. Filled(s) \in Seq(Cards) /\ Len(Filled(s)) = Len(s)
  <2>1. DOMAIN s = 1 .. Len(s) /\ Len(s) \in Nat /\ \A i \in 1 .. Len(s) : s[i] \in ModelIds
    BY <1>1
  <2>2. Filled(s) \in [1 .. Len(s) -> Cards]
    BY <2>1 DEF Filled, Cards
  <2> QED
    BY <2>1, <2>2
<1>3. \A i \in 1 .. Len(s) : Filled(s)[i].id = s[i]
  BY <1>1 DEF Filled
<1> QED
  BY <1>1, <1>2, <1>3 DEF Distinct, IsInjective

LEMMA IdsListed ==
    ASSUME NEW list \in Seq(Cards), Distinct(list)
    PROVE  IdsOf(list) \in Lists
<1>1. IdsOf(list) \in Seq(ModelIds) /\ Len(IdsOf(list)) = Len(list)
  <2>1. /\ DOMAIN list = 1 .. Len(list) /\ Len(list) \in Nat
        /\ \A i \in 1 .. Len(list) : list[i] \in Cards
    OBVIOUS
  <2>2. IdsOf(list) \in [1 .. Len(list) -> ModelIds]
    BY <2>1 DEF IdsOf, Cards
  <2> QED
    BY <2>1, <2>2
<1>2. \A i \in 1 .. Len(list) : IdsOf(list)[i] = list[i].id
  BY DEF IdsOf
<1>3. IsInjective(IdsOf(list))
  BY <1>1, <1>2 DEF Distinct, IsInjective
<1> QED
  BY <1>1, <1>3, InLists

\* What removing and inserting an element do at each position.
LEMMA Removal ==
    ASSUME NEW S, NEW s \in Seq(S), NEW i \in 1 .. Len(s)
    PROVE  /\ RemoveAt(s, i) \in Seq(S) /\ Len(RemoveAt(s, i)) = Len(s) - 1
           /\ \A k \in 1 .. Len(s) - 1 : RemoveAt(s, i)[k] = s[IF k < i THEN k ELSE k + 1]
<1> DEFINE before == SubSeq(s, 1, i - 1)
           after == SubSeq(s, i + 1, Len(s))
<1>1. before \in Seq(S) /\ Len(before) = i - 1 /\ \A k \in 1 .. i - 1 : before[k] = s[k]
  OBVIOUS
<1>2. /\ after \in Seq(S) /\ Len(after) = Len(s) - i
      /\ \A k \in 1 .. Len(s) - i : after[k] = s[i + k]
  OBVIOUS
<1>3. RemoveAt(s, i) = before \o after
  BY DEF RemoveAt
<1> HIDE DEF before, after
<1>4. before \o after \in Seq(S) /\ Len(before \o after) = Len(s) - 1
  BY <1>1, <1>2
<1>5. ASSUME NEW k \in 1 .. Len(s) - 1
      PROVE  (before \o after)[k] = s[IF k < i THEN k ELSE k + 1]
  <2>1. (before \o after)[k] = IF k <= i - 1 THEN before[k] ELSE after[k - (i - 1)]
    BY <1>1, <1>2, <1>5, ConcatProperties
  <2> QED
    BY <1>1, <1>2, <1>5, <2>1
<1> QED
  BY <1>3, <1>4, <1>5

LEMMA Insertion ==
    ASSUME NEW S, NEW s \in Seq(S), NEW i \in 1 .. Len(s) + 1, NEW e \in S
    PROVE  /\ InsertAt(s, i, e) \in Seq(S) /\ Len(InsertAt(s, i, e)) = Len(s) + 1
           /\ \A k \in 1 .. Len(s) + 1 :
                 InsertAt(s, i, e)[k] = IF k < i THEN s[k] ELSE IF k = i THEN e ELSE s[k - 1]
<1> DEFINE before == SubSeq(s, 1, i - 1)
           first == before \o <<e>>
           after == SubSeq(s, i, Len(s))
<1>1. before \in Seq(S) /\ Len(before) = i - 1 /\ \A k \in 1 .. i - 1 : before[k] = s[k]
  OBVIOUS
<1>2. /\ after \in Seq(S) /\ Len(after) = Len(s) - i + 1
      /\ \A k \in 1 .. Len(s) - i + 1 : after[k] = s[i + k - 1]
  OBVIOUS
<1>3. InsertAt(s, i, e) = first \o after
  BY DEF InsertAt
<1> HIDE DEF before, after
<1>4. /\ first \in Seq(S) /\ Len(first) = i
      /\ \A k \in 1 .. i : first[k] = IF k < i THEN s[k] ELSE e
  BY <1>1
<1> HIDE DEF first
<1>5. first \o after \in Seq(S) /\ Len(first \o after) = Len(s) + 1
  BY <1>2, <1>4
<1>6. ASSUME NEW k \in 1 .. Len(s) + 1
      PROVE  (first \o after)[k] = IF k < i THEN s[k] ELSE IF k = i THEN e ELSE s[k - 1]
  <2>1. (first \o after)[k] = IF k <= i THEN first[k] ELSE after[k - i]
    BY <1>2, <1>4, <1>6, ConcatProperties
  <2> QED
    BY <1>2, <1>4, <1>6, <2>1
<1> QED
  BY <1>3, <1>5, <1>6

LEMMA Positioned ==
    ASSUME NEW list \in Seq(Cards), NEW m \in Listed(list)
    PROVE  Position(list, m) \in 1 .. Len(list) /\ list[Position(list, m)].id = m
  BY DEF Position, Listed

LEMMA MovedDistinct ==
    ASSUME NEW list \in Seq(Cards), Distinct(list), NEW m, NEW n
    PROVE  Moved(list, m, n) \in Seq(Cards) /\ Distinct(Moved(list, m, n))
<1>1. CASE m = n \/ ~({m, n} \subseteq Listed(list))
  BY <1>1 DEF Moved
<1>2. CASE m # n /\ {m, n} \subseteq Listed(list)
  <2> DEFINE i == Position(list, m)
             j == Position(list, n)
             rest == RemoveAt(list, i)
             now == InsertAt(rest, j, list[i])
  <2>1. i \in 1 .. Len(list) /\ j \in 1 .. Len(list)
    BY <1>2, Positioned
  <2>2. Moved(list, m, n) = now
    BY <1>2 DEF Moved
  <2> HIDE DEF i, j
  <2>3. /\ rest \in Seq(Cards) /\ Len(rest) = Len(list) - 1
        /\ \A k \in 1 .. Len(list) - 1 : rest[k] = list[IF k < i THEN k ELSE k + 1]
    BY <2>1, Removal
  <2>4. j \in 1 .. Len(rest) + 1 /\ list[i] \in Cards
    BY <2>1, <2>3
  <2> HIDE DEF rest
  <2>5. /\ now \in Seq(Cards) /\ Len(now) = Len(list)
        /\ \A k \in 1 .. Len(list) :
              now[k] = IF k < j THEN rest[k] ELSE IF k = j THEN list[i] ELSE rest[k - 1]
    BY <2>3, <2>4, Insertion
  <2> HIDE DEF now
  <2> DEFINE from(k) == IF k = j THEN i
                        ELSE LET r == IF k < j THEN k ELSE k - 1
                             IN  IF r < i THEN r ELSE r + 1
  <2>6. ASSUME NEW k \in 1 .. Len(list)
        PROVE  from(k) \in 1 .. Len(list) /\ now[k] = list[from(k)]
    <3>1. CASE k = j
      BY <2>1, <2>5, <2>6, <3>1
    <3>2. CASE k < j
      <4>1. now[k] = rest[k] /\ k \in 1 .. Len(list) - 1
        BY <2>1, <2>5, <2>6, <3>2
      <4>2. rest[k] = list[IF k < i THEN k ELSE k + 1]
        BY <2>3, <4>1
      <4> QED
        BY <2>1, <3>2, <4>1, <4>2
    <3>3. CASE k > j
      <4>1. now[k] = rest[k - 1] /\ k - 1 \in 1 .. Len(list) - 1
        BY <2>1, <2>5, <2>6, <3>3
      <4>2. rest[k - 1] = list[IF k - 1 < i THEN k - 1 ELSE k]
        BY <2>3, <4>1
      <4> QED
        BY <2>1, <3>3, <4>1, <4>2
    <3> QED
      BY <2>1, <3>1, <3>2, <3>3
  <2>7. \A k, l \in 1 .. Len(list) : from(k) = from(l) => k = l
    BY <2>1
  <2> HIDE DEF from
  <2>8. Distinct(now)
    BY <2>5, <2>6, <2>7 DEF Distinct
  <2> QED
    BY <2>2, <2>5, <2>8
<1> QED
  BY <1>1, <1>2

LEMMA ModelsStarts == ModelsInit => ModelsInv
<1> SUFFICES ASSUME ModelsInit PROVE ModelsInv
  OBVIOUS
<1>1. configured \in Lists /\ <<>> \in Lists
  BY EmptyListed DEF ModelsInit
<1>2. draft.list \in Seq(Cards) /\ Distinct(draft.list) /\ DOMAIN draft = {"list", "drag"}
  BY <1>1, FilledCards DEF ModelsInit, DraftOf
<1> QED
  BY <1>1, <1>2 DEF ModelsInit, ModelsInv, ModelsTyped, Followed, NoSave, NoChooser, DraftOf,
     NoDrag, ModelOrNone
\* A card list that is fit for the draft leaves the invariant as it was.
LEMMA DraftChanges ==
    ASSUME ModelsInv, OnlyDraft,
           DOMAIN draft' = {"list", "drag"}, draft'.list \in Seq(Cards), Distinct(draft'.list),
           draft'.drag \in [dragged : ModelOrNone, target : ModelOrNone]
    PROVE  ModelsInv'
  BY DEF ModelsInv, ModelsTyped, Followed, OnlyDraft, ModelOrNone

LEMMA ChoiceFits ==
    ASSUME NEW list \in Lists, remembered \in ModelOrNone
    PROVE  Choice(list) \in ModelOrNone /\ Fits(list, Choice(list))
<1>1. list \in Seq(ModelIds)
  BY ListsAre
<1>2. CASE list = <<>>
  <2>1. Range(list) = {}
    BY <1>2 DEF Range
  <2> QED
    BY <1>2, <2>1 DEF Choice, ModelOrNone, Fits
<1>3. CASE list # <<>>
  <2>1. list[1] \in Range(list) /\ Range(list) \subseteq ModelIds
    BY <1>1, <1>3 DEF Range
  <2>2. Choice(list) \in Range(list)
    BY <1>3, <2>1 DEF Choice
  <2> QED
    BY <1>3, <2>1, <2>2, ModelsAssumption DEF ModelOrNone, Fits
<1> QED
  BY <1>2, <1>3

LEMMA ModelsKept == ModelsInv /\ [ModelsNext]_modelVars => ModelsInv'
<1> SUFFICES ASSUME ModelsInv, [ModelsNext]_modelVars PROVE ModelsInv'
  OBVIOUS
<1> USE DEF ModelOrNone
<1>0. <<>> \in Lists
  BY EmptyListed
<1>1. CASE OpenSettings
  <2>1. draft' = DraftOf(configured) /\ OnlyDraft /\ configured \in Lists
    BY <1>1 DEF OpenSettings, ModelsInv, ModelsTyped
  <2>2. Filled(configured) \in Seq(Cards) /\ Distinct(Filled(configured))
    BY <2>1, FilledCards
  <2> QED
    BY <2>1, <2>2, DraftChanges DEF DraftOf, NoDrag
<1>2. CASE DropModel
  <2>1. /\ draft'.list = Moved(draft.list, draft.drag.dragged, draft.drag.target)
        /\ DOMAIN draft' = {"list", "drag"} /\ draft'.drag = NoDrag /\ OnlyDraft
    BY <1>2 DEF DropModel
  <2>2. draft'.list \in Seq(Cards) /\ Distinct(draft'.list)
    BY <2>1, MovedDistinct DEF ModelsInv, ModelsTyped
  <2> QED
    BY <2>1, <2>2, DraftChanges DEF NoDrag
<1>3. CASE EndDrag
  BY <1>3, DraftChanges DEF EndDrag, ModelsInv, ModelsTyped, NoDrag
<1>4. CASE ClickSave
  <2>1. IdsOf(draft.list) \in Lists
    BY IdsListed DEF ModelsInv, ModelsTyped
  <2> QED
    BY <1>4, <2>1 DEF ClickSave, ModelsInv, ModelsTyped, Followed, NoSave
<1>5. ASSUME NEW m \in ModelIds, AddModel(m) PROVE ModelsInv'
  <2> DEFINE card == [id |-> m, filled |-> FALSE]
             now == Append(draft.list, card)
  <2>1. /\ card \in Cards /\ card.id = m
        /\ draft.list \in Seq(Cards) /\ Distinct(draft.list) /\ m \notin Listed(draft.list)
    BY <1>5 DEF AddModel, ModelsInv, ModelsTyped, Cards
  <2> HIDE DEF card
  <2>2. \A i \in 1 .. Len(draft.list) : draft.list[i].id # m
    BY <2>1 DEF Listed
  <2>3. /\ now \in Seq(Cards) /\ Len(now) = Len(draft.list) + 1
        /\ \A i \in 1 .. Len(draft.list) : now[i] = draft.list[i]
        /\ now[Len(draft.list) + 1] = card
    BY <2>1
  <2> HIDE DEF now
  <2>4. Distinct(now)
    BY SMTT(60), <2>1, <2>2, <2>3 DEF Distinct
  <2>5. draft' = [draft EXCEPT !.list = now] /\ OnlyDraft
    BY <1>5 DEF AddModel, now, card
  <2> QED
    BY <2>3, <2>4, <2>5, DraftChanges DEF ModelsInv, ModelsTyped
<1>6. ASSUME NEW m \in ModelIds, FillIn(m) PROVE ModelsInv'
  <2> DEFINE old == draft.list
             now == [i \in DOMAIN old |->
                        IF old[i].id = m THEN [old[i] EXCEPT !.filled = TRUE] ELSE old[i]]
  <2>1. draft' = [draft EXCEPT !.list = now] /\ OnlyDraft
    BY <1>6 DEF FillIn
  <2>2. /\ DOMAIN old = 1 .. Len(old) /\ Len(old) \in Nat /\ Distinct(old)
        /\ \A i \in 1 .. Len(old) : old[i] \in Cards
    BY DEF ModelsInv, ModelsTyped
  <2> HIDE DEF old
  <2>3. now \in [1 .. Len(old) -> Cards] /\ \A i \in 1 .. Len(old) : now[i].id = old[i].id
    BY <2>2 DEF Cards
  <2> HIDE DEF now
  <2>4. now \in Seq(Cards) /\ Len(now) = Len(old)
    BY <2>2, <2>3
  <2>5. Distinct(now)
    BY <2>2, <2>3, <2>4 DEF Distinct
  <2> QED
    BY <2>1, <2>4, <2>5, DraftChanges DEF ModelsInv, ModelsTyped
<1>7. ASSUME NEW m \in ModelIds, RemoveModel(m) PROVE ModelsInv'
  <2> DEFINE old == draft.list
             i == Position(old, m)
             now == RemoveAt(old, i)
  <2>1. draft' = [draft EXCEPT !.list = now] /\ OnlyDraft /\ m \in Listed(old)
    BY <1>7 DEF RemoveModel
  <2>2. old \in Seq(Cards) /\ Distinct(old)
    BY DEF ModelsInv, ModelsTyped
  <2> HIDE DEF old
  <2>3. i \in 1 .. Len(old)
    BY <2>1, <2>2, Positioned
  <2> HIDE DEF i
  <2>4. /\ now \in Seq(Cards) /\ Len(now) = Len(old) - 1
        /\ \A k \in 1 .. Len(old) - 1 : now[k] = old[IF k < i THEN k ELSE k + 1]
    BY <2>2, <2>3, Removal
  <2> HIDE DEF now
  <2>5. Distinct(now)
    BY SMTT(60), <2>2, <2>3, <2>4 DEF Distinct
  <2> QED
    BY <2>1, <2>4, <2>5, DraftChanges DEF ModelsInv, ModelsTyped
<1>8. ASSUME NEW m \in ModelIds, StartDrag(m) \/ PreviewDrop(m) PROVE ModelsInv'
  BY <1>8, DraftChanges DEF StartDrag, PreviewDrop, ModelsInv, ModelsTyped
<1>9. ASSUME NEW m \in ModelIds, ChooseModel(m) PROVE ModelsInv'
  <2>1. m \in Range(chooser.models) /\ Range(<<>>) = {}
    BY <1>9 DEF ChooseModel, Range
  <2> QED
    BY <1>9, <2>1, ModelsAssumption
    DEF ChooseModel, ModelsInv, ModelsTyped, Followed, Fits
<1>10. CASE ModelsPut
  BY <1>10 DEF ModelsPut, ModelsInv, ModelsTyped, Followed
<1>11. CASE ModelsRead
  BY <1>11 DEF ModelsRead, ModelsInv, ModelsTyped, Followed
<1>12. CASE SaveFails
  <2>1. NoSave.phase = "off" /\ NoSave.list = <<>> /\ NoSave \in [phase : {"off", "put", "get", "publish"}, list : Lists]
    BY <1>0 DEF NoSave
  <2>2. elsewhere' \in BOOLEAN /\ (~elsewhere' => ~elsewhere /\ saving.phase = "put")
    BY <1>12 DEF SaveFails
  <2> QED
    BY <1>12, <2>1, <2>2 DEF SaveFails, ModelsInv, ModelsTyped, Followed
<1>13. CASE SavePublished
  <2> DEFINE open == [chooser EXCEPT !.changed = TRUE]
             now == [open EXCEPT !.models = saving.list, !.selected = Choice(saving.list)]
  <2>1. NoSave.phase = "off" /\ NoSave \in [phase : {"off", "put", "get", "publish"}, list : Lists]
    BY <1>0 DEF NoSave
  <2>2. saving.list \in Lists /\ saving.phase = "publish" /\ saving' = NoSave
    BY <1>13 DEF SavePublished, ModelsInv, ModelsTyped
  <2>3. Filled(saving.list) \in Seq(Cards) /\ Distinct(Filled(saving.list))
    BY <2>2, FilledCards
  <2>4. Choice(saving.list) \in ModelOrNone /\ Fits(saving.list, Choice(saving.list))
    BY <2>2, ChoiceFits DEF ModelsInv, ModelsTyped
  <2>5. draft' = [draft EXCEPT !.list = Filled(saving.list)]
    BY <1>13 DEF SavePublished
  <2>6. CASE chooser.open
    <3>1. chooser' = now /\ remembered' = Choice(saving.list)
      BY <1>13, <2>6 DEF SavePublished, Offer
    <3> QED
      BY <1>13, <2>1, <2>2, <2>3, <2>4, <2>5, <2>6, <3>1
      DEF SavePublished, ModelsInv, ModelsTyped, Followed
  <2>7. CASE ~chooser.open
    BY <1>13, <2>1, <2>2, <2>3, <2>5, <2>7 DEF SavePublished, ModelsInv, ModelsTyped, Followed
  <2> QED
    BY <2>6, <2>7
<1>14. CASE OpenChooser
  <2>1. elsewhere' \in BOOLEAN /\ (~elsewhere' => ~elsewhere \/ saving = NoSave)
    BY <1>14 DEF OpenChooser
  <2>2. chooser' = [open |-> TRUE, asked |-> "asked", answer |-> <<>>, changed |-> FALSE,
                    models |-> <<>>, selected |-> remembered]
    BY <1>14 DEF OpenChooser, NoChooser
  <2>3. /\ chooser' \in [open : BOOLEAN, asked : {"no", "asked", "answered"}, answer : Lists,
                          changed : BOOLEAN, models : Lists, selected : ModelOrNone]
        /\ chooser'.open /\ chooser'.asked = "asked" /\ ~chooser'.changed
        /\ chooser'.selected = remembered
    BY <1>0, <2>2 DEF ModelsInv, ModelsTyped
  <2>4. UNCHANGED <<configured, draft, saving, remembered>>
    BY <1>14 DEF OpenChooser
  <2>5. ModelsTyped'
    BY <2>1, <2>3, <2>4 DEF ModelsInv, ModelsTyped, NoSave
  <2>6. ~elsewhere' => Followed'
    BY <2>1, <2>3, <2>4 DEF ModelsInv, Followed, NoSave
  <2> QED
    BY <2>3, <2>4, <2>5, <2>6 DEF ModelsInv
<1>15. CASE CloseChooser
  BY <1>0, <1>15 DEF CloseChooser, ModelsInv, ModelsTyped, Followed, NoChooser
<1>16. CASE ModelsListed
  BY <1>16 DEF ModelsListed, ModelsInv, ModelsTyped, Followed
<1>17. CASE ListArrives
  <2> DEFINE open == [chooser EXCEPT !.asked = "no", !.answer = <<>>]
  <2>1. CASE chooser.changed
    BY <1>0, <1>17, <2>1 DEF ListArrives, ModelsInv, ModelsTyped, Followed
  <2>2. CASE ~chooser.changed
    <3>1. Choice(chooser.answer) \in ModelOrNone /\ Fits(chooser.answer, Choice(chooser.answer))
      BY ChoiceFits DEF ModelsInv, ModelsTyped
    <3>2. /\ chooser' = [open EXCEPT !.models = chooser.answer, !.selected = Choice(chooser.answer)]
          /\ remembered' = Choice(chooser.answer)
      BY <1>17, <2>2 DEF ListArrives, Offer
    <3> QED
      BY <1>0, <1>17, <2>2, <3>1, <3>2 DEF ListArrives, ModelsInv, ModelsTyped, Followed
  <2> QED
    BY <2>1, <2>2
<1>18. CASE ListFails
  BY <1>18 DEF ListFails, ModelsInv, ModelsTyped
<1>19. ASSUME NEW list \in Lists, PhoneSaves(list) PROVE ModelsInv'
  BY <1>19 DEF PhoneSaves, ModelsInv, ModelsTyped
<1>20. CASE UNCHANGED modelVars
  BY <1>20 DEF modelVars, ModelsInv, ModelsTyped, Followed, Fits, NoSave
<1> QED
  BY <1>1, <1>2, <1>3, <1>4, <1>5, <1>6, <1>7, <1>8, <1>9, <1>10, <1>11, <1>12, <1>13, <1>14,
     <1>15, <1>16, <1>17, <1>18, <1>19, <1>20 DEF ModelsNext

LEMMA ModelsInvSafe == ModelsInv => ModelsTypeOK /\ ChooserUpToDate
<1> SUFFICES ASSUME ModelsInv PROVE ModelsTypeOK /\ ChooserUpToDate
  OBVIOUS
<1>1. IdsOf(draft.list) \in Lists
  BY IdsListed DEF ModelsInv, ModelsTyped
<1>2. ModelsTypeOK
  BY <1>1 DEF ModelsInv, ModelsTyped, ModelsTypeOK, ModelOrNone
<1>3. ChooserUpToDate
  BY DEF ModelsInv, ModelsTyped, Followed, Fits, NoSave, ChooserUpToDate
<1> QED
  BY <1>2, <1>3

-----------------------------------------------------------------------------
(* An MCP server *)

ClientOrNone == Clients \cup {NoClient}
ServerRecords == [there : BOOLEAN, version : 0 .. MaxSaves, enabled : BOOLEAN,
                  status : {"unverified", "connected", "failed"}]
JobRecords == [kind : {"none", "call", "test", "background"},
               step : {"idle", "pick", "find", "replace", "connect", "connecting", "list", "listed",
                       "failed", "use", "done"},
               uses : ClientOrNone]
EditRecords == [kind : {"none", "save", "delete"}, step : {"idle", "put", "answered", "close", "api"},
                uses : ClientOrNone, record : ServerRecords]
ClientStates == {"unborn", "connecting", "open", "closing", "closed"}

McpTyped ==
    /\ server \in ServerRecords
    /\ session \in ClientOrNone
    /\ client \in [Clients -> ClientStates]
    /\ job \in [Jobs -> JobRecords]
    /\ edit \in EditRecords
    /\ settings \in [open : BOOLEAN, shown : ServerRecords, reloads : Nat, busy : BOOLEAN]
    /\ edit.kind = "save" /\ edit.step = "put" => server.version < MaxSaves
    /\ edit.kind = "none" => edit = NoEdit

\* A job's client is born when it connects, and mapped only once it is open.
ClientsMapped ==
    /\ \A j \in Jobs :
           /\ job[j].step \in {"idle", "pick", "find", "replace", "connect"} => client[j] = "unborn"
           /\ job[j].step = "connecting" => client[j] = "connecting"
    /\ session # NoClient => client[session] \in {"open", "closing"}

\* What the page shows is what is stored, unless it has been told to ask again or
\* a save of its own has been stored.
ServerShown ==
    settings.open /\ settings.reloads = 0 /\ (edit.kind = "save" => edit.step = "put")
        => (IF server.there THEN settings.shown = server ELSE ~settings.shown.there)

McpInv == McpTyped /\ ClientsMapped /\ ServerShown

LEMMA McpConstants ==
    /\ 0 \in 0 .. MaxSaves /\ NoServer \in ServerRecords /\ IdleJob \in JobRecords
    /\ NoEdit \in EditRecords /\ NoEdit.kind = "none" /\ NoEdit.step = "idle"
    /\ ~NoServer.there
  BY MaxSavesAssumption
  DEF NoServer, ServerRecords, IdleJob, JobRecords, NoEdit, EditRecords, ClientOrNone

LEMMA McpStarts == McpInit => McpInv
<1> SUFFICES ASSUME McpInit PROVE McpInv
  OBVIOUS
<1>1. PICK e \in BOOLEAN : server = [NoServer EXCEPT !.there = TRUE, !.enabled = e]
  BY DEF McpInit
<1>2. server \in ServerRecords
  BY <1>1, McpConstants DEF ServerRecords
<1>3. /\ session \in ClientOrNone /\ session = NoClient
      /\ client \in [Clients -> ClientStates] /\ \A c \in Clients : client[c] = "unborn"
      /\ job \in [Jobs -> JobRecords] /\ \A j \in Jobs : job[j].step = "idle"
      /\ edit = NoEdit
  BY McpConstants DEF McpInit, ClientOrNone, ClientStates, IdleJob
<1>4. settings \in [open : BOOLEAN, shown : ServerRecords, reloads : Nat, busy : BOOLEAN] /\ ~settings.open
  BY McpConstants DEF McpInit
<1>5. McpTyped
  BY <1>2, <1>3, <1>4, McpConstants DEF McpTyped
<1>6. ClientsMapped
  BY <1>3 DEF ClientsMapped, Clients
<1> QED
  BY <1>4, <1>5, <1>6 DEF McpInv, ServerShown

\* A client that is closed while it is open goes on closing; no other changes.
LEMMA ClosingClients ==
    ASSUME McpTyped, NEW c \in ClientOrNone
    PROVE  /\ Closing(c) \in [Clients -> ClientStates]
           /\ \A d \in Clients :
                  \/ Closing(c)[d] = client[d]
                  \/ client[d] = "open" /\ Closing(c)[d] = "closing"
  BY DEF McpTyped, Closing, ClientStates

LEMMA Announcing ==
    ASSUME NEW p \in [open : BOOLEAN, shown : ServerRecords, reloads : Nat, busy : BOOLEAN]
    PROVE  /\ Announce(p) \in [open : BOOLEAN, shown : ServerRecords, reloads : Nat, busy : BOOLEAN]
           /\ Announce(p).open => Announce(p).reloads # 0
  BY DEF Announce

\* A step of the clients and the jobs that the server and its page do not see.
LEMMA JobsGoOn ==
    ASSUME McpInv, UNCHANGED <<server, edit>>,
           settings' = settings \/ \E b \in BOOLEAN : settings' = [settings EXCEPT !.busy = b],
           session' \in ClientOrNone, client' \in [Clients -> ClientStates],
           job' \in [Jobs -> JobRecords], ClientsMapped'
    PROVE  McpInv'
<1>1. McpTyped'
  BY DEF McpInv, McpTyped
<1>2. /\ settings'.open = settings.open /\ settings'.shown = settings.shown
      /\ settings'.reloads = settings.reloads
  BY DEF McpInv, McpTyped
<1>3. ServerShown'
  BY <1>2 DEF McpInv, ServerShown
<1> QED
  BY <1>1, <1>3 DEF McpInv

\* A job at another step.
LEMMA JobMoves ==
    ASSUME McpTyped, NEW j \in Jobs,
           NEW step \in {"idle", "pick", "find", "replace", "connect", "connecting", "list", "listed",
                         "failed", "use", "done"}
    PROVE  /\ JobAt(j, step) \in [Jobs -> JobRecords]
           /\ \A i \in Jobs : JobAt(j, step)[i].step = IF i = j THEN step ELSE job[i].step
  BY DEF JobAt, McpTyped, JobRecords

LEMMA McpClient ==
    ASSUME McpInv, NEW c \in Clients, ClientClosed(c) \/ ClientDies(c)
    PROVE  McpInv'
<1>1. /\ client[c] \in {"open", "closing"} /\ client' = [client EXCEPT ![c] = "closed"]
      /\ session' = (IF session = c THEN NoClient ELSE session)
      /\ UNCHANGED <<server, job, edit, settings>>
  BY DEF ClientClosed, ClientDies, Forget
<1>2. session' \in ClientOrNone /\ client' \in [Clients -> ClientStates]
  BY <1>1 DEF McpInv, McpTyped, ClientOrNone, ClientStates
<1>3. ClientsMapped'
  BY <1>1, <1>2 DEF McpInv, McpTyped, ClientsMapped, ClientOrNone, Clients
<1> QED
  BY <1>1, <1>2, <1>3, JobsGoOn DEF McpInv, McpTyped

\* The steps of a job that change the job alone.
LEMMA McpJob ==
    ASSUME McpInv, NEW j \in Jobs,
           StartCall(j) \/ Pick(j) \/ StartTest(j) \/ Find(j) \/ Called(j) \/ ToolsListed(j)
    PROVE  McpInv'
<1> DEFINE Early == {"idle", "pick", "find", "replace", "connect"}
<1>1. /\ UNCHANGED <<server, session, client, edit>>
      /\ settings' = settings \/ \E b \in BOOLEAN : settings' = [settings EXCEPT !.busy = b]
  BY DEF StartCall, Pick, StartTest, Find, Called, ToolsListed
<1>2. /\ job' \in [Jobs -> JobRecords]
      /\ \A i \in Jobs : \/ job'[i].step = job[i].step
                         \/ job'[i].step \in Early /\ job[i].step \in Early
                         \/ job'[i].step \notin Early \cup {"connecting"}
  <2>1. CASE StartCall(j)
    <3>1. /\ job' = [job EXCEPT ![j] = [job[j] EXCEPT !.kind = "call", !.step = "pick"]]
          /\ job[j].step = "idle"
      BY <2>1 DEF StartCall, IdleJob
    <3> QED
      BY <3>1 DEF McpInv, McpTyped, JobRecords
  <2>2. CASE Pick(j)
    <3>1. CASE session # NoClient
      BY <2>2, <3>1 DEF Pick, McpInv, McpTyped, JobRecords
    <3>2. CASE session = NoClient
      BY <2>2, <3>2, JobMoves DEF Pick, McpInv
    <3> QED
      BY <3>1, <3>2
  <2>3. CASE StartTest(j)
    <3>1. /\ job' = [job EXCEPT ![j] = [job[j] EXCEPT !.kind = "test", !.step = "find"]]
          /\ job[j].step = "idle"
      BY <2>3 DEF StartTest, IdleJob
    <3> QED
      BY <3>1 DEF McpInv, McpTyped, JobRecords
  <2>4. CASE Find(j)
    <3>1. PICK step \in {"replace", "failed", "done"} : job' = JobAt(j, step)
      BY <2>4 DEF Find, Failing
    <3>2. /\ job' \in [Jobs -> JobRecords]
          /\ \A i \in Jobs : job'[i].step = IF i = j THEN step ELSE job[i].step
      BY <3>1, JobMoves DEF McpInv
    <3>3. job[j].step = "find"
      BY <2>4 DEF Find
    <3> QED
      BY <3>2, <3>3
  <2>5. CASE Called(j)
    BY <2>5, JobMoves DEF Called, McpInv
  <2>6. CASE ToolsListed(j)
    <3>1. job' \in {JobAt(j, "listed"), JobAt(j, "failed")}
      BY <2>6 DEF ToolsListed
    <3> QED
      BY SMTT(60), <3>1, JobMoves DEF McpInv
  <2> QED
    BY <2>1, <2>2, <2>3, <2>4, <2>5, <2>6
<1>3. ClientsMapped'
  BY <1>1, <1>2 DEF McpInv, ClientsMapped
<1> QED
  BY <1>1, <1>2, <1>3, JobsGoOn DEF McpInv, McpTyped

LEMMA McpConnecting ==
    ASSUME McpInv, NEW j \in Jobs, Replace(j) \/ Connect(j) \/ Connected(j) \/ ConnectFails(j) \/ CallFails(j)
    PROVE  McpInv'
<1> USE DEF McpInv, McpTyped, ClientsMapped, ClientOrNone, Clients
<1>1. CASE Replace(j)
  <2>1. /\ client' = Closing(session) /\ job[j].step = "replace"
        /\ job' = [job EXCEPT ![j] = [job[j] EXCEPT !.step = "connect", !.uses = session]]
        /\ UNCHANGED <<server, session, edit, settings>>
    BY <1>1 DEF Replace
  <2>2. /\ job' \in [Jobs -> JobRecords]
        /\ \A i \in Jobs : job'[i].step = IF i = j THEN "connect" ELSE job[i].step
    BY ZenonT(60), <2>1 DEF JobRecords
  <2>4. /\ client' \in [Clients -> ClientStates]
        /\ \A d \in Clients : client'[d] = client[d] \/ (client[d] = "open" /\ client'[d] = "closing")
    BY <2>1, ClosingClients
  <2>3. ClientsMapped'
    BY <2>1, <2>2, <2>4
  <2> QED
    BY <2>1, <2>2, <2>3, <2>4, JobsGoOn
<1>2. CASE Connect(j)
  <2>1. /\ client' = [client EXCEPT ![j] = "connecting"] /\ job[j].step = "connect"
        /\ job' = [job EXCEPT ![j] = [job[j] EXCEPT !.step = "connecting", !.uses = NoClient]]
        /\ UNCHANGED <<server, session, edit, settings>>
    BY <1>2 DEF Connect
  <2>2. job' \in [Jobs -> JobRecords] /\ client' \in [Clients -> ClientStates]
    BY ZenonT(60), <2>1 DEF JobRecords, ClientStates
  <2>3. ClientsMapped'
    BY <2>1, <2>2 DEF JobRecords
  <2> QED
    BY <2>1, <2>2, <2>3, JobsGoOn
<1>3. CASE Connected(j)
  <2> DEFINE step == IF IsTest(j) THEN "list" ELSE "use"
  <2>1. /\ client' = [client EXCEPT ![j] = "open"] /\ job[j].step = "connecting" /\ session' = j
        /\ job' = [job EXCEPT ![j] = [job[j] EXCEPT !.step = step, !.uses = j]]
        /\ UNCHANGED <<server, edit, settings>> /\ step \in {"list", "use"}
    BY <1>3 DEF Connected
  <2> HIDE DEF step
  <2>2. job' \in [Jobs -> JobRecords] /\ client' \in [Clients -> ClientStates] /\ session' \in ClientOrNone
    BY ZenonT(60), <2>1 DEF JobRecords, ClientStates
  <2>3. ClientsMapped'
    BY <2>1, <2>2 DEF JobRecords
  <2> QED
    BY <2>1, <2>2, <2>3, JobsGoOn
<1>4. CASE ConnectFails(j)
  <2>1. /\ client' = [client EXCEPT ![j] = "closed"] /\ job[j].step = "connecting"
        /\ job' \in {JobAt(j, "failed"), JobAt(j, "done")}
        /\ UNCHANGED <<server, session, edit, settings>>
    BY <1>4 DEF ConnectFails, Failing
  <2>2. /\ job' \in [Jobs -> JobRecords] /\ client' \in [Clients -> ClientStates]
        /\ \A i \in Jobs : i # j => job'[i].step = job[i].step
        /\ job'[j].step \in {"failed", "done"}
    BY SMTT(60), <2>1, JobMoves DEF ClientStates
  <2>3. ClientsMapped'
    BY <2>1, <2>2
  <2> QED
    BY <2>1, <2>2, <2>3, JobsGoOn
<1>5. CASE CallFails(j)
  <2>1. /\ client' = Closing(job[j].uses) /\ session' = NoClient /\ job' = JobAt(j, "done")
        /\ UNCHANGED <<server, edit, settings>> /\ job[j].uses \in ClientOrNone
    BY <1>5 DEF CallFails, JobRecords
  <2>2. /\ job' \in [Jobs -> JobRecords] /\ client' \in [Clients -> ClientStates]
        /\ \A i \in Jobs : i # j => job'[i].step = job[i].step
        /\ job'[j].step = "done"
    BY <2>1, JobMoves, ClosingClients
  <2>3. ClientsMapped'
    BY <2>1, <2>2, ClosingClients
  <2> QED
    BY <2>1, <2>2, <2>3, JobsGoOn
<1> QED
  BY <1>1, <1>2, <1>3, <1>4, <1>5

LEMMA McpTestStored ==
    ASSUME McpInv, NEW j \in Jobs, TestStored(j)
    PROVE  McpInv'
<1> DEFINE b == settings.busy /\ job[j].kind = "background"
<1>1. /\ settings' = Announce([settings EXCEPT !.busy = b]) /\ job' = JobAt(j, "done")
      /\ UNCHANGED <<session, client, edit>> /\ b \in BOOLEAN
      /\ server' = server \/ \E s \in {"connected", "failed"} : server' = [server EXCEPT !.status = s]
  BY DEF TestStored, McpInv, McpTyped
<1> HIDE DEF b
<1>2. /\ server' \in ServerRecords /\ server'.version = server.version
      /\ [settings EXCEPT !.busy = b] \in [open : BOOLEAN, shown : ServerRecords, reloads : Nat, busy : BOOLEAN]
  BY <1>1 DEF McpInv, McpTyped, ServerRecords
<1>3. McpTyped'
  BY <1>1, <1>2, JobMoves, Announcing DEF McpInv, McpTyped
<1>6. \A i \in Jobs : job'[i].step = IF i = j THEN "done" ELSE job[i].step
  BY <1>1, JobMoves DEF McpInv
<1>4. ClientsMapped'
  BY <1>1, <1>6 DEF McpInv, ClientsMapped
<1>5. ServerShown'
  BY <1>1, <1>2, Announcing DEF ServerShown
<1> QED
  BY <1>3, <1>4, <1>5 DEF McpInv

LEMMA McpPage ==
    ASSUME McpInv, OpenServers \/ LeaveServers \/ Reloaded \/ \E enabled \in BOOLEAN : ClickSaveServer(enabled)
    PROVE  McpInv'
<1>1. CASE OpenServers
  <2>1. McpTyped' /\ settings'.reloads = 1
    BY <1>1, McpConstants DEF OpenServers, McpInv, McpTyped
  <2> QED
    BY <1>1, <2>1 DEF OpenServers, McpInv, ClientsMapped, ServerShown
<1>2. CASE LeaveServers
  <2>1. McpTyped' /\ ~settings'.open
    BY <1>2, McpConstants DEF LeaveServers, McpInv, McpTyped
  <2> QED
    BY <1>2, <2>1 DEF LeaveServers, McpInv, ClientsMapped, ServerShown
<1>3. CASE Reloaded
  <2> DEFINE left == settings.reloads - 1
  <2>2. /\ settings' = [settings EXCEPT !.reloads = left, !.shown = server]
        /\ left \in Nat /\ UNCHANGED <<server, session, client, job, edit>>
    BY <1>3 DEF Reloaded, McpInv, McpTyped
  <2> HIDE DEF left
  <2>1. McpTyped' /\ settings'.shown = server
    BY <2>2 DEF McpInv, McpTyped
  <2> QED
    BY <1>3, <2>1 DEF Reloaded, McpInv, ClientsMapped, ServerShown
<1>4. ASSUME NEW enabled \in BOOLEAN, ClickSaveServer(enabled) PROVE McpInv'
  <2> DEFINE wanted == [settings.shown EXCEPT !.enabled = enabled]
  <2>1. /\ edit' = [NoEdit EXCEPT !.kind = "save", !.step = "put", !.record = wanted]
        /\ edit = NoEdit /\ server.version < MaxSaves
        /\ UNCHANGED <<server, session, client, job, settings>>
    BY <1>4 DEF ClickSaveServer
  <2>2. wanted \in ServerRecords
    BY DEF McpInv, McpTyped, ServerRecords
  <2> HIDE DEF wanted
  <2>3. edit' \in EditRecords /\ edit'.kind = "save" /\ edit'.step = "put"
    BY <2>1, <2>2, McpConstants DEF EditRecords
  <2>4. McpTyped'
    BY <2>1, <2>3 DEF McpInv, McpTyped
  <2> QED
    BY <2>1, <2>3, <2>4, McpConstants DEF McpInv, ClientsMapped, ServerShown
<1> QED
  BY <1>1, <1>2, <1>3, <1>4

LEMMA McpSaves ==
    ASSUME McpInv, ServerPut \/ ServerSaved \/ SaveReturns
    PROVE  McpInv'
<1>1. CASE ServerPut /\ server.there
  <2> DEFINE stored == [there |-> TRUE, version |-> server.version + 1,
                       enabled |-> edit.record.enabled, status |-> "unverified"]
  <2>1. /\ server' = stored /\ edit' = [edit EXCEPT !.step = "answered", !.record = stored]
        /\ edit.kind = "save" /\ edit.step = "put" /\ UNCHANGED <<session, client, job, settings>>
    BY <1>1 DEF ServerPut
  <2>2. stored \in ServerRecords
    BY <2>1, MaxSavesAssumption DEF McpInv, McpTyped, ServerRecords, EditRecords
  <2> HIDE DEF stored
  <2>3. edit' \in EditRecords /\ edit'.kind = "save" /\ edit'.step = "answered"
    BY <2>1, <2>2 DEF McpInv, McpTyped, EditRecords
  <2>4. McpTyped'
    BY <2>1, <2>2, <2>3 DEF McpInv, McpTyped
  <2> QED
    BY <2>1, <2>3, <2>4 DEF McpInv, ClientsMapped, ServerShown
<1>2. CASE ServerPut /\ ~server.there
  <2>1. /\ edit' = NoEdit /\ edit.kind = "save" /\ edit.step = "put"
        /\ UNCHANGED <<server, session, client, job, settings>>
    BY <1>2 DEF ServerPut
  <2>2. McpTyped'
    BY <2>1, McpConstants DEF McpInv, McpTyped
  <2> QED
    BY <2>1, <2>2 DEF McpInv, ClientsMapped, ServerShown
<1>3. CASE ServerSaved
  <2>1. /\ session' = NoClient /\ client' = Closing(session)
        /\ edit' = [edit EXCEPT !.step = "close", !.uses = session]
        /\ edit.kind = "save" /\ UNCHANGED <<server, job, settings>>
    BY <1>3 DEF ServerSaved
  <2>2. edit' \in EditRecords /\ edit'.kind = "save" /\ edit'.step = "close"
    BY <2>1 DEF McpInv, McpTyped, EditRecords
  <2>3. session \in ClientOrNone /\ NoClient \in ClientOrNone
    BY DEF McpInv, McpTyped, ClientOrNone
  <2>4. McpTyped'
    BY <2>1, <2>2, <2>3, ClosingClients DEF McpInv, McpTyped
  <2>5. ClientsMapped'
    BY <2>1, <2>3, ClosingClients DEF McpInv, ClientsMapped, Clients
  <2> QED
    BY <2>2, <2>4, <2>5 DEF McpInv, ServerShown
<1>4. CASE SaveReturns
  <2>1. /\ settings' = Announce([settings EXCEPT !.shown = edit.record])
        /\ edit' = NoEdit /\ UNCHANGED <<server, session, client>>
        /\ \/ \E j \in Jobs : /\ job[j] = IdleJob
                              /\ job' = [job EXCEPT ![j] = [job[j] EXCEPT !.kind = "background", !.step = "find"]]
           \/ UNCHANGED job
    BY <1>4 DEF SaveReturns
  <2>2. [settings EXCEPT !.shown = edit.record] \in
            [open : BOOLEAN, shown : ServerRecords, reloads : Nat, busy : BOOLEAN]
    BY DEF McpInv, McpTyped, EditRecords
  <2>3. /\ job' \in [Jobs -> JobRecords]
        /\ \A i \in Jobs : job'[i].step = job[i].step \/ (job'[i].step = "find" /\ job[i].step = "idle")
    <3>1. CASE UNCHANGED job
      BY <3>1 DEF McpInv, McpTyped
    <3>2. ASSUME NEW j \in Jobs, job[j] = IdleJob,
                 job' = [job EXCEPT ![j] = [job[j] EXCEPT !.kind = "background", !.step = "find"]]
          PROVE  /\ job' \in [Jobs -> JobRecords]
                 /\ \A i \in Jobs : job'[i].step = job[i].step \/ (job'[i].step = "find" /\ job[i].step = "idle")
      <4>1. job[j].step = "idle"
        BY <3>2 DEF IdleJob
      <4>2. job[j] \in JobRecords
        BY DEF McpInv, McpTyped
      <4>3. [job[j] EXCEPT !.kind = "background", !.step = "find"] \in JobRecords
        BY <4>2 DEF JobRecords
      <4> QED
        BY <3>2, <4>1, <4>3 DEF McpInv, McpTyped, JobRecords
    <3> QED
      BY <2>1, <3>1, <3>2
  <2>4. McpTyped'
    BY <2>1, <2>2, <2>3, Announcing, McpConstants DEF McpInv, McpTyped
  <2>5. ClientsMapped'
    BY <2>1, <2>3 DEF McpInv, ClientsMapped
  <2>6. ServerShown'
    BY <2>1, <2>2, Announcing DEF ServerShown
  <2> QED
    BY <2>4, <2>5, <2>6 DEF McpInv
<1> QED
  BY <1>1, <1>2, <1>3, <1>4

LEMMA McpDeletes ==
    ASSUME McpInv, ConfirmDelete \/ DeleteClosed \/ ServerDeleted
    PROVE  McpInv'
<1>1. CASE ConfirmDelete
  <2>1. /\ client' = Closing(session) /\ edit = NoEdit
        /\ edit' = [NoEdit EXCEPT !.kind = "delete", !.step = "close", !.uses = session]
        /\ UNCHANGED <<server, session, job, settings>>
    BY <1>1 DEF ConfirmDelete
  <2>2. session \in ClientOrNone
    BY DEF McpInv, McpTyped
  <2>3. edit' \in EditRecords /\ edit'.kind = "delete"
    BY <2>1, <2>2, McpConstants DEF EditRecords
  <2>4. McpTyped'
    BY <2>1, <2>2, <2>3, ClosingClients DEF McpInv, McpTyped
  <2>5. ClientsMapped'
    BY <2>1, <2>2, ClosingClients DEF McpInv, ClientsMapped, Clients, ClientOrNone
  <2> QED
    BY <2>1, <2>3, <2>4, <2>5, McpConstants DEF McpInv, ServerShown
<1>2. CASE DeleteClosed
  <2>1. /\ session' = NoClient /\ edit' = [edit EXCEPT !.step = "api"] /\ edit.kind = "delete"
        /\ UNCHANGED <<server, client, job, settings>>
    BY <1>2 DEF DeleteClosed
  <2>2. edit' \in EditRecords /\ edit'.kind = "delete"
    BY <2>1 DEF McpInv, McpTyped, EditRecords
  <2>3. McpTyped'
    BY <2>1, <2>2 DEF McpInv, McpTyped, ClientOrNone
  <2> QED
    BY <2>1, <2>2, <2>3 DEF McpInv, ClientsMapped, ServerShown
<1>3. CASE ServerDeleted /\ UNCHANGED <<server, settings>>
  <2>1. edit' = NoEdit /\ edit.kind = "delete" /\ UNCHANGED <<session, client, job>>
    BY <1>3 DEF ServerDeleted
  <2>2. McpTyped'
    BY <1>3, <2>1, McpConstants DEF McpInv, McpTyped
  <2> QED
    BY <1>3, <2>1, <2>2 DEF McpInv, ClientsMapped, ServerShown
<1>4. CASE ServerDeleted /\ ~UNCHANGED <<server, settings>>
  <2>1. /\ edit' = NoEdit /\ UNCHANGED <<session, client, job>>
        /\ server' = [NoServer EXCEPT !.version = server.version]
        /\ settings' = Announce([settings EXCEPT !.shown = NoServer])
    BY <1>4 DEF ServerDeleted
  <2>2. server' \in ServerRecords
    BY <2>1, McpConstants DEF McpInv, McpTyped, ServerRecords
  <2>3. [settings EXCEPT !.shown = NoServer] \in
            [open : BOOLEAN, shown : ServerRecords, reloads : Nat, busy : BOOLEAN]
    BY McpConstants DEF McpInv, McpTyped
  <2>4. McpTyped'
    BY <2>1, <2>2, <2>3, Announcing, McpConstants DEF McpInv, McpTyped
  <2>5. ServerShown'
    BY <2>1, <2>3, Announcing DEF ServerShown
  <2> QED
    BY <2>1, <2>4, <2>5 DEF McpInv, ClientsMapped
<1> QED
  BY <1>1, <1>2, <1>3, <1>4

LEMMA McpKept == McpInv /\ [McpNext]_mcpVars => McpInv'
<1> SUFFICES ASSUME McpInv, [McpNext]_mcpVars PROVE McpInv'
  OBVIOUS
<1>1. CASE UNCHANGED mcpVars
  BY <1>1 DEF mcpVars, McpInv, McpTyped, ClientsMapped, ServerShown
<1>2. CASE McpNext
  BY <1>2, McpClient, McpJob, McpConnecting, McpTestStored, McpPage, McpSaves, McpDeletes DEF McpNext
<1> QED
  BY <1>1, <1>2

LEMMA McpInvSafe == McpInv => McpTypeOK /\ MappedClientUp /\ PageShowsServer
<1> SUFFICES ASSUME McpInv PROVE McpTypeOK /\ MappedClientUp /\ PageShowsServer
  OBVIOUS
<1>1. McpTypeOK
  BY DEF McpInv, McpTyped, ClientsMapped, McpTypeOK, ServerRecords, ClientOrNone, ClientStates,
         JobRecords, EditRecords, Clients
<1>2. MappedClientUp
  BY DEF McpInv, ClientsMapped, MappedClientUp
<1>3. PageShowsServer
  BY McpConstants DEF McpInv, ServerShown, PageShowsServer
<1> QED
  BY <1>1, <1>2, <1>3

-----------------------------------------------------------------------------
(* The directory of a skill *)

TaskRecords ==
    [kind : {"none", "upload", "download", "remove", "delete", "load"},
     step : {"idle", "post", "list", "fetch", "stage", "find", "delete", "clear", "rename", "read"},
     digest : Versions, archive : Versions]

SkillsTyped ==
    /\ package \in Versions /\ uploaded \in Versions
    /\ folder \in [Files -> Versions]
    /\ panel \in [open : BOOLEAN, shows : {"nothing", "remote", "installed"},
                  installing : BOOLEAN, busy : BOOLEAN]
    /\ task \in [Tasks -> TaskRecords]
    /\ cut \in BOOLEAN

\* Files are only taken from a whole archive, and while it is being removed.
ArchiveWhole ==
    /\ \E v \in Versions : \A f \in Files : folder[f] \in {0, v}
    /\ (\A t \in Tasks : task[t].step # "clear") /\ ~cut =>
           \E v \in Versions : folder = Unpacked(v)

SkillsInv == SkillsTyped /\ ArchiveWhole

LEMMA SkillsStarts == SkillsInit => SkillsInv
<1> SUFFICES ASSUME SkillsInit PROVE SkillsInv
  OBVIOUS
<1>1. 0 \in Versions /\ 1 \in Versions
  BY MaxVersionAssumption DEF Versions
<1>2. folder = Unpacked(0) \/ folder = Unpacked(1)
  BY DEF SkillsInit, Emptied, Unpacked
<1>3. SkillsTyped
  BY <1>1, <1>2 DEF SkillsInit, SkillsTyped, TaskRecords, IdleTask, ClosedPanel, Unpacked
<1>4. \E v \in Versions : \A f \in Files : folder[f] \in {0, v}
  BY <1>1, <1>2 DEF Unpacked
<1> QED
  BY <1>1, <1>2, <1>3, <1>4 DEF SkillsInv, ArchiveWhole

\* A step that leaves the directory as it is, and no task in the middle of a removal.
LEMMA FolderStays ==
    ASSUME SkillsInv, SkillsTyped', folder' = folder, cut' = cut,
           \A t \in Tasks : task[t].step = "clear" => task'[t].step = "clear"
    PROVE  SkillsInv'
  BY DEF SkillsInv, ArchiveWhole

LEMMA EndsTyped ==
    ASSUME SkillsTyped, NEW t \in Tasks, NEW shows \in {"nothing", "remote", "installed"},
           Ends(t, shows)
    PROVE  /\ task' = [task EXCEPT ![t] = IdleTask] /\ task' \in [Tasks -> TaskRecords]
           /\ panel' \in [open : BOOLEAN, shows : {"nothing", "remote", "installed"},
                          installing : BOOLEAN, busy : BOOLEAN]
<1>1. 0 \in Versions
  BY MaxVersionAssumption DEF Versions
<1>2. IdleTask \in TaskRecords
  BY <1>1 DEF IdleTask, TaskRecords
<1>3. task' = [task EXCEPT ![t] = IdleTask]
  BY DEF Ends
<1> DEFINE i == panel.installing /\ task[t].kind # "upload"
           b == panel.busy /\ task[t].kind # "download"
           s == IF panel.open THEN shows ELSE panel.shows
<1>4. panel' = [panel EXCEPT !.shows = s, !.installing = i, !.busy = b]
  BY DEF Ends
<1>5. i \in BOOLEAN /\ b \in BOOLEAN /\ s \in {"nothing", "remote", "installed"}
  BY DEF SkillsTyped
<1> HIDE DEF i, b, s
<1>6. panel' \in [open : BOOLEAN, shows : {"nothing", "remote", "installed"},
                  installing : BOOLEAN, busy : BOOLEAN]
  BY <1>4, <1>5 DEF SkillsTyped
<1> QED
  BY <1>2, <1>3, <1>6 DEF SkillsTyped

LEMMA BeginTyped ==
    ASSUME SkillsTyped, NEW t \in Tasks, NEW kind \in {"upload", "download", "remove", "delete", "load"},
           NEW step \in {"post", "list", "find", "delete", "clear"}, Begin(t, kind, step)
    PROVE  /\ task' \in [Tasks -> TaskRecords]
           /\ \A u \in Tasks : task[u].step = "clear" => task'[u].step = "clear"
<1>1. 0 \in Versions
  BY MaxVersionAssumption DEF Versions
<1>2. task[t].step = "idle"
  BY DEF Begin, IdleTask
<1>3. [IdleTask EXCEPT !.kind = kind, !.step = step] \in TaskRecords
  BY <1>1 DEF IdleTask, TaskRecords
<1> QED
  BY <1>2, <1>3 DEF SkillsTyped, Begin

LEMMA SkillsKept == SkillsInv /\ [SkillsNext]_skillVars => SkillsInv'
<1> SUFFICES ASSUME SkillsInv, [SkillsNext]_skillVars PROVE SkillsInv'
  OBVIOUS
<1>0. 0 \in Versions /\ IdleTask \in TaskRecords /\ ListedAs \in {"nothing", "remote", "installed"}
  BY MaxVersionAssumption DEF Versions, IdleTask, TaskRecords, ListedAs
<1>1. CASE UNCHANGED skillVars
  BY <1>1 DEF skillVars, SkillsInv, SkillsTyped, ArchiveWhole
<1>2. CASE OpenPanel \/ LeavePanel
  <2>1. panel' \in [open : BOOLEAN, shows : {"nothing", "remote", "installed"},
                    installing : BOOLEAN, busy : BOOLEAN]
    <3>1. panel' \in {ClosedPanel, [ClosedPanel EXCEPT !.open = TRUE, !.shows = ListedAs]}
      BY <1>2 DEF OpenPanel, LeavePanel
    <3> DEFINE as == ListedAs
    <3>2. as \in {"nothing", "remote", "installed"}
      BY <1>0
    <3>3. panel' \in {ClosedPanel, [ClosedPanel EXCEPT !.open = TRUE, !.shows = as]}
      BY <3>1
    <3> HIDE DEF as
    <3>4. ClosedPanel \in [open : BOOLEAN, shows : {"nothing", "remote", "installed"},
                          installing : BOOLEAN, busy : BOOLEAN]
      BY DEF ClosedPanel
    <3> QED
      BY <3>2, <3>3, <3>4
  <2>2. UNCHANGED <<package, uploaded, folder, task, cut>>
    BY <1>2 DEF OpenPanel, LeavePanel
  <2> QED
    BY <2>1, <2>2, FolderStays DEF SkillsInv, SkillsTyped
<1>3. CASE Quit
  <2>1. SkillsTyped'
    <3>1. cut' \in BOOLEAN /\ UNCHANGED <<package, uploaded, folder>>
      BY <1>3 DEF Quit
    <3>2. task' \in [Tasks -> TaskRecords]
      BY <1>0, <1>3 DEF Quit
    <3>3. panel' \in [open : BOOLEAN, shows : {"nothing", "remote", "installed"},
                      installing : BOOLEAN, busy : BOOLEAN]
      BY <1>3 DEF Quit, ClosedPanel
    <3> QED
      BY <3>1, <3>2, <3>3 DEF SkillsInv, SkillsTyped
  <2>2. ~cut' => folder = Unpacked(0) \/ (~cut /\ \A t \in Tasks : task[t].step # "clear")
    BY <1>3 DEF Quit, Emptied, Unpacked
  <2> QED
    BY <1>0, <1>3, <2>1, <2>2 DEF Quit, SkillsInv, ArchiveWhole
<1>4. CASE ElsewhereChanged
  <2>1. uploaded < MaxVersion => uploaded + 1 \in Versions
    BY MaxVersionAssumption DEF SkillsInv, SkillsTyped, Versions
  <2> QED
    BY <1>0, <1>4, <2>1, FolderStays DEF ElsewhereChanged, SkillsInv, SkillsTyped
<1>5. ASSUME NEW t \in Tasks, ClickUpload(t) \/ ClickDownload(t) \/ LoadCapability(t)
                               \/ \E kind \in {"remove", "delete"} : ConfirmRemoval(t, kind)
      PROVE  SkillsInv'
  <2>1. /\ UNCHANGED <<package, uploaded, folder, cut>>
        /\ task' \in [Tasks -> TaskRecords]
        /\ \A u \in Tasks : task[u].step = "clear" => task'[u].step = "clear"
    BY <1>5, BeginTyped
    DEF ClickUpload, ClickDownload, LoadCapability, ConfirmRemoval, SkillsInv
  <2>2. panel' \in {panel, [panel EXCEPT !.installing = TRUE], [panel EXCEPT !.busy = TRUE]}
    BY <1>5 DEF ClickUpload, ClickDownload, LoadCapability, ConfirmRemoval
  <2>3. SkillsTyped'
    BY <2>1, <2>2 DEF SkillsInv, SkillsTyped
  <2> QED
    BY <2>1, <2>3, FolderStays
<1>6. ASSUME NEW t \in Tasks, Fails(t) \/ InstructionsRead(t) PROVE SkillsInv'
  <2>1. /\ Ends(t, panel.shows) /\ task[t].step # "clear"
        /\ UNCHANGED <<package, uploaded, folder, cut>>
    BY <1>6 DEF Fails, InstructionsRead
  <2>2. SkillsTyped'
    BY <2>1, EndsTyped DEF SkillsInv, SkillsTyped
  <2>3. \A u \in Tasks : task[u].step = "clear" => task'[u].step = "clear"
    BY <2>1, EndsTyped DEF SkillsInv, SkillsTyped
  <2> QED
    BY <2>1, <2>2, <2>3, FolderStays
<1>7. ASSUME NEW t \in Tasks, ArchivePosted(t) PROVE SkillsInv'
  <2>1. uploaded + 1 \in Versions
    BY <1>7, MaxVersionAssumption DEF ArchivePosted, SkillsInv, SkillsTyped, Versions
  <2>2. /\ task' = [task EXCEPT ![t] = [task[t] EXCEPT !.archive = uploaded + 1, !.step = "stage"]]
        /\ task[t].step = "post" /\ package' = uploaded + 1 /\ uploaded' = uploaded + 1
        /\ UNCHANGED <<folder, panel, cut>>
    BY <1>7 DEF ArchivePosted, SkillsInv, SkillsTyped, TaskRecords
  <2> QED
    BY ZenonT(60), <2>1, <2>2, FolderStays DEF SkillsInv, SkillsTyped, TaskRecords
<1>8. ASSUME NEW t \in Tasks, SkillFound(t) \/ SkillListed(t) \/ ArchiveFetched(t) \/ Staged(t)
      PROVE  SkillsInv'
  BY <1>8, FolderStays
  DEF SkillFound, SkillListed, ArchiveFetched, Staged, Goes, SkillsInv, SkillsTyped, TaskRecords
<1>9. ASSUME NEW t \in Tasks, ArchiveDeleted(t) PROVE SkillsInv'
  BY <1>0, <1>9, FolderStays DEF ArchiveDeleted, Goes, SkillsInv, SkillsTyped, TaskRecords
<1>10. ASSUME NEW t \in Tasks, NEW f \in Files, ClearFile(t, f) PROVE SkillsInv'
  <2>1. /\ task[t].step = "clear" /\ folder' = [folder EXCEPT ![f] = 0]
        /\ UNCHANGED <<package, uploaded, task, panel, cut>>
    BY <1>10 DEF ClearFile
  <2>2. SkillsTyped'
    BY <1>0, <2>1 DEF SkillsInv, SkillsTyped
  <2> QED
    BY <2>1, <2>2 DEF SkillsInv, SkillsTyped, ArchiveWhole
<1>11. ASSUME NEW t \in Tasks, Cleared(t) PROVE SkillsInv'
  <2>1. SkillsTyped'
    <3>1. CASE task[t].kind \in {"remove", "delete"}
      BY <1>0, <1>11, <3>1, EndsTyped DEF Cleared, SkillsInv, SkillsTyped
    <3>2. CASE task[t].kind \notin {"remove", "delete"}
      <4>1. /\ task' = [task EXCEPT ![t] = [task[t] EXCEPT !.step = "rename"]]
            /\ cut' = FALSE /\ UNCHANGED <<package, uploaded, folder, panel>>
        BY <1>11, <3>2 DEF Cleared, Goes, SkillsInv, SkillsTyped
      <4>2. [task[t] EXCEPT !.step = "rename"] \in TaskRecords
        BY DEF SkillsInv, SkillsTyped, TaskRecords
      <4> QED
        BY <4>1, <4>2 DEF SkillsInv, SkillsTyped
    <3> QED
      BY <3>1, <3>2
  <2>2. folder' = Unpacked(0)
    BY <1>11 DEF Cleared, Emptied, Unpacked
  <2> QED
    BY <1>0, <2>1, <2>2 DEF SkillsInv, ArchiveWhole, Unpacked
<1>12. ASSUME NEW t \in Tasks, Renamed(t) PROVE SkillsInv'
  <2>1. task[t].step = "rename" /\ UNCHANGED <<package, uploaded, cut>>
    BY <1>12 DEF Renamed
  <2>2. CASE folder = Emptied
    <3>1. folder' = Unpacked(task[t].archive) /\ task[t].archive \in Versions
      BY <1>12, <2>2 DEF Renamed, SkillsInv, SkillsTyped, TaskRecords
    <3>2. folder' \in [Files -> Versions]
      BY <3>1 DEF Unpacked
    <3>3. SkillsTyped'
      <4>1. CASE task[t].kind = "load"
        BY <1>12, <2>1, <2>2, <3>2, <4>1 DEF Renamed, Goes, SkillsInv, SkillsTyped, TaskRecords
      <4>2. CASE task[t].kind # "load"
        BY <1>12, <2>1, <2>2, <3>2, <4>2, EndsTyped DEF Renamed, SkillsInv, SkillsTyped
      <4> QED
        BY <4>1, <4>2
    <3> QED
      BY <3>1, <3>3 DEF SkillsInv, ArchiveWhole, Unpacked
  <2>3. CASE folder # Emptied
    <3>1. folder' = folder /\ Ends(t, panel.shows)
      BY <1>12, <2>3 DEF Renamed
    <3>2. SkillsTyped'
      BY <2>1, <3>1, EndsTyped DEF SkillsInv, SkillsTyped
    <3>3. \A u \in Tasks : task[u].step = "clear" => task'[u].step = "clear"
      BY <2>1, <3>1, EndsTyped DEF SkillsInv, SkillsTyped
    <3> QED
      BY <2>1, <3>1, <3>2, <3>3, FolderStays
  <2> QED
    BY <2>2, <2>3
<1> QED
  BY <1>1, <1>2, <1>3, <1>4, <1>5, <1>6, <1>7, <1>8, <1>9, <1>10, <1>11, <1>12 DEF SkillsNext

LEMMA SkillsInvSafe == SkillsInv => SkillsTypeOK /\ OneArchive
<1> SUFFICES ASSUME SkillsInv PROVE SkillsTypeOK /\ OneArchive
  OBVIOUS
<1>1. SkillsTypeOK
  BY DEF SkillsInv, SkillsTyped, SkillsTypeOK, TaskRecords
<1>2. Cardinality({folder[f] : f \in Files} \ {0}) <= 1
  <2>1. PICK v \in Versions : \A f \in Files : folder[f] \in {0, v}
    BY DEF SkillsInv, ArchiveWhole
  <2>2. {folder[f] : f \in Files} \ {0} \subseteq {v}
    BY <2>1
  <2>3. IsFiniteSet({v}) /\ Cardinality({v}) = 1
    BY FS_Singleton
  <2> QED
    BY <2>2, <2>3, FS_Subset
<1>3. (\A t \in Tasks : task[t] = IdleTask) /\ ~cut =>
          folder = Emptied \/ folder = Unpacked(folder[Manifest])
  <2>1. SUFFICES ASSUME \A t \in Tasks : task[t] = IdleTask, ~cut
                 PROVE  folder = Unpacked(folder[Manifest])
    OBVIOUS
  <2>2. PICK v \in Versions : folder = Unpacked(v)
    BY <2>1 DEF SkillsInv, ArchiveWhole, IdleTask
  <2> QED
    BY <2>2, ManifestAssumption DEF Unpacked
<1> QED
  BY <1>1, <1>2, <1>3 DEF OneArchive

-----------------------------------------------------------------------------
(* The page of a team *)

TeamOrNone == Teams \cup {Nothing}
TaskOrNone == TeamTasks \cup {Nothing}

TeamTyped ==
    /\ template \in [Teams -> TeamOrNone] /\ copies \in [Teams -> TeamOrNone]
    /\ owner \in [TeamTasks -> TeamOrNone]
    /\ selected \in [team : TeamOrNone, task : TaskOrNone]
    /\ shown \in [mounted : BOOLEAN, team : TeamOrNone, task : TaskOrNone, dialog : BOOLEAN]
    /\ asked \in [first : BOOLEAN, again : BOOLEAN, load : TaskOrNone, create : BOOLEAN,
                  save : [team : TeamOrNone, content : TeamOrNone, done : BOOLEAN],
                  task : TeamOrNone, told : TaskOrNone,
                  remove : [target : Teams \cup TaskOrNone, selected : BOOLEAN]]
    /\ ran \subseteq TeamTasks /\ crossed \in BOOLEAN
    /\ ~shown.mounted => asked = NoneAsked /\ shown = Away /\ ran = {}

\* Every copy of a template is that of the collaboration it stands for.
TemplatesOwn ==
    /\ \A x \in Teams : template[x] \in {x, Nothing} /\ copies[x] \in {x, Nothing}
    /\ shown.team \in {selected.team, Nothing}
    /\ asked.save.content = asked.save.team

TeamInv == TeamTyped /\ (~crossed => TemplatesOwn)

LEMMA TeamStarts == TeamInit => TeamInv
<1> SUFFICES ASSUME TeamInit PROVE TeamInv
  OBVIOUS
<1>1. PICK existing \in SUBSET Teams :
          template = [x \in Teams |-> IF x \in existing THEN x ELSE Nothing]
  BY DEF TeamInit
<1>2. TeamTyped
  BY <1>1 DEF TeamInit, TeamTyped, TeamOrNone, TaskOrNone, NoneAsked, NoSaveOfTeam, Away
<1>3. TemplatesOwn
  BY <1>1 DEF TeamInit, TemplatesOwn, NoneAsked, NoSaveOfTeam, Away
<1> QED
  BY <1>2, <1>3 DEF TeamInv

\* Only the page that is there asks for something or shows something.
LEMMA PageMounted ==
    ASSUME TeamTyped,
           \/ asked.first \/ asked.again \/ asked.create \/ asked.load # Nothing
           \/ asked.save # NoSaveOfTeam \/ asked.save.done \/ asked.task # Nothing
           \/ asked.told # Nothing \/ asked.remove.target # Nothing
           \/ shown.team # Nothing \/ shown.task # Nothing \/ shown.dialog \/ ran # {}
    PROVE  shown.mounted = TRUE
<1>1. /\ NoneAsked.first = FALSE /\ NoneAsked.again = FALSE /\ NoneAsked.create = FALSE
      /\ NoneAsked.load = Nothing /\ NoneAsked.save = NoSaveOfTeam /\ NoneAsked.task = Nothing
      /\ NoneAsked.told = Nothing /\ NoneAsked.remove.target = Nothing
  BY DEF NoneAsked
<1>2. NoSaveOfTeam.done = FALSE /\ Away.team = Nothing /\ Away.task = Nothing /\ Away.dialog = FALSE
  BY DEF NoSaveOfTeam, Away
<1>3. shown.mounted \in BOOLEAN
  BY DEF TeamTyped
<1> QED
  BY <1>1, <1>2, <1>3, Zenon DEF TeamTyped

LEMMA TeamKept == TeamInv /\ [TeamNext]_teamVars => TeamInv'
<1> SUFFICES ASSUME TeamInv, [TeamNext]_teamVars PROVE TeamInv'
  OBVIOUS
<1> USE DEF TeamInv, TeamTyped, TemplatesOwn, TeamOrNone, TaskOrNone, Stored
<1>1. CASE UNCHANGED teamVars
  BY <1>1 DEF teamVars
<1>2. CASE Mount
  BY <1>2 DEF Mount, Away
<1>3. CASE Unmount
  BY <1>3 DEF Unmount, Away, NoneAsked, NoSaveOfTeam
<1>4. CASE FirstListed
  <2>1. /\ shown.mounted = TRUE /\ asked' = [asked EXCEPT !.first = FALSE]
        /\ UNCHANGED <<template, owner, selected, ran, crossed>>
    BY <1>4, PageMounted DEF FirstListed
  <2>2. CASE UNCHANGED <<copies, shown>>
    BY ZenonT(60), <2>1, <2>2
  <2>3. CASE copies' = template
    <3>1. CASE UNCHANGED shown
      BY ZenonT(60), <2>1, <2>3, <3>1
    <3>2. CASE shown' = [shown EXCEPT !.team = copies'[selected.team]] /\ selected.team # Nothing
      BY <2>1, <2>3, <3>2
    <3> QED
      BY <1>4, <2>3, <3>1, <3>2 DEF FirstListed
  <2> QED
    BY <1>4, <2>2, <2>3 DEF FirstListed
<1>5. CASE ListedAgain
  BY ZenonT(60), <1>5, PageMounted DEF ListedAgain
<1>6. CASE TaskLoaded
  BY <1>6, PageMounted DEF TaskLoaded, ApplySnapshot
<1>7. CASE CreateCollaboration \/ CreateFails
  BY ZenonT(60), <1>7, PageMounted DEF CreateCollaboration, CreateFails
<1>8. CASE SaveTeam
  BY <1>8, PageMounted DEF SaveTeam
<1>9. CASE TeamPatched
  <2>1. /\ shown.mounted = TRUE
        /\ UNCHANGED <<owner, copies, selected, shown, ran, crossed>>
    BY <1>9, PageMounted DEF TeamPatched
  <2>2. /\ NoSaveOfTeam \in [team : TeamOrNone, content : TeamOrNone, done : BOOLEAN]
        /\ NoSaveOfTeam.team = NoSaveOfTeam.content
    BY DEF NoSaveOfTeam
  <2>3. CASE asked' = [asked EXCEPT !.save = NoSaveOfTeam] /\ UNCHANGED template
    BY <2>1, <2>2, <2>3
  <2>4. CASE /\ template' = [template EXCEPT ![asked.save.team] = asked.save.content]
             /\ asked' = [asked EXCEPT !.save.done = TRUE]
    BY ZenonT(60), <2>1, <2>4
  <2> QED
    BY <1>9, <2>3, <2>4 DEF TeamPatched
<1>10. CASE TeamSaved
  BY <1>10, PageMounted DEF TeamSaved, NoSaveOfTeam
<1>11. CASE RunShown \/ CloseDialog
  BY ZenonT(60), <1>11, PageMounted DEF RunShown, CloseDialog
<1>12. CASE StartRun \/ RunRefused
  BY <1>12 DEF StartRun, RunRefused, Away, NoneAsked
<1>13. CASE RunAgain \/ TellTask
  BY <1>13 DEF RunAgain, TellTask, Away
<1>14. CASE TaskTold
  BY ZenonT(60), <1>14, PageMounted DEF TaskTold, ApplySnapshot
<1>15. CASE DeletedAtApi
  <2>1. shown.mounted = TRUE /\ UNCHANGED <<copies, ran, crossed>>
    BY <1>15, PageMounted DEF DeletedAtApi
  <2>2. NoneAsked.remove \in [target : Teams \cup TaskOrNone, selected : BOOLEAN]
    BY DEF NoneAsked
  <2>3. /\ template' \in [Teams -> TeamOrNone] /\ owner' \in [TeamTasks -> TeamOrNone]
        /\ \A x \in Teams : template'[x] \in {template[x], Nothing}
    BY <1>15 DEF DeletedAtApi
  <2>4. CASE asked.remove.selected
    <3>1. /\ selected' = [team |-> Nothing, task |-> Nothing]
          /\ shown' = [shown EXCEPT !.team = Nothing, !.task = Nothing]
          /\ asked' = [asked EXCEPT !.remove = NoneAsked.remove, !.again = TRUE, !.load = Nothing]
      BY <1>15, <2>4 DEF DeletedAtApi
    <3> QED
      BY <2>1, <2>2, <2>3, <3>1
  <2>5. CASE ~asked.remove.selected
    <3>1. /\ UNCHANGED <<selected, shown>>
          /\ asked' = [asked EXCEPT !.remove = NoneAsked.remove, !.again = TRUE]
      BY <1>15, <2>5 DEF DeletedAtApi
    <3> QED
      BY <2>1, <2>2, <2>3, <3>1
  <2> QED
    BY <2>4, <2>5
<1>16. CASE DeleteFails
  <2>1. NoneAsked.remove \in [target : Teams \cup TaskOrNone, selected : BOOLEAN]
    BY DEF NoneAsked
  <2> QED
    BY <1>16, <2>1, PageMounted DEF DeleteFails
<1>17. ASSUME NEW x \in Teams, SelectAgent(x) PROVE TeamInv'
  BY <1>17 DEF SelectAgent, Select
<1>18. ASSUME NEW x \in Teams, Created(x) PROVE TeamInv'
  BY ZenonT(60), <1>18, PageMounted DEF Created, Select
<1>19. ASSUME NEW x \in Teams, RunAgent(x) PROVE TeamInv'
  <2>1. crossed' \in BOOLEAN /\ (~crossed' => ~crossed /\ shown.team \in {x, Nothing})
    BY <1>19 DEF RunAgent
  <2>2. /\ shown.mounted = TRUE /\ selected' = [selected EXCEPT !.team = x]
        /\ shown' = [shown EXCEPT !.dialog = TRUE] /\ UNCHANGED <<template, owner, copies, asked, ran>>
    BY <1>19 DEF RunAgent
  <2>3. TeamTyped'
    <3>1. selected' \in [team : TeamOrNone, task : TaskOrNone]
      BY <1>19, <2>2
    <3>2. /\ shown' \in [mounted : BOOLEAN, team : TeamOrNone, task : TaskOrNone, dialog : BOOLEAN]
          /\ shown'.mounted = TRUE
      BY <2>2
    <3> QED
      BY <2>1, <2>2, <3>1, <3>2
  <2>4. ~crossed' => TemplatesOwn'
    BY <2>1, <2>2
  <2> QED
    BY <2>3, <2>4
<1>20. ASSUME NEW x \in Teams \cup TeamTasks, ConfirmDeleteOf(x) PROVE TeamInv'
  <2>1. shown.mounted = TRUE /\ UNCHANGED <<template, owner, copies, ran, crossed>>
    BY <1>20 DEF ConfirmDeleteOf
  <2> DEFINE now == selected.team = x
             leaves == x \in TeamTasks /\ selected.task = x
             remove == [target |-> x, selected |-> now]
  <2>2. /\ selected' = [selected EXCEPT !.task = IF leaves THEN Nothing ELSE @]
        /\ shown' = [shown EXCEPT !.task = IF leaves THEN Nothing ELSE @]
        /\ asked' = [asked EXCEPT !.remove = remove, !.load = IF leaves THEN Nothing ELSE @]
    BY <1>20 DEF ConfirmDeleteOf
  <2>3. remove \in [target : Teams \cup TaskOrNone, selected : BOOLEAN]
    BY <1>20
  <2> HIDE DEF remove, leaves
  <2> QED
    BY ZenonT(60), <2>1, <2>2, <2>3
<1>21. ASSUME NEW k \in TeamTasks, SelectTask(k) PROVE TeamInv'
  BY <1>21 DEF SelectTask
<1>22. ASSUME NEW k \in TeamTasks, TaskCreated(k) PROVE TeamInv'
  BY ZenonT(60), <1>22, PageMounted DEF TaskCreated
<1>23. ASSUME NEW k \in TeamTasks, RunUpdated(k) \/ RunEnded(k) PROVE TeamInv'
  BY ZenonT(60), <1>23 DEF RunUpdated, RunEnded, ApplySnapshot
<1> QED
  BY <1>1, <1>2, <1>3, <1>4, <1>5, <1>6, <1>7, <1>8, <1>9, <1>10, <1>11, <1>12, <1>13, <1>14,
     <1>15, <1>16, <1>17, <1>18, <1>19, <1>20, <1>21, <1>22, <1>23 DEF TeamNext

LEMMA TeamInvSafe == TeamInv => TeamTypeOK /\ EditsSelected
  BY DEF TeamInv, TeamTyped, TemplatesOwn, TeamTypeOK, EditsSelected, TeamOrNone, TaskOrNone

-----------------------------------------------------------------------------
(* The voices *)

FormRecords == [shown : BOOLEAN, space : Spaces, saved : Spaces, key : BOOLEAN, typed : BOOLEAN,
                save : [space : Spaces \cup {Absent}, done : BOOLEAN]]

\* What a list of voices consists of; of its voices nothing is asked.
Shaped(vs) ==
    /\ DOMAIN vs = {"of", "listed", "failed", "loading", "timer", "refresh", "request"}
    /\ DOMAIN vs.request = {"on", "refresh", "read", "answer"}
    /\ vs.timer \in BOOLEAN /\ vs.request.on \in BOOLEAN

Observed(vs, f) == Deploying(vs, f) => vs.timer \/ vs.request.on \/ vs.failed

OpenStates == {"loading", "recording", "finishing"}

VoicesTyped ==
    /\ account \in [space : Spaces, key : BOOLEAN]
    /\ form \in FormRecords /\ (form.save.done => form.save.space \in Spaces)
    /\ Shaped(voices)
    /\ DOMAIN dialog = {"open", "language", "sample", "busy", "space", "created"}
    /\ recorder \in [state : {"idle", "asking"} \cup OpenStates, units : 0 .. 3]
    /\ microphones \in Nat /\ asking \in Nat

VoicesInv == VoicesTyped /\ Observed(voices, form) /\ SampleRecorded

LEMMA ArmObserves ==
    ASSUME NEW vs, Shaped(vs), NEW f
    PROVE  Shaped(Arm(vs, f)) /\ Observed(Arm(vs, f), f)
<1> DEFINE armed == Configured(f) /\ ~(vs.of = f.saved /\ vs.failed) /\ Deploying(vs, f)
           now == Arm(vs, f)
<1>1. armed \in BOOLEAN /\ now = [vs EXCEPT !.timer = armed]
  BY DEF Arm
<1>2. Deploying(vs, f) => Configured(f) /\ vs.of = f.saved
  BY DEF Deploying, Displayed
<1>3. armed <=> Deploying(vs, f) /\ ~vs.failed
  BY <1>2
<1> HIDE DEF armed, now
<1>4. /\ now.of = vs.of /\ now.listed = vs.listed /\ now.failed = vs.failed /\ now.timer = armed
      /\ now.loading = vs.loading /\ now.refresh = vs.refresh /\ now.request = vs.request
      /\ DOMAIN now = DOMAIN vs
  BY <1>1 DEF Shaped
<1>5. Deploying(now, f) <=> Deploying(vs, f)
  BY <1>4 DEF Deploying, Displayed
<1>6. Shaped(now)
  BY <1>1, <1>4 DEF Shaped
<1>7. Observed(now, f)
  BY <1>3, <1>4, <1>5 DEF Observed
<1> QED
  BY <1>6, <1>7 DEF now

LEMMA AskObserves ==
    ASSUME NEW vs, Shaped(vs), NEW refresh
    PROVE  Shaped(Ask(vs, refresh)) /\ \A f : Observed(Ask(vs, refresh), f)
<1> DEFINE now == Ask(vs, refresh)
           request == [NoListing EXCEPT !.on = TRUE, !.refresh = refresh]
<1>2. now = [vs EXCEPT !.refresh = refresh, !.request = request]
  BY DEF Ask
<1>1. DOMAIN NoListing = {"on", "refresh", "read", "answer"}
  BY DEF NoListing
<1>3. DOMAIN request = {"on", "refresh", "read", "answer"} /\ request.on = TRUE
  BY <1>1
<1> HIDE DEF now, request
<1>4. /\ now.request = request /\ now.timer = vs.timer
      /\ DOMAIN now = DOMAIN vs
  BY <1>2 DEF Shaped
<1>5. Shaped(now)
  BY <1>3, <1>4 DEF Shaped
<1>6. \A f : Observed(now, f)
  BY <1>3, <1>4 DEF Observed
<1> QED
  BY <1>5, <1>6 DEF now

LEMMA FollowObserves ==
    ASSUME VoicesInv, NEW f, Follow(f)
    PROVE  form' = f /\ Shaped(voices') /\ Observed(voices', f)
<1>1. form' = f
  BY DEF Follow
<1>2. CASE Configured(f) = Configured(form) /\ f.saved = form.saved
  <2>1. voices' = voices
    BY <1>2 DEF Follow
  <2>2. Deploying(voices, f) = Deploying(voices, form)
    BY <1>2 DEF Deploying, Displayed
  <2> QED
    BY <1>1, <2>1, <2>2 DEF VoicesInv, VoicesTyped, Observed
<1>3. CASE ~(Configured(f) = Configured(form) /\ f.saved = form.saved)
  <2> DEFINE vs == IF Configured(f) THEN Ask(voices, voices.refresh)
                   ELSE [voices EXCEPT !.request = NoListing]
  <2>1. voices' = Arm(vs, f)
    BY <1>3 DEF Follow
  <2>2. Shaped([voices EXCEPT !.request = NoListing])
    BY DEF VoicesInv, VoicesTyped, Shaped, NoListing
  <2>3. Shaped(vs)
    BY <2>2, AskObserves DEF VoicesInv, VoicesTyped
  <2> HIDE DEF vs
  <2> QED
    BY <1>1, <2>1, <2>3, ArmObserves
<1> QED
  BY <1>2, <1>3

\* The recorder that leaves has released its microphone.
LEMMA UnmountedReleases ==
    ASSUME VoicesInv, Unmounted
    PROVE  /\ recorder' = NoTake /\ recorder'.state = "idle" /\ microphones' = 0 /\ asking' \in Nat
           /\ recorder' \in [state : {"idle", "asking"} \cup OpenStates, units : 0 .. 3]
  BY DEF Unmounted, NoTake, VoicesInv, VoicesTyped, SampleRecorded, OpenStates

LEMMA NoDialogShape ==
    /\ DOMAIN NoDialog = {"open", "language", "sample", "busy", "space", "created"}
    /\ NoDialog.sample = Absent
  BY DEF NoDialog

LEMMA VoicesStarts == VoicesInit => VoicesInv
<1> SUFFICES ASSUME VoicesInit PROVE VoicesInv
  OBVIOUS
<1>1. form \in FormRecords /\ ~form.save.done /\ ~form.shown
  BY DEF VoicesInit, FormRecords, NotSaving
<1>2. Shaped(voices)
  BY DEF VoicesInit, Shaped, NoVoices, NoListing
<1>3. recorder \in [state : {"idle", "asking"} \cup OpenStates, units : 0 .. 3] /\ recorder.state = "idle"
  BY DEF VoicesInit, NoTake
<1>4. VoicesTyped
  BY <1>1, <1>2, <1>3, NoDialogShape DEF VoicesInit, VoicesTyped
<1>5. Observed(voices, form)
  BY <1>1 DEF Observed, Deploying, Displayed, Configured
<1>6. SampleRecorded
  BY <1>3, NoDialogShape DEF VoicesInit, SampleRecorded
<1> QED
  BY <1>4, <1>5, <1>6 DEF VoicesInv

\* Steps of the list alone.
LEMMA ListKept ==
    ASSUME VoicesInv, UNCHANGED <<account, form, dialog, recorder, microphones, asking>>,
           Shaped(voices'), Observed(voices', form)
    PROVE  VoicesInv'
  BY DEF VoicesInv, VoicesTyped, Observed, Deploying, Displayed, Configured, SampleRecorded

LEMMA VoicesListSteps ==
    ASSUME VoicesInv, VoicesRead \/ VoicesListed \/ VoicesFail \/ PollVoices \/ ClickRefresh
    PROVE  VoicesInv'
<1>0. Shaped(voices) /\ Observed(voices, form)
  BY DEF VoicesInv, VoicesTyped
<1>1. UNCHANGED <<account, form, dialog, recorder, microphones, asking>>
  BY DEF VoicesRead, VoicesListed, VoicesFail, PollVoices, ClickRefresh
<1>2. CASE VoicesRead
  <2>1. PICK answer : voices' = [voices EXCEPT !.request = [voices.request EXCEPT !.read = TRUE, !.answer = answer]]
    BY <1>0, <1>2 DEF VoicesRead, Shaped
  <2>2. /\ Shaped(voices') /\ voices'.of = voices.of /\ voices'.listed = voices.listed
        /\ voices'.timer = voices.timer /\ voices'.failed = voices.failed
        /\ voices'.request.on = voices.request.on
    BY <1>0, <2>1 DEF Shaped
  <2>3. Observed(voices', form)
    BY <1>0, <2>2 DEF Observed, Deploying, Displayed
  <2> QED
    BY <1>1, <2>2, <2>3, ListKept
<1>3. CASE VoicesListed
  <2> DEFINE vs == Answered([voices EXCEPT !.of = form.saved, !.failed = FALSE, !.listed = voices.request.answer])
  <2>1. voices' = Arm(vs, form)
    BY <1>3 DEF VoicesListed
  <2>2. Shaped(vs)
    BY <1>0 DEF Shaped, Answered, NoListing
  <2> HIDE DEF vs
  <2> QED
    BY <1>1, <2>1, <2>2, ArmObserves, ListKept
<1>4. CASE VoicesFail
  <2> DEFINE kept == IF voices.of = form.saved THEN voices.listed ELSE <<>>
             vs == Answered([voices EXCEPT !.of = form.saved, !.failed = TRUE, !.listed = kept])
  <2>1. voices' = Arm(vs, form)
    BY <1>4 DEF VoicesFail
  <2> HIDE DEF kept
  <2>2. Shaped(vs)
    BY <1>0 DEF Shaped, Answered, NoListing
  <2> HIDE DEF vs
  <2> QED
    BY <1>1, <2>1, <2>2, ArmObserves, ListKept
<1>5. CASE PollVoices
  <2>1. Shaped([voices EXCEPT !.timer = FALSE])
    BY <1>0 DEF Shaped
  <2> QED
    BY <1>1, <1>5, <2>1, AskObserves, ListKept DEF PollVoices
<1>6. CASE ClickRefresh
  <2>1. Shaped([voices EXCEPT !.loading = TRUE])
    BY <1>0 DEF Shaped
  <2>2. CASE Configured(form)
    BY <1>1, <1>6, <2>1, <2>2, AskObserves, ListKept DEF ClickRefresh
  <2>3. CASE ~Configured(form)
    <3>1. voices' = [voices EXCEPT !.loading = TRUE, !.refresh = TRUE]
      BY <1>6, <2>3 DEF ClickRefresh
    <3>2. Shaped(voices')
      BY <1>0, <3>1 DEF Shaped
    <3>3. Observed(voices', form)
      BY <2>3 DEF Observed, Deploying, Displayed
    <3> QED
      BY <1>1, <3>2, <3>3, ListKept
  <2> QED
    BY <2>2, <2>3
<1> QED
  BY <1>2, <1>3, <1>4, <1>5, <1>6

LEMMA VoicesFormSteps ==
    ASSUME VoicesInv,
           \/ OpenForm \/ LeaveForm \/ TypeKey \/ SaveSettings \/ SettingsPut \/ SettingsSaved
           \/ SaveRefused \/ \E s \in Spaces : EditSpace(s)
    PROVE  VoicesInv'
<1>0. /\ Shaped(voices) /\ Observed(voices, form) /\ form \in FormRecords
      /\ account.space \in Spaces /\ account.key \in BOOLEAN /\ account \in [space : Spaces, key : BOOLEAN]
      /\ (form.save.done => form.save.space \in Spaces)
  BY DEF VoicesInv, VoicesTyped
<1>1. UNCHANGED <<dialog, recorder, microphones, asking>>
  BY DEF OpenForm, LeaveForm, TypeKey, SaveSettings, SettingsPut, SettingsSaved, SaveRefused, EditSpace
<1>2. SUFFICES /\ account' \in [space : Spaces, key : BOOLEAN] /\ Shaped(voices')
               /\ form' \in FormRecords /\ (form'.save.done => form'.save.space \in Spaces)
               /\ Observed(voices', form')
  BY <1>1 DEF VoicesInv, VoicesTyped, SampleRecorded
<1>3. CASE OpenForm
  <2> DEFINE f == [form EXCEPT !.shown = TRUE, !.space = account.space, !.saved = account.space,
                               !.key = account.key, !.typed = FALSE]
  <2>1. /\ form' = f /\ account' = account
        /\ voices' = (IF Configured(f) THEN Ask(NoVoices(account.space), FALSE) ELSE NoVoices(account.space))
    BY <1>3 DEF OpenForm
  <2>2. f \in FormRecords /\ f.save = form.save
    BY <1>0 DEF FormRecords
  <2>3. Shaped(NoVoices(account.space))
    BY DEF Shaped, NoVoices, NoListing
  <2> HIDE DEF f
  <2>4. ~Configured(f) => Observed(NoVoices(account.space), f)
    BY DEF Observed, Deploying, Displayed
  <2> QED
    BY <1>0, <2>1, <2>2, <2>3, <2>4, AskObserves
<1>4. ASSUME NEW f, Follow(f), f \in FormRecords, f.save.done => f.save.space \in Spaces, account' = account
      PROVE  /\ account' \in [space : Spaces, key : BOOLEAN] /\ Shaped(voices')
             /\ form' \in FormRecords /\ (form'.save.done => form'.save.space \in Spaces)
             /\ Observed(voices', form')
  <2>1. form' = f /\ Shaped(voices') /\ Observed(voices', f)
    BY <1>4, FollowObserves
  <2> QED
    BY <1>0, <1>4, <2>1
<1>5. CASE LeaveForm
  <2>1. [form EXCEPT !.shown = FALSE] \in FormRecords /\ [form EXCEPT !.shown = FALSE].save = form.save
    BY <1>0 DEF FormRecords
  <2> QED
    BY <1>0, <1>4, <1>5, <2>1 DEF LeaveForm
<1>6. CASE TypeKey
  <2>1. [form EXCEPT !.typed = TRUE] \in FormRecords /\ [form EXCEPT !.typed = TRUE].save = form.save
    BY <1>0 DEF FormRecords
  <2> QED
    BY <1>0, <1>4, <1>6, <2>1 DEF TypeKey
<1>7. ASSUME NEW s \in Spaces, EditSpace(s)
      PROVE  /\ account' \in [space : Spaces, key : BOOLEAN] /\ Shaped(voices')
             /\ form' \in FormRecords /\ (form'.save.done => form'.save.space \in Spaces)
             /\ Observed(voices', form')
  <2>1. [form EXCEPT !.space = s] \in FormRecords /\ [form EXCEPT !.space = s].save = form.save
    BY <1>0 DEF FormRecords
  <2> QED
    BY <1>0, <1>4, <1>7, <2>1 DEF EditSpace
<1>8. CASE SettingsSaved
  <2> DEFINE f == [form EXCEPT !.saved = form.save.space, !.key = TRUE, !.typed = FALSE, !.save = NotSaving]
  <2>1. Follow(f) /\ account' = account /\ form.save.done
    BY <1>8 DEF SettingsSaved
  <2>2. NotSaving \in [space : Spaces \cup {Absent}, done : BOOLEAN] /\ NotSaving.done = FALSE
    BY DEF NotSaving
  <2>3. f \in FormRecords /\ f.save = NotSaving
    BY <1>0, <2>1, <2>2 DEF FormRecords
  <2> HIDE DEF f
  <2> QED
    BY <1>4, <2>1, <2>2, <2>3
<1>9. CASE SaveSettings \/ SettingsPut \/ SaveRefused
  <2>1. voices' = voices
    BY <1>9 DEF SaveSettings, SettingsPut, SaveRefused
  <2>2. \E save \in [space : Spaces \cup {Absent}, done : BOOLEAN] :
            form' = [form EXCEPT !.save = save] /\ (save.done => save.space \in Spaces)
    <3>1. CASE SaveSettings
      <4>1. form' = [form EXCEPT !.save = [form.save EXCEPT !.space = form.space]]
        BY <1>0, <3>1 DEF SaveSettings, FormRecords
      <4>2. /\ [form.save EXCEPT !.space = form.space] \in [space : Spaces \cup {Absent}, done : BOOLEAN]
            /\ [form.save EXCEPT !.space = form.space].space \in Spaces
        BY <1>0 DEF FormRecords
      <4> QED
        BY <4>1, <4>2
    <3>2. CASE SettingsPut
      <4>1. form' = [form EXCEPT !.save = [form.save EXCEPT !.done = TRUE]] /\ form.save.space # Absent
        BY <1>0, <3>2 DEF SettingsPut, FormRecords
      <4>2. /\ [form.save EXCEPT !.done = TRUE] \in [space : Spaces \cup {Absent}, done : BOOLEAN]
            /\ [form.save EXCEPT !.done = TRUE].space \in Spaces
        BY <1>0, <4>1 DEF FormRecords
      <4> QED
        BY <4>1, <4>2
    <3>3. CASE SaveRefused
      <4>1. NotSaving \in [space : Spaces \cup {Absent}, done : BOOLEAN] /\ NotSaving.done = FALSE
        BY DEF NotSaving
      <4> QED
        BY <3>3, <4>1 DEF SaveRefused
    <3> QED
      BY <1>9, <3>1, <3>2, <3>3
  <2>3. PICK save \in [space : Spaces \cup {Absent}, done : BOOLEAN] :
            form' = [form EXCEPT !.save = save] /\ (save.done => save.space \in Spaces)
    BY <2>2
  <2>4. /\ form' \in FormRecords /\ form'.save = save /\ form'.saved = form.saved
        /\ form'.shown = form.shown /\ form'.key = form.key /\ form'.space = form.space
    BY <1>0, <2>3 DEF FormRecords
  <2>5. Observed(voices', form')
    BY <1>0, <2>1, <2>4 DEF Observed, Deploying, Displayed, Configured
  <2>6. account' \in [space : Spaces, key : BOOLEAN]
    <3>1. CASE account' = account
      BY <1>0, <3>1
    <3>2. CASE SettingsPut
      <4>1. account' = [space |-> form.save.space, key |-> TRUE] /\ form.save.space \in Spaces
        BY <1>0, <3>2 DEF SettingsPut, FormRecords
      <4> QED
        BY <4>1
    <3> QED
      BY <1>9, <3>1, <3>2 DEF SaveSettings, SaveRefused
  <2> QED
    BY <1>0, <2>1, <2>3, <2>4, <2>5, <2>6
<1> QED
  BY <1>3, <1>5, <1>6, <1>7, <1>8, <1>9

LEMMA VoicesRecorderSteps ==
    ASSUME VoicesInv,
           \/ StartTake \/ MicrophoneGranted \/ TakeStarted \/ TakeFails \/ StopTake \/ GrantedLate
           \/ \E units \in 0 .. 1, final \in BOOLEAN : SampleFrame(units, final)
    PROVE  VoicesInv'
<1>0. /\ recorder \in [state : {"idle", "asking"} \cup OpenStates, units : 0 .. 3]
      /\ microphones \in Nat /\ asking \in Nat /\ SampleRecorded
      /\ DOMAIN dialog = {"open", "language", "sample", "busy", "space", "created"}
  BY DEF VoicesInv, VoicesTyped
<1>1. UNCHANGED <<account, form, voices>>
  BY DEF StartTake, MicrophoneGranted, TakeStarted, TakeFails, StopTake, GrantedLate, SampleFrame
<1>2. SUFFICES /\ recorder' \in [state : {"idle", "asking"} \cup OpenStates, units : 0 .. 3]
               /\ microphones' \in Nat /\ asking' \in Nat /\ SampleRecorded'
               /\ DOMAIN dialog' = DOMAIN dialog
  BY <1>1 DEF VoicesInv, VoicesTyped, Observed, Deploying, Displayed, Configured
<1> USE DEF SampleRecorded, OpenStates
<1>3. CASE StartTake
  BY <1>0, <1>3 DEF StartTake
<1>4. CASE MicrophoneGranted \/ TakeStarted \/ StopTake
  BY <1>0, <1>4 DEF MicrophoneGranted, TakeStarted, StopTake
<1>5. CASE TakeFails \/ GrantedLate
  BY <1>0, <1>5 DEF TakeFails, GrantedLate, NoTake
<1>6. ASSUME NEW units \in 0 .. 1, NEW final \in BOOLEAN, SampleFrame(units, final)
      PROVE  /\ recorder' \in [state : {"idle", "asking"} \cup OpenStates, units : 0 .. 3]
             /\ microphones' \in Nat /\ asking' \in Nat /\ SampleRecorded'
             /\ DOMAIN dialog' = DOMAIN dialog
  <2> DEFINE u == IF recorder.units + units > 3 THEN 3 ELSE recorder.units + units
             take == [recorder EXCEPT !.units = u]
  <2>1. u \in 0 .. 3
    BY <1>0
  <2>2. /\ recorder.state \in {"recording", "finishing"} /\ asking' = asking
        /\ \/ /\ recorder' = [take EXCEPT !.state = "idle"] /\ microphones' = microphones - 1
              /\ dialog' = [dialog EXCEPT !.sample = Sampled(take)]
           \/ recorder' = take /\ UNCHANGED <<microphones, dialog>>
    BY <1>6 DEF SampleFrame
  <2>3. Sampled(take) \in {dialog.language, Absent}
    BY DEF Sampled
  <2> HIDE DEF u
  <2>4. take \in [state : {"idle", "asking"} \cup OpenStates, units : 0 .. 3] /\ take.state = recorder.state
    BY <1>0, <2>1
  <2> HIDE DEF take
  <2> QED
    BY <1>0, <2>2, <2>3, <2>4
<1> QED
  BY <1>3, <1>4, <1>5, <1>6

LEMMA VoicesDialogSteps ==
    ASSUME VoicesInv,
           \/ OpenDialog \/ CancelCloning \/ SubmitVoice \/ VoiceCreated \/ CloneFails
           \/ \E language \in Languages : ChangeLanguage(language)
           \/ \E v \in VoiceIds : VoiceCloned(v)
    PROVE  VoicesInv'
<1> DEFINE Dialogs == DOMAIN dialog' = DOMAIN dialog
<1>0. /\ Shaped(voices) /\ SampleRecorded
      /\ DOMAIN dialog = {"open", "language", "sample", "busy", "space", "created"}
  BY DEF VoicesInv, VoicesTyped
<1>1. UNCHANGED <<account, form>>
  BY DEF OpenDialog, CancelCloning, SubmitVoice, VoiceCreated, CloneFails, ChangeLanguage, VoiceCloned
<1>2. ASSUME UNCHANGED <<voices, recorder, microphones, asking>>, Dialogs,
             dialog'.sample = Absent \/ (dialog'.sample = dialog.sample /\ dialog'.language = dialog.language)
      PROVE  VoicesInv'
  BY <1>1, <1>2 DEF VoicesInv, VoicesTyped, Observed, Deploying, Displayed, Configured, SampleRecorded
<1>3. CASE OpenDialog
  <2>1. PICK language \in Languages : dialog' = [NoDialog EXCEPT !.open = TRUE, !.language = language]
    BY <1>3 DEF OpenDialog
  <2>2. Dialogs /\ dialog'.sample = Absent
    BY <1>0, <2>1, NoDialogShape
  <2> QED
    BY <1>2, <1>3, <2>2 DEF OpenDialog
<1>4. CASE SubmitVoice \/ CloneFails \/ \E v \in VoiceIds : VoiceCloned(v)
  <2>1. /\ UNCHANGED <<voices, recorder, microphones, asking>>
        /\ Dialogs /\ dialog'.sample = dialog.sample /\ dialog'.language = dialog.language
    BY <1>0, <1>4 DEF SubmitVoice, CloneFails, VoiceCloned
  <2> QED
    BY <1>2, <2>1
<1>5. ASSUME Unmounted, Dialogs, dialog'.sample = Absent, Shaped(voices'), Observed(voices', form)
      PROVE  VoicesInv'
  BY <1>1, <1>5, UnmountedReleases
  DEF VoicesInv, VoicesTyped, Observed, Deploying, Displayed, Configured, SampleRecorded
<1>6. CASE CancelCloning
  BY <1>0, <1>5, <1>6, NoDialogShape DEF CancelCloning, VoicesInv
<1>7. ASSUME NEW language \in Languages, ChangeLanguage(language) PROVE VoicesInv'
  <2>1. dialog' = [dialog EXCEPT !.language = language, !.sample = Absent] /\ Unmounted /\ voices' = voices
    BY <1>7 DEF ChangeLanguage
  <2>2. Dialogs /\ dialog'.sample = Absent
    BY <1>0, <2>1
  <2> QED
    BY <1>0, <1>5, <2>1, <2>2 DEF VoicesInv
<1>8. CASE VoiceCreated
  <2> DEFINE more == Append(IF voices.of = dialog.space THEN voices.listed ELSE <<>>,
                            [id |-> dialog.created, status |-> "DEPLOYING"])
             vs == [voices EXCEPT !.of = dialog.space, !.failed = FALSE, !.listed = more]
  <2>1. voices' = Arm(vs, form) /\ dialog' = NoDialog /\ Unmounted
    BY <1>8 DEF VoiceCreated
  <2> HIDE DEF more
  <2>2. Shaped(vs)
    BY <1>0 DEF Shaped
  <2> HIDE DEF vs
  <2> QED
    BY <1>0, <1>5, <2>1, <2>2, ArmObserves, NoDialogShape
<1> QED
  BY <1>3, <1>4, <1>6, <1>7, <1>8

LEMMA VoicesKept == VoicesInv /\ [VoicesNext]_voiceVars => VoicesInv'
<1> SUFFICES ASSUME VoicesInv, [VoicesNext]_voiceVars PROVE VoicesInv'
  OBVIOUS
<1>1. CASE UNCHANGED voiceVars
  BY <1>1 DEF voiceVars, VoicesInv, VoicesTyped, Observed, Deploying, Displayed, Configured, SampleRecorded
<1>2. CASE VoicesNext
  BY <1>2, VoicesListSteps, VoicesFormSteps, VoicesRecorderSteps, VoicesDialogSteps DEF VoicesNext
<1> QED
  BY <1>1, <1>2

LEMMA VoicesInvSafe == VoicesInv => VoicesTypeOK /\ VoicesWatched /\ SampleRecorded
<1> SUFFICES ASSUME VoicesInv PROVE VoicesTypeOK /\ VoicesWatched
  BY DEF VoicesInv
<1>1. VoicesTypeOK
  BY DEF VoicesInv, VoicesTyped, VoicesTypeOK, Shaped, FormRecords, OpenStates
<1>2. VoicesWatched
  BY DEF VoicesInv, Observed, VoicesWatched
<1> QED
  BY <1>1, <1>2

-----------------------------------------------------------------------------
(* The tools of a thread *)

Loads == {Load(s) : s \in Servers}
CallStates == {"running", "read", "absent", "unknown"} \cup Final
CallRecords == [op : Operations, state : CallStates, tools : SUBSET Names]
CallLists == UNION {[1 .. n -> CallRecords] : n \in Nat}

\* The results of an operation, two at most: those that end with out.
Ending(out) == {<<out>>} \cup {<<a, out>> : a \in {"failed", "returned"}}
Histories == {<<>>} \cup Ending("failed") \cup Ending("returned")

CatalogTyped ==
    /\ host \in {"desktop", "phone"}
    /\ listed \in [Servers -> Listings]
    /\ threadTools \subseteq Names /\ given \subseteq Names
    /\ turn \in [phase : {"none", "model", "tools"}, stopped : BOOLEAN, defined : SUBSET Names,
                 offered : SUBSET Names, calls : CallLists, failed : [Operations -> 0 .. 2],
                 results : [Operations -> Histories]]

\* What the model was given is defined in the turn, and kept.
Remembered ==
    /\ given \subseteq threadTools
    /\ turn.phase # "none" => threadTools = turn.defined
    /\ turn.phase = "model" => turn.offered = turn.defined
    /\ turn.phase # "tools" => turn.calls = <<>>

\* A call has the tools it read, and a load that returned has them defined.
CallsKnown ==
    \A c \in DOMAIN turn.calls :
        /\ turn.calls[c].state # "unknown"
        /\ turn.calls[c].state \notin {"read", "returned"} => turn.calls[c].tools = {}
        /\ turn.calls[c].op \in Loads /\ turn.calls[c].state = "returned" =>
               turn.calls[c].tools \subseteq turn.defined

\* The failures counted of an operation are those it had last, and the calls of a
\* refused operation were all refused.
FailuresCounted ==
    /\ \A o \in Operations :
           /\ turn.failed[o] = 2 => turn.results[o] = <<"failed", "failed">>
           /\ turn.failed[o] = 1 => turn.results[o] \in Ending("failed")
    /\ \A c, d \in DOMAIN turn.calls :
           turn.calls[c].op = turn.calls[d].op /\ turn.calls[c].state = "refused" =>
               turn.calls[d].state = "refused" /\ turn.failed[turn.calls[d].op] = 2

CatalogInv == CatalogTyped /\ Remembered /\ CallsKnown /\ FailuresCounted

LEMMA AppendToOne ==
    ASSUME NEW S, NEW a \in S, NEW b \in S
    PROVE  Append(<<a>>, b) = <<a, b>>
<1>1. <<a>> \in Seq(S) /\ Len(<<a>>) = 1 /\ <<a>>[1] = a
  OBVIOUS
<1>2. /\ Append(<<a>>, b) \in Seq(S) /\ Len(Append(<<a>>, b)) = 2
      /\ Append(<<a>>, b)[1] = a /\ Append(<<a>>, b)[2] = b
  BY <1>1, AppendProperties
<1>3. <<a, b>> \in Seq(S) /\ Len(<<a, b>>) = 2 /\ <<a, b>>[1] = a /\ <<a, b>>[2] = b
  OBVIOUS
<1>4. \A i \in 1 .. Len(Append(<<a>>, b)) : Append(<<a>>, b)[i] = <<a, b>>[i]
  BY <1>2, <1>3
<1> QED
  BY <1>2, <1>3, <1>4, SeqEqual

LEMMA ToldEnds ==
    ASSUME CatalogTyped, NEW o \in Operations, NEW out \in {"failed", "returned"}
    PROVE  /\ Told(o, out) \in Ending(out) /\ Told(o, out) \in Histories
           /\ out = "failed" /\ turn.results[o] \in Ending("failed") =>
                  Told(o, out) = <<"failed", "failed">>
<1>1. turn.results[o] \in Histories
  BY DEF CatalogTyped
<1>2. CASE turn.results[o] = <<>>
  <2>1. Len(<<>>) = 0 /\ Append(<<>>, out) = <<out>>
    OBVIOUS
  <2>2. Told(o, out) = <<out>>
    BY <1>2, <2>1 DEF Told
  <2> QED
    BY <2>2, <1>2 DEF Ending, Histories
<1>3. CASE \E a \in {"failed", "returned"} : turn.results[o] = <<a>>
  <2>1. PICK a \in {"failed", "returned"} : turn.results[o] = <<a>>
    BY <1>3
  <2>2. Len(<<a>>) = 1 /\ Append(<<a>>, out) = <<a, out>>
    BY AppendToOne
  <2>3. Told(o, out) = <<a, out>>
    BY <2>1, <2>2 DEF Told
  <2> QED
    BY <2>1, <2>3 DEF Ending, Histories
<1>4. CASE \E a, b \in {"failed", "returned"} : turn.results[o] = <<a, b>>
  <2>1. PICK a, b \in {"failed", "returned"} : turn.results[o] = <<a, b>>
    BY <1>4
  <2>2. Told(o, out) = <<b, out>>
    BY <2>1 DEF Told
  <2> QED
    BY <2>1, <2>2 DEF Ending, Histories
<1> QED
  BY <1>1, <1>2, <1>3, <1>4 DEF Histories, Ending

LEMMA NoTurnTyped ==
    /\ NoTurn \in [phase : {"none", "model", "tools"}, stopped : BOOLEAN, defined : SUBSET Names,
                   offered : SUBSET Names, calls : CallLists, failed : [Operations -> 0 .. 2],
                   results : [Operations -> Histories]]
    /\ NoTurn.phase = "none" /\ NoTurn.calls = <<>>
    /\ \A o \in Operations : NoTurn.failed[o] = 0
<1>1. <<>> \in CallLists
  <2>1. <<>> \in [1 .. 0 -> CallRecords]
    OBVIOUS
  <2> QED
    BY <2>1 DEF CallLists
<1> QED
  BY <1>1 DEF NoTurn, Histories

LEMMA CatalogStarts == CatalogInit => CatalogInv
  BY NoTurnTyped DEF CatalogInit, CatalogInv, CatalogTyped, Remembered, CallsKnown, FailuresCounted

\* Between its turns a thread has no calls.
LEMMA TurnOver ==
    ASSUME CatalogInv, turn' = NoTurn, host' = host, listed' \in [Servers -> Listings],
           threadTools' \subseteq Names, given' \subseteq threadTools'
    PROVE  CatalogInv'
  BY NoTurnTyped DEF CatalogInv, CatalogTyped, Remembered, CallsKnown, FailuresCounted

LEMMA CatalogServerChanges ==
    ASSUME CatalogInv, NEW s \in Servers, NEW now \in Listings, ServerChanges(s, now)
    PROVE  CatalogInv'
<1>1. listed' \in [Servers -> Listings]
  BY DEF CatalogInv, CatalogTyped, ServerChanges
<1> QED
  BY <1>1 DEF CatalogInv, CatalogTyped, Remembered, CallsKnown, FailuresCounted, ServerChanges

LEMMA CatalogTurnBegins ==
    ASSUME CatalogInv, TurnBegins
    PROVE  CatalogInv'
<1>1. /\ turn'.phase = "model" /\ turn'.defined = threadTools /\ turn'.offered = threadTools
      /\ turn'.calls = <<>> /\ turn'.failed = NoTurn.failed
  BY NoTurnTyped DEF TurnBegins
<1>2. CatalogTyped'
  BY NoTurnTyped DEF CatalogInv, CatalogTyped, TurnBegins
<1>3. Remembered'
  BY <1>1 DEF CatalogInv, Remembered, TurnBegins
<1>4. CallsKnown' /\ FailuresCounted'
  BY <1>1, NoTurnTyped DEF CallsKnown, FailuresCounted
<1> QED
  BY <1>2, <1>3, <1>4 DEF CatalogInv

\* The outcomes of a batch: what is refused has failed twice, and what the request
\* offered the host knows.
LEMMA Outcomes ==
    ASSUME CatalogInv, turn.phase = "model", NEW o \in Operations
    PROVE  /\ Outcome(o) \in {"rejected", "refused", "running"}
           /\ Outcome(o) = "refused" => turn.failed[o] = 2
<1>1. turn.failed[o] \in 0 .. 2
  BY DEF CatalogInv, CatalogTyped
<1>2. ~Rejects(o) => Knows(o)
  BY DEF CatalogInv, Remembered, Rejects, Knows
<1>3. Refuses(o) => turn.failed[o] = 2
  BY <1>1 DEF Refuses
<1> QED
  BY <1>2, <1>3 DEF Outcome

LEMMA CatalogBatchAsked ==
    ASSUME CatalogInv, NEW batch \in Batches, BatchAsked(batch)
    PROVE  CatalogInv'
<1> DEFINE calls == [c \in DOMAIN batch |-> Call(batch[c], Outcome(batch[c]))]
<1>1. /\ turn' = [turn EXCEPT !.phase = "tools", !.calls = calls]
      /\ UNCHANGED <<host, listed, threadTools, given>> /\ turn.phase = "model"
  BY DEF BatchAsked
<1>2. PICK n \in 1 .. MaxBatch : batch \in [1 .. n -> Operations]
  BY DEF Batches
<1>3. \A c \in 1 .. n : /\ batch[c] \in Operations
                        /\ calls[c] = Call(batch[c], Outcome(batch[c]))
                        /\ calls[c] \in CallRecords
  BY <1>1, <1>2, Outcomes DEF Call, CallRecords, CallStates, Final
<1>4. n \in Nat /\ DOMAIN calls = 1 .. n /\ calls \in CallLists
  <2>1. n \in Nat /\ DOMAIN calls = 1 .. n
    BY <1>2
  <2>2. calls \in [1 .. n -> CallRecords]
    BY <2>1, <1>3, <1>2
  <2> QED
    BY <2>1, <2>2 DEF CallLists
<1> HIDE DEF calls
<1>5. CatalogTyped'
  BY <1>1, <1>4 DEF CatalogInv, CatalogTyped
<1>6. /\ turn'.calls = calls /\ turn'.failed = turn.failed /\ turn'.results = turn.results
      /\ turn'.phase = "tools" /\ turn'.defined = turn.defined
  BY <1>1 DEF CatalogInv, CatalogTyped
<1>7. Remembered'
  BY <1>1, <1>6 DEF CatalogInv, Remembered
<1>8. CallsKnown'
  BY <1>1, <1>3, <1>4, <1>6, Outcomes DEF CallsKnown, Call
<1>9. FailuresCounted'
  BY <1>1, <1>3, <1>4, <1>6, Outcomes DEF CatalogInv, FailuresCounted, Call
<1> QED
  BY <1>5, <1>7, <1>8, <1>9 DEF CatalogInv

\* A call that goes on keeps its operation, and the other calls are as they were.
LEMMA CallGoesOn ==
    ASSUME CatalogInv, NEW c, InProgress(c), NEW r \in CallRecords, r.op = turn.calls[c].op,
           turn'.calls = [turn.calls EXCEPT ![c] = r], r.state \notin {"unknown", "refused"},
           turn.defined \subseteq turn'.defined,
           r.state \notin {"read", "returned"} => r.tools = {},
           r.op \in Loads /\ r.state = "returned" => r.tools \subseteq turn'.defined
    PROVE  /\ turn'.calls \in CallLists /\ CallsKnown'
           /\ \A d \in DOMAIN turn'.calls :
                  turn'.calls[d].state = "refused" =>
                      d \in DOMAIN turn.calls /\ turn'.calls[d] = turn.calls[d] /\ r.op # turn.calls[d].op
           /\ \A d, e \in DOMAIN turn'.calls :
                  turn'.calls[d].op = turn'.calls[e].op /\ turn'.calls[d].state = "refused" =>
                      turn'.calls[e].state = "refused"
<1>1. c \in DOMAIN turn.calls /\ turn.calls[c].state # "refused"
  BY DEF InProgress, Settled, Final
<1>2. PICK n \in Nat : turn.calls \in [1 .. n -> CallRecords]
  BY DEF CatalogInv, CatalogTyped, CallLists
<1>3. turn'.calls \in [1 .. n -> CallRecords]
  BY <1>1, <1>2
<1>4. \A d \in DOMAIN turn.calls : turn'.calls[d] = IF d = c THEN r ELSE turn.calls[d]
  BY <1>1, <1>2
<1>5. DOMAIN turn'.calls = DOMAIN turn.calls
  BY <1>2, <1>3
<1>6. CallsKnown'
  BY <1>4, <1>5 DEF CatalogInv, CallsKnown
<1>7. \A d \in DOMAIN turn.calls : turn.calls[d].state = "refused" => turn.calls[d].op # turn.calls[c].op
  BY <1>1 DEF CatalogInv, FailuresCounted
<1>8. \A d, e \in DOMAIN turn.calls :
          turn.calls[d].op = turn.calls[e].op /\ turn.calls[d].state = "refused" => turn.calls[e].state = "refused"
  BY DEF CatalogInv, FailuresCounted
<1> QED
  BY <1>1, <1>3, <1>4, <1>5, <1>6, <1>7, <1>8 DEF CallLists

\* One that is not at its end yet changes nothing else.
LEMMA CallStands ==
    ASSUME CatalogInv, NEW c, InProgress(c), NEW r \in CallRecords, r.op = turn.calls[c].op,
           r.state \in {"read", "absent"}, r.state # "read" => r.tools = {},
           turn' = [turn EXCEPT !.calls = [@ EXCEPT ![c] = r]],
           UNCHANGED <<host, listed, threadTools, given>>
    PROVE  CatalogInv'
<1>1. /\ turn'.calls = [turn.calls EXCEPT ![c] = r] /\ turn'.failed = turn.failed
      /\ turn'.results = turn.results /\ turn'.defined = turn.defined
      /\ turn'.phase = turn.phase /\ turn'.offered = turn.offered
  BY DEF CatalogInv, CatalogTyped
<1>2. /\ turn'.calls \in CallLists /\ CallsKnown'
      /\ \A d \in DOMAIN turn'.calls :
             turn'.calls[d].state = "refused" =>
                 d \in DOMAIN turn.calls /\ turn'.calls[d] = turn.calls[d] /\ r.op # turn.calls[d].op
      /\ \A d, e \in DOMAIN turn'.calls :
             turn'.calls[d].op = turn'.calls[e].op /\ turn'.calls[d].state = "refused" =>
                 turn'.calls[e].state = "refused"
  BY <1>1, CallGoesOn
<1>3. CatalogTyped'
  BY <1>2 DEF CatalogInv, CatalogTyped
<1>4. Remembered'
  BY <1>1 DEF CatalogInv, Remembered, InProgress
<1>5. FailuresCounted'
  BY <1>1, <1>2 DEF CatalogInv, FailuresCounted
<1> QED
  BY <1>2, <1>3, <1>4, <1>5 DEF CatalogInv

LEMMA CatalogServersRead ==
    ASSUME CatalogInv, NEW c, ServersRead(c)
    PROVE  CatalogInv'
<1> DEFINE o == turn.calls[c].op
           s == o[2]
           r == IF listed[s].usable
                THEN [turn.calls[c] EXCEPT !.state = "read", !.tools = ToolsOf(s)]
                ELSE [turn.calls[c] EXCEPT !.state = "absent"]
<1>1. /\ InProgress(c) /\ turn.calls[c].state = "running" /\ o # BuiltIn
      /\ UNCHANGED <<host, listed, threadTools, given>>
  BY DEF ServersRead
<1>2. c \in DOMAIN turn.calls /\ turn.calls[c] \in CallRecords
  BY <1>1 DEF InProgress, CatalogInv, CatalogTyped, CallLists
<1>3. o \in Operations
  BY <1>2 DEF CallRecords
<1>4. s \in Servers
  BY <1>1, <1>3 DEF Operations, Load, Names
<1>5. ToolsOf(s) \subseteq Names
  BY <1>4 DEF CatalogInv, CatalogTyped, Listings, ToolsOf, Names
<1>6. turn' = [turn EXCEPT !.calls = [@ EXCEPT ![c] = r]]
  BY <1>2 DEF ServersRead, CatalogInv, CatalogTyped
<1>7. /\ r \in CallRecords /\ r.op = o /\ r.state \in {"read", "absent"}
      /\ r.state # "read" => r.tools = {}
  BY <1>1, <1>2, <1>5 DEF CallRecords, CallStates, CatalogInv, CallsKnown
<1> HIDE DEF r, s, o
<1>8. r.op = turn.calls[c].op
  BY <1>7 DEF o
<1> QED
  BY <1>1, <1>6, <1>7, <1>8, CallStands

\* A call ends with a result: the failures of its operation are counted anew, and
\* what it loaded is defined and kept.
LEMMA CallEnds ==
    ASSUME CatalogInv, NEW c, InProgress(c), NEW out \in {"failed", "returned"}, NEW r \in CallRecords,
           r.op = turn.calls[c].op, r.state = out, out = "failed" => r.tools = {},
           NEW n \in 0 .. 2, n # 0 => out = "failed",
           n = 2 => turn.failed[r.op] \in {1, 2},
           NEW D \in SUBSET Names, turn.defined \subseteq D,
           out = "returned" /\ r.op \in Loads => r.tools \subseteq D,
           turn' = [turn EXCEPT !.calls = [@ EXCEPT ![c] = r], !.failed = [@ EXCEPT ![r.op] = n],
                                !.results = [@ EXCEPT ![r.op] = Told(r.op, out)], !.defined = D],
           threadTools' = D, UNCHANGED <<host, listed, given>>
    PROVE  CatalogInv'
<1> DEFINE o == r.op
<1>1. o \in Operations
  BY DEF CallRecords
<1>2. /\ turn'.calls = [turn.calls EXCEPT ![c] = r]
      /\ turn'.failed = [turn.failed EXCEPT ![o] = n]
      /\ turn'.results = [turn.results EXCEPT ![o] = Told(o, out)]
      /\ turn'.defined = D /\ turn'.phase = turn.phase /\ turn'.offered = turn.offered
  BY DEF CatalogInv, CatalogTyped
<1>3. Told(o, out) \in Histories /\ Told(o, out) \in Ending(out)
  BY <1>1, ToldEnds DEF CatalogInv
<1>4. n = 2 => Told(o, out) = <<"failed", "failed">>
  <2>1. turn.failed[o] \in {1, 2} => turn.results[o] \in Ending("failed")
    BY <1>1 DEF CatalogInv, FailuresCounted, Ending
  <2> QED
    BY <2>1, <1>1, ToldEnds DEF CatalogInv
<1>5. turn.phase = "tools"
  BY DEF InProgress
<1> HIDE DEF o
<1>6. /\ \A d \in DOMAIN turn'.calls :
             turn'.calls[d].state = "refused" =>
                 /\ d \in DOMAIN turn.calls /\ turn'.calls[d] = turn.calls[d]
                 /\ turn.calls[d].op # o /\ turn.calls[d].op \in Operations
      /\ \A d, e \in DOMAIN turn'.calls :
             turn'.calls[d].op = turn'.calls[e].op /\ turn'.calls[d].state = "refused" =>
                 turn'.calls[e].state = "refused"
      /\ turn'.calls \in CallLists /\ CallsKnown'
  <2>1. \A d \in DOMAIN turn.calls : turn.calls[d].op \in Operations
    BY DEF CatalogInv, CatalogTyped, CallLists, CallRecords
  <2> QED
    BY <1>2, <2>1, CallGoesOn DEF o
<1>7. CatalogTyped'
  <2>1. turn'.failed \in [Operations -> 0 .. 2] /\ turn'.results \in [Operations -> Histories]
    BY <1>1, <1>2, <1>3 DEF CatalogInv, CatalogTyped
  <2> QED
    BY ZenonT(60), <1>6, <2>1 DEF CatalogInv, CatalogTyped
<1>8. Remembered'
  BY <1>2, <1>5 DEF CatalogInv, Remembered
<1>9. FailuresCounted'
  <2>1. \A x \in Operations :
            /\ turn'.failed[x] = IF x = o THEN n ELSE turn.failed[x]
            /\ turn'.results[x] = IF x = o THEN Told(o, out) ELSE turn.results[x]
    BY <1>2 DEF CatalogInv, CatalogTyped
  <2>2. \A x \in Operations :
            /\ turn'.failed[x] = 2 => turn'.results[x] = <<"failed", "failed">>
            /\ turn'.failed[x] = 1 => turn'.results[x] \in Ending("failed")
    BY <2>1, <1>3, <1>4 DEF CatalogInv, FailuresCounted
  <2>3. \A d \in DOMAIN turn'.calls :
            turn'.calls[d].state = "refused" => turn'.failed[turn'.calls[d].op] = 2
    BY SMTT(60), <2>1, <1>6 DEF CatalogInv, FailuresCounted
  <2> QED
    BY SMTT(60), <2>2, <2>3, <1>6 DEF FailuresCounted
<1> QED
  BY <1>6, <1>7, <1>8, <1>9 DEF CatalogInv

LEMMA CallTyped ==
    ASSUME CatalogInv, NEW c, InProgress(c)
    PROVE  /\ c \in DOMAIN turn.calls /\ turn.calls[c] \in CallRecords
           /\ turn.calls[c].op \in Operations /\ threadTools = turn.defined
           /\ turn.defined \in SUBSET Names
<1>1. c \in DOMAIN turn.calls /\ turn.calls[c] \in CallRecords
  BY DEF InProgress, CatalogInv, CatalogTyped, CallLists
<1>2. turn.phase = "tools"
  BY DEF InProgress
<1> QED
  BY <1>1, <1>2 DEF CallRecords, CatalogInv, CatalogTyped, Remembered

LEMMA CatalogOperationFails ==
    ASSUME CatalogInv, NEW c, OperationFails(c)
    PROVE  CatalogInv'
<1> DEFINE o == turn.calls[c].op
           r == Call(o, "failed")
           n == IF host = "desktop" THEN Counted(o) ELSE turn.failed[o]
<1>1. InProgress(c) /\ UNCHANGED <<host, listed, threadTools, given>>
  BY DEF OperationFails
<1>2. r \in CallRecords /\ r.op = turn.calls[c].op /\ r.state = "failed" /\ r.tools = {}
  BY <1>1, CallTyped DEF CallRecords, CallStates, Final, Call
<1>3. CASE host = "desktop"
  <2>1. n \in 0 .. 2 /\ (n = 2 => turn.failed[o] \in {1, 2})
    BY <1>1, <1>3, CallTyped DEF Counted, CatalogInv, CatalogTyped
  <2>2. turn' = [turn EXCEPT !.calls = [@ EXCEPT ![c] = r], !.failed = [@ EXCEPT ![r.op] = n],
                             !.results = [@ EXCEPT ![r.op] = Told(r.op, "failed")],
                             !.defined = turn.defined]
    BY <1>1, <1>2, <1>3, CallTyped DEF OperationFails, CatalogInv, CatalogTyped
  <2> HIDE DEF r, n
  <2> QED
    BY <1>1, <1>2, <2>1, <2>2, CallTyped, CallEnds
<1>4. CASE host # "desktop"
  <2>1. n \in 0 .. 2 /\ (n = 2 => turn.failed[o] \in {1, 2})
    BY <1>1, <1>4, CallTyped DEF CatalogInv, CatalogTyped
  <2>2. turn' = [turn EXCEPT !.calls = [@ EXCEPT ![c] = r], !.failed = [@ EXCEPT ![r.op] = n],
                             !.results = [@ EXCEPT ![r.op] = Told(r.op, "failed")],
                             !.defined = turn.defined]
    BY <1>1, <1>2, <1>4, CallTyped DEF OperationFails, CatalogInv, CatalogTyped
  <2> HIDE DEF r, n
  <2> QED
    BY <1>1, <1>2, <2>1, <2>2, CallTyped, CallEnds
<1> QED
  BY <1>3, <1>4

LEMMA CatalogOperationReturns ==
    ASSUME CatalogInv, NEW c, OperationReturns(c)
    PROVE  CatalogInv'
<1> DEFINE r == [turn.calls[c] EXCEPT !.state = "returned"]
           n == 0
<1>1. InProgress(c) /\ UNCHANGED <<host, listed, threadTools, given>>
  BY DEF OperationReturns
<1>2. /\ r \in CallRecords /\ r.op = turn.calls[c].op /\ r.state = "returned"
      /\ r.op \notin Loads
  <2>1. r \in CallRecords /\ r.op = turn.calls[c].op /\ r.state = "returned"
    BY <1>1, CallTyped DEF CallRecords, CallStates, Final
  <2>2. turn.calls[c].op = BuiltIn \/ turn.calls[c].op \in turn.calls[c].tools
    BY DEF OperationReturns
  <2>3. turn.calls[c].tools \subseteq Names
    BY <1>1, CallTyped DEF CallRecords
  <2>4. BuiltIn \notin Loads /\ \A x \in Names : x \notin Loads
    BY DEF BuiltIn, Loads, Load, Names
  <2> QED
    BY <2>1, <2>2, <2>3, <2>4
<1>3. turn' = [turn EXCEPT !.calls = [@ EXCEPT ![c] = r], !.failed = [@ EXCEPT ![r.op] = n],
                           !.results = [@ EXCEPT ![r.op] = Told(r.op, "returned")],
                           !.defined = turn.defined]
  BY <1>1, <1>2, CallTyped DEF OperationReturns, Returned, CatalogInv, CatalogTyped
<1> HIDE DEF r, n
<1>4. n \in 0 .. 2 /\ n = 0 /\ n # 2
  BY DEF n
<1>5. threadTools' = turn.defined /\ turn.defined \in SUBSET Names
  BY <1>1, CallTyped
<1> QED
  BY <1>1, <1>2, <1>3, <1>4, <1>5, CallEnds

LEMMA CatalogLoadReturns ==
    ASSUME CatalogInv, NEW c, LoadReturns(c)
    PROVE  CatalogInv'
<1> DEFINE r == [turn.calls[c] EXCEPT !.state = "returned"]
           D == Collected(turn.calls[c].tools)
           n == 0
<1>1. InProgress(c) /\ UNCHANGED <<host, listed, given>> /\ threadTools' = D
  BY DEF LoadReturns
<1>2. /\ r \in CallRecords /\ r.op = turn.calls[c].op /\ r.state = "returned"
      /\ r.tools = turn.calls[c].tools /\ r.tools \subseteq Names
  BY <1>1, CallTyped DEF CallRecords, CallStates, Final
<1>3. D \in SUBSET Names /\ turn.defined \subseteq D /\ r.tools \subseteq D
  BY <1>1, <1>2, CallTyped DEF Collected
<1>4. turn' = [turn EXCEPT !.calls = [@ EXCEPT ![c] = r], !.failed = [@ EXCEPT ![r.op] = n],
                           !.results = [@ EXCEPT ![r.op] = Told(r.op, "returned")],
                           !.defined = D]
  BY <1>1, <1>2, CallTyped DEF LoadReturns, Returned, CatalogInv, CatalogTyped
<1> HIDE DEF r, D, n
<1>5. n \in 0 .. 2 /\ n = 0 /\ n # 2
  BY DEF n
<1> QED
  BY <1>1, <1>2, <1>3, <1>4, <1>5, CallEnds

LEMMA CatalogResumes ==
    ASSUME CatalogInv, Resumes
    PROVE  CatalogInv'
<1>1. /\ turn.phase = "tools" /\ \A c \in DOMAIN turn.calls : turn.calls[c].state \in Final
      /\ UNCHANGED <<host, listed, threadTools>> /\ given' = given \cup Gained
  BY DEF Resumes, AllSettled, Settled
<1>2. /\ turn' = [turn EXCEPT !.phase = "model", !.offered = turn.defined, !.calls = <<>>]
      /\ <<>> \in CallLists
  BY NoTurnTyped DEF Resumes, Offered, NoTurn
<1>3. /\ turn'.calls = <<>> /\ turn'.failed = turn.failed /\ turn'.results = turn.results
      /\ turn'.defined = turn.defined /\ turn'.phase = "model" /\ turn'.offered = turn.defined
  BY <1>2 DEF CatalogInv, CatalogTyped
<1>4. Gained \subseteq threadTools
  <2>1. SUFFICES ASSUME NEW c \in DOMAIN turn.calls, turn.calls[c].op \in Loads
                 PROVE  turn.calls[c].tools \subseteq threadTools
    BY DEF Gained, Loads
  <2>2. turn.calls[c].state # "returned" => turn.calls[c].tools = {}
    BY <1>1 DEF CatalogInv, CallsKnown, Final
  <2> QED
    BY <1>1, <2>1, <2>2 DEF CatalogInv, CallsKnown, Remembered
<1>5. CatalogTyped'
  BY <1>1, <1>2, <1>4 DEF CatalogInv, CatalogTyped
<1>6. Remembered' /\ CallsKnown'
  BY <1>1, <1>3, <1>4 DEF CatalogInv, Remembered, CallsKnown
<1>7. FailuresCounted'
  BY <1>3 DEF CatalogInv, FailuresCounted
<1> QED
  BY <1>5, <1>6, <1>7 DEF CatalogInv

LEMMA CatalogKept == CatalogInv /\ [CatalogNext]_catalogVars => CatalogInv'
<1> SUFFICES ASSUME CatalogInv, [CatalogNext]_catalogVars PROVE CatalogInv'
  OBVIOUS
<1>1. CASE UNCHANGED catalogVars
  BY <1>1 DEF catalogVars, CatalogInv, CatalogTyped, Remembered, CallsKnown, FailuresCounted
<1>2. CASE \E s \in Servers, now \in Listings : ServerChanges(s, now)
  BY <1>2, CatalogServerChanges
<1>3. CASE TurnBegins
  BY <1>3, CatalogTurnBegins
<1>4. CASE \E batch \in Batches : BatchAsked(batch)
  BY <1>4, CatalogBatchAsked
<1>5. CASE \E c \in 1 .. MaxBatch :
               ServersRead(c) \/ OperationFails(c) \/ OperationReturns(c) \/ LoadReturns(c)
  BY <1>5, CatalogServersRead, CatalogOperationFails, CatalogOperationReturns, CatalogLoadReturns
<1>6. CASE Resumes
  BY <1>6, CatalogResumes
<1>7. CASE TurnEnds \/ HostRestarts
  BY <1>7, TurnOver DEF TurnEnds, HostRestarts, CatalogInv, CatalogTyped, Remembered
<1>8. CASE Stopped /\ host = "phone"
  BY <1>8, TurnOver DEF Stopped, CatalogInv, CatalogTyped, Remembered
<1>9. CASE Stopped /\ host # "phone"
  <2>1. /\ turn' = [turn EXCEPT !.stopped = TRUE]
        /\ UNCHANGED <<host, listed, threadTools, given>>
    BY <1>9 DEF Stopped
  <2>2. /\ turn'.calls = turn.calls /\ turn'.failed = turn.failed /\ turn'.results = turn.results
        /\ turn'.defined = turn.defined /\ turn'.phase = turn.phase /\ turn'.offered = turn.offered
    BY <2>1 DEF CatalogInv, CatalogTyped
  <2>3. CatalogTyped'
    BY <2>1 DEF CatalogInv, CatalogTyped
  <2> QED
    BY <2>1, <2>2, <2>3 DEF CatalogInv, Remembered, CallsKnown, FailuresCounted
<1> QED
  BY <1>1, <1>2, <1>3, <1>4, <1>5, <1>6, <1>7, <1>8, <1>9 DEF CatalogNext

LEMMA CatalogInvSafe == CatalogInv => CatalogTypeOK /\ CatalogAgrees
<1> SUFFICES ASSUME CatalogInv PROVE CatalogTypeOK /\ CatalogAgrees
  OBVIOUS
<1>1. CatalogTypeOK
  BY DEF CatalogInv, CatalogTyped, CatalogTypeOK
<1>2. LoadedStaysOffered
  BY DEF CatalogInv, Remembered, CallsKnown, LoadedStaysOffered
<1>3. RefusedAfterTwo
  BY DEF CatalogInv, CatalogTyped, CallLists, CallRecords, FailuresCounted, RefusedAfterTwo
<1> QED
  BY <1>1, <1>2, <1>3 DEF CatalogAgrees

-----------------------------------------------------------------------------
(* The pages together *)

\* One that is not in focus stays as it began.
PagesInv ==
    /\ focus = "session" => SessionInv
    /\ focus = "models" => ModelsInv
    /\ focus = "mcp" => McpInv
    /\ focus = "skills" => SkillsInv
    /\ focus = "team" => TeamInv
    /\ focus = "voices" => VoicesInv
    /\ focus = "tools" => CatalogInv

LEMMA PagesStart == Init => PagesInv
  BY SessionStarts, ModelsStarts, McpStarts, SkillsStarts, TeamStarts, VoicesStarts, CatalogStarts
  DEF Init, PagesInv

LEMMA PagesKept == PagesInv /\ [Next]_pagesVars => PagesInv'
<1> SUFFICES ASSUME PagesInv, [Next]_pagesVars PROVE PagesInv'
  OBVIOUS
<1>1. CASE Next
  <2>1. focus' = focus
    BY <1>1 DEF Next
  <2>2. CASE focus = "session"
    BY <1>1, <2>1, <2>2, SessionKept DEF Next, PagesInv
  <2>3. CASE focus = "models"
    BY <1>1, <2>1, <2>3, ModelsKept DEF Next, PagesInv
  <2>4. CASE focus = "mcp"
    BY <1>1, <2>1, <2>4, McpKept DEF Next, PagesInv
  <2>5. CASE focus = "skills"
    BY <1>1, <2>1, <2>5, SkillsKept DEF Next, PagesInv
  <2>6. CASE focus = "team"
    BY <1>1, <2>1, <2>6, TeamKept DEF Next, PagesInv
  <2>7. CASE focus = "voices"
    BY <1>1, <2>1, <2>7, VoicesKept DEF Next, PagesInv
  <2>8. CASE focus = "tools"
    BY <1>1, <2>1, <2>8, CatalogKept DEF Next, PagesInv
  <2> QED
    BY <2>1, <2>2, <2>3, <2>4, <2>5, <2>6, <2>7, <2>8 DEF PagesInv
<1>2. CASE UNCHANGED pagesVars
  <2>1. /\ focus' = focus /\ UNCHANGED sessionVars /\ UNCHANGED modelVars /\ UNCHANGED mcpVars
        /\ UNCHANGED skillVars /\ UNCHANGED teamVars /\ UNCHANGED voiceVars
        /\ UNCHANGED catalogVars
    BY <1>2 DEF pagesVars
  <2> QED
    BY <2>1, SessionKept, ModelsKept, McpKept, SkillsKept, TeamKept, VoicesKept, CatalogKept
    DEF PagesInv
<1> QED
  BY <1>1, <1>2

LEMMA PagesAlways == Spec => []PagesInv
<1>1. Init => PagesInv
  BY PagesStart
<1>2. PagesInv /\ [Next]_pagesVars => PagesInv'
  BY PagesKept
<1> QED
  BY <1>1, <1>2, PTL DEF Spec

\* THE SESSION: whoever signs in, out or is refreshed away, on the desktop or the
\* phone, the pages at rest show the user whose tokens are held, and no tokens are
\* held that no page shows (AuthProvider.tsx, auth-session.ts): for any accounts.
THEOREM ShownUser == Spec => []SessionSafe
<1>1. PagesInv => SessionSafe
  BY SessionInvSafe DEF PagesInv, SessionSafe
<1> QED
  BY <1>1, PagesAlways, PTL

\* THE SETTINGS: an open chat page offers the models saved last, whenever its
\* question and the announcement of a save cross; a mapped MCP client is up and the
\* page shows the last test; the directory of a skill is of one archive; a voice
\* that is being deployed is watched, a sample has the one microphone
\* (ModelPicker.tsx, mcp-manager.ts, skill-manager.ts, useCustomVoices.ts): for any
\* number of models, clients, jobs, tasks, files and voices.
THEOREM SettingsAgree == Spec => []SettingsSafe
<1>1. PagesInv => SettingsSafe
  BY ModelsInvSafe, McpInvSafe, SkillsInvSafe, VoicesInvSafe DEF PagesInv, SettingsSafe
<1> QED
  BY <1>1, PagesAlways, PTL

\* THE TEAM PAGE: what the page edits is the template of the collaboration that is
\* selected, whatever answers come late (useCollaborationWorkspace.ts): for any
\* teams and tasks.
THEOREM TeamEdits == Spec => []TeamPageSafe
<1>1. PagesInv => TeamPageSafe
  BY TeamInvSafe DEF PagesInv, TeamPageSafe
<1> QED
  BY <1>1, PagesAlways, PTL

\* THE TOOLS: what a thread has loaded it goes on offering, and a call is refused
\* only after two failures in a row (capability-plugins.ts,
\* desktop-tool-registry.ts): for any servers, tools and numbers of calls.
THEOREM ToolsOffered == Spec => []ToolsSafe
<1>1. PagesInv => ToolsSafe
  BY CatalogInvSafe DEF PagesInv, ToolsSafe
<1> QED
  BY <1>1, PagesAlways, PTL

=============================================================================
