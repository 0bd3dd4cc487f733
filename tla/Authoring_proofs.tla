--------------------------- MODULE Authoring_proofs ---------------------------
(***************************************************************************)
(* Proofs about TestAuthoring, for any cases, drafts, jobs and people, and *)
(* about WorkflowEditor, for any workflows and edits.                      *)
(*                                                                         *)
(* TestAuthoring:                                                          *)
(* The revision of a save is compared before the number of the version is  *)
(* computed, and the INSERT comes later still.  What makes the comparison  *)
(* hold at the INSERT is the UNIQUE constraint: numbers have no gaps in a  *)
(* case whose versions were never deleted, so that whoever came between    *)
(* has taken the number.                                                   *)
(***************************************************************************)
EXTENDS TestAuthoring, WorkflowEditor, SequenceTheorems, NaturalsInduction,
        FiniteSetTheorems, TLAPS

IsLast(v, c) == v \in versions[c] /\ \A w \in versions[c] : w.version <= v.version

\* The versions of a case have different numbers, one of which is the last,
\* and no gaps as long as nobody has begun to delete them.
Numbered(c) ==
  /\ \A v \in versions[c] : v.version <= saves /\ v.id <= saves
  /\ \A v, w \in versions[c] : v.version = w.version => v = w
  /\ versions[c] # {} => \E v \in versions[c] : IsLast(v, c)
  /\ wipes[c] = 0 =>
       \A v \in versions[c] : \A n \in 1..v.version :
         \E w \in versions[c] : w.version = n

\* Version n of the case is the row "id", or there was none yet.
Based(c, id, n) ==
  IF n = 0 THEN id = 0 ELSE \E v \in versions[c] : v.id = id /\ v.version = n

\* What an editor has in hand was, and still is, in the table.
InHand(e) ==
  LET d == edit[e] IN
  d.at \in {"editing", "found", "numbered"} =>
    /\ d.case \in used
    /\ d.base <= saves /\ d.revision <= saves /\ d.version <= saves + 1
    /\ d.at = "editing" => ~d.checked
    /\ d.at = "numbered" => d.version # 0
    /\ wipes[d.case] = 0 =>
         /\ (d.at = "editing" \/ (d.at = "found" /\ d.checked)) =>
              Based(d.case, d.base, d.revision)
         /\ (d.at = "numbered" /\ d.checked) => Based(d.case, d.base, d.version - 1)
         /\ d.at = "numbered" =>
              d.version = 1 \/ \E v \in versions[d.case] : v.version = d.version - 1

VersionInv == \A c \in Case : Numbered(c)
EditInv == \A e \in Editor : InHand(e)

\* Drafts and cases refer to each other, and a draft has one reviewer.
DraftInv ==
  /\ \A d \in Draft :
       IF status[d] \in Reviewed THEN caseOf[d] \in cases /\ born[caseOf[d]] = d
       ELSE caseOf[d] = Null
  /\ \A c \in Case : born[c] # Null =>
       c \in used /\ status[born[c]] \in Reviewed /\ caseOf[born[c]] = c
  /\ \A r \in Reviewer : review[r] # Null => status[review[r]] = "pending"
  /\ \A r, s \in Reviewer : review[r] # Null /\ review[r] = review[s] => r = s

JobInv == \A j \in Job : job[j] = "completed" => Written(j)

IInv == AuthoringTypeOK /\ VersionInv /\ EditInv /\ DraftInv /\ JobInv

-----------------------------------------------------------------------------
\* The row that ORDER BY version DESC LIMIT 1 finds.
LEMMA LatestIsLast ==
  ASSUME NEW c \in Case, Numbered(c)
  PROVE  IF versions[c] = {} THEN Latest(c) = [id |-> 0, version |-> 0, published |-> FALSE]
         ELSE IsLast(Latest(c), c)
<1>1. CASE versions[c] = {}
  BY <1>1 DEF Latest
<1>2. CASE versions[c] # {}
  BY <1>2 DEF Latest, Numbered, IsLast
<1>3. QED BY <1>1, <1>2

LEMMA RowType ==
  ASSUME AuthoringTypeOK, NEW c \in Case, NEW v \in versions[c]
  PROVE  /\ v \in Row /\ v.id \in 1..MaxSaves /\ v.version \in 1..MaxSaves
         /\ v.published \in BOOLEAN
         /\ c \in cases /\ c \in used
BY DEF AuthoringTypeOK, Row

LEMMA LatestType ==
  ASSUME AuthoringTypeOK, NEW c \in Case, Numbered(c)
  PROVE  /\ Latest(c).id \in 0..MaxSaves /\ Latest(c).version \in 0..MaxSaves
         /\ Latest(c).id <= saves /\ Latest(c).version <= saves
         /\ Based(c, Latest(c).id, Latest(c).version)
         /\ Latest(c).version # 0 => \E v \in versions[c] : v.version = Latest(c).version
<1> USE AuthoringBoundsAreNat
<1>1. CASE versions[c] = {}
  <2>1. Latest(c) = [id |-> 0, version |-> 0, published |-> FALSE]
    BY <1>1, LatestIsLast
  <2>2. QED BY <2>1 DEF Based, AuthoringTypeOK
<1>2. CASE versions[c] # {}
  <2>1. Latest(c) \in versions[c]
    BY <1>2, LatestIsLast DEF IsLast
  <2>2. QED BY <2>1, RowType DEF Based, Numbered
<1>3. QED BY <1>1, <1>2

\* An editor that does nothing has in hand what it had, while rows stay where
\* they are and cases of which rows are deleted are marked so.
LEMMA HandKept ==
  ASSUME AuthoringTypeOK, NEW e \in Editor, InHand(e), edit'[e] = edit[e],
         used \subseteq used', saves' \in Nat, saves <= saves',
         \A c \in used : wipes'[c] = 0 =>
           /\ wipes[c] = 0
           /\ \A v \in versions[c] : \E w \in versions'[c] : w.id = v.id /\ w.version = v.version
  PROVE  InHand(e)'
<1>1. SUFFICES ASSUME edit[e].at \in {"editing", "found", "numbered"}
               PROVE  InHand(e)'
  BY DEF InHand
<1> DEFINE d == edit[e]
<1>2. d.case \in used /\ d.base \in Nat /\ d.revision \in Nat /\ d.version \in Nat
      /\ saves \in Nat
  BY <1>1, AuthoringBoundsAreNat DEF InHand, AuthoringTypeOK, Hand
<1>3. ASSUME NEW id, NEW n, wipes'[d.case] = 0, Based(d.case, id, n)
      PROVE  Based(d.case, id, n)'
  BY <1>2, <1>3 DEF Based
<1>4. QED BY <1>1, <1>2, <1>3 DEF InHand

LEMMA NumberedKept ==
  ASSUME AuthoringTypeOK, NEW c \in Case, Numbered(c), versions'[c] = versions[c],
         saves' \in Nat, saves <= saves', wipes'[c] = 0 => wipes[c] = 0
  PROVE  Numbered(c)'
<1>1. \A v \in versions[c] : v.version \in Nat /\ v.id \in Nat
  BY RowType
<1>2. saves \in Nat
  BY AuthoringBoundsAreNat DEF AuthoringTypeOK
<1>3. QED BY <1>1, <1>2 DEF Numbered, IsLast

\* A row with a number that no version has, and whose predecessor one has.
LEMMA InsertKeeps ==
  ASSUME IInv, NEW c \in Case, NEW n \in 1..(saves + 1), saves < MaxSaves,
         \A v \in versions[c] : v.version # n,
         wipes[c] = 0 => n = 1 \/ \E v \in versions[c] : v.version = n - 1,
         versions' = [versions EXCEPT ![c] = @ \cup {NewRow(n)}],
         saves' = saves + 1, wipes' = wipes
  PROVE  /\ versions' \in [Case -> SUBSET Row] /\ saves' \in 0..MaxSaves
         /\ VersionInv'
         /\ NewRow(n) \in versions'[c]
         /\ \A b \in Case : versions[b] \subseteq versions'[b]
<1> USE AuthoringBoundsAreNat
<1>1. saves \in 0..MaxSaves /\ versions \in [Case -> SUBSET Row]
  BY DEF IInv, AuthoringTypeOK
<1> DEFINE row == NewRow(n)
<1>2. row \in Row /\ row.id = saves + 1 /\ row.version = n
  BY <1>1 DEF NewRow, Row
<1>3. versions'[c] = versions[c] \cup {row} /\ \A b \in Case \ {c} : versions'[b] = versions[b]
  BY <1>1
<1>4. versions' \in [Case -> SUBSET Row] /\ saves' \in 0..MaxSaves
  BY <1>1, <1>2
<1>5. ASSUME NEW b \in Case, b # c PROVE Numbered(b)'
  <2>1. versions'[b] = versions[b] /\ wipes'[b] = wipes[b] /\ saves' \in Nat /\ saves <= saves'
    BY <1>1, <1>3, <1>5
  <2>2. QED BY <2>1, NumberedKept DEF IInv, VersionInv
<1> HIDE DEF row
<1>6. Numbered(c)'
  <2>1. \A v \in versions[c] : /\ v.version \in 1..MaxSaves /\ v.id \in Nat
                               /\ v.version <= saves /\ v.id <= saves
    BY RowType DEF IInv, VersionInv, Numbered
  <2>2. \A v \in versions'[c] : v.version <= saves' /\ v.id <= saves'
    BY <1>1, <1>2, <1>3, <2>1
  <2>3. \A v, w \in versions'[c] : v.version = w.version => v = w
    BY <1>2, <1>3 DEF IInv, VersionInv, Numbered
  <2>4. \E v \in versions'[c] : IsLast(v, c)'
    <3>1. CASE versions[c] = {}
      BY <1>2, <1>3, <3>1 DEF IsLast
    <3>2. CASE versions[c] # {}
      <4>1. PICK v \in versions[c] : \A w \in versions[c] : w.version <= v.version
        BY <3>2 DEF IInv, VersionInv, Numbered, IsLast
      <4>2. CASE v.version < n
        <5>1. \A w \in versions'[c] : w.version <= row.version
          BY <1>2, <1>3, <2>1, <4>1, <4>2
        <5>2. QED BY <1>3, <5>1 DEF IsLast
      <4>3. CASE ~(v.version < n)
        <5>1. \A w \in versions'[c] : w.version <= v.version
          BY <1>2, <1>3, <2>1, <4>1, <4>3
        <5>2. QED BY <1>3, <5>1 DEF IsLast
      <4>4. QED BY <4>2, <4>3
    <3>3. QED BY <3>1, <3>2
  <2>5. ASSUME wipes'[c] = 0, NEW v \in versions'[c], NEW k \in 1..v.version
        PROVE  \E w \in versions'[c] : w.version = k
    <3>1. CASE v \in versions[c]
      BY <1>3, <2>5, <3>1 DEF IInv, VersionInv, Numbered
    <3>2. CASE v = row /\ k = n
      BY <1>2, <1>3, <3>2
    <3>3. CASE v = row /\ k # n
      <4>1. k \in 1..(n - 1) /\ n # 1
        BY <1>2, <2>5, <3>3
      <4>2. PICK u \in versions[c] : u.version = n - 1
        BY <2>5, <4>1
      <4>3. k \in 1..u.version
        BY <4>1, <4>2
      <4>4. PICK w \in versions[c] : w.version = k
        BY <2>5, <4>2, <4>3 DEF IInv, VersionInv, Numbered
      <4>5. QED BY <1>3, <4>4
    <3>4. QED BY <1>3, <3>1, <3>2, <3>3
  <2>6. QED BY <2>2, <2>3, <2>4, <2>5 DEF Numbered
<1>7. VersionInv'
  BY <1>5, <1>6 DEF VersionInv
<1>8. QED BY <1>3, <1>4, <1>7 DEF row

-----------------------------------------------------------------------------
\* What is decided about a draft stands, and what is not, is in one hand.
LEMMA DraftsKept ==
  ASSUME IInv, UNCHANGED <<status, caseOf, born, review>>, used \subseteq used',
         \A d \in Draft : caseOf[d] \in cases => caseOf[d] \in cases'
  PROVE  DraftInv' /\ caseOf' \in [Draft -> cases' \cup {Null}]
<1>1. DraftInv'
  BY DEF IInv, DraftInv
<1>2. \A d \in Draft : caseOf[d] \in cases' \cup {Null}
  BY DEF IInv, AuthoringTypeOK
<1>3. QED BY <1>1, <1>2 DEF IInv, AuthoringTypeOK

LEMMA JobsKept == ASSUME IInv, UNCHANGED <<job, status>> PROVE JobInv'
BY DEF IInv, JobInv, Written

\* Editing touches no draft, and no row of a version.
LEMMA EditKeeps ==
  ASSUME IInv, NEW e \in Editor, NEW d, edit' = [edit EXCEPT ![e] = d],
         UNCHANGED <<caseVars, draftVars, deleting>>,
         d \in Hand,
         InHand(e)'
  PROVE  IInv'
<1> USE DEF caseVars, draftVars
<1>1. AuthoringTypeOK'
  BY DEF IInv, AuthoringTypeOK
<1>2. saves \in Nat
  BY AuthoringBoundsAreNat DEF IInv, AuthoringTypeOK
<1>3. VersionInv'
  BY <1>2, NumberedKept DEF IInv, VersionInv
<1>4. EditInv'
  <2>1. ASSUME NEW f \in Editor, f # e PROVE InHand(f)'
    <3>1. edit'[f] = edit[f]
      BY <2>1 DEF IInv, AuthoringTypeOK
    <3>2. \A c \in used : \A v \in versions[c] : \E w \in versions[c] : w.id = v.id /\ w.version = v.version
      OBVIOUS
    <3>3. InHand(f)
      BY DEF IInv, EditInv
    <3>4. QED BY <1>2, <3>1, <3>2, <3>3, HandKept DEF IInv
  <2>2. QED BY <2>1 DEF EditInv
<1>5. DraftInv' /\ JobInv'
  BY DraftsKept, JobsKept
<1>6. QED BY <1>1, <1>3, <1>4, <1>5 DEF IInv

LEMMA IdleType == Idle \in Hand
BY AuthoringBoundsAreNat DEF Idle, Hand

LEMMA OpenKeeps ==
  ASSUME IInv, NEW e \in Editor, NEW c \in Case, Open(e, c)
  PROVE  IInv'
<1> DEFINE d == [Idle EXCEPT !.at = "editing", !.case = c,
                   !.base = Latest(c).id, !.revision = Latest(c).version]
<1>1. /\ Latest(c).id \in 0..MaxSaves /\ Latest(c).version \in 0..MaxSaves
      /\ Latest(c).id <= saves /\ Latest(c).version <= saves
      /\ Based(c, Latest(c).id, Latest(c).version)
  BY LatestType DEF IInv, VersionInv
<1>2. d \in Hand
  BY <1>1, IdleType DEF Idle, Hand
<1>3. /\ d.at = "editing" /\ d.case = c /\ d.base = Latest(c).id
      /\ d.revision = Latest(c).version /\ ~d.checked /\ d.version = 0
  BY DEF Idle
<1>4. /\ edit' = [edit EXCEPT ![e] = d] /\ UNCHANGED <<caseVars, draftVars, deleting>>
      /\ c \in used
  BY DEF Open, IInv, AuthoringTypeOK
<1> HIDE DEF d
<1>5. edit'[e] = d /\ saves \in Nat
  BY <1>4, AuthoringBoundsAreNat DEF IInv, AuthoringTypeOK
<1>6. InHand(e)'
  <2>1. Based(c, Latest(c).id, Latest(c).version)'
    BY <1>1, <1>4 DEF Based, Latest, caseVars
  <2>2. UNCHANGED Latest(c)
    BY <1>4 DEF Latest, caseVars
  <2>3. UNCHANGED <<saves, used, wipes>>
    BY <1>4 DEF caseVars
  <2>4. QED BY <1>1, <1>3, <1>4, <1>5, <2>1, <2>2, <2>3 DEF InHand
<1>7. QED BY <1>2, <1>4, <1>6, EditKeeps

LEMMA FindCaseKeeps ==
  ASSUME IInv, NEW e \in Editor, NEW checked \in BOOLEAN, FindCase(e, checked)
  PROVE  IInv'
<1> DEFINE d == IF edit[e].case \notin cases THEN Idle
                ELSE IF checked THEN [edit[e] EXCEPT !.at = "found", !.checked = TRUE]
                ELSE [edit[e] EXCEPT !.at = "found", !.base = 0, !.revision = 0]
<1>1. edit[e] \in Hand
  BY DEF IInv, AuthoringTypeOK
<1>2. edit' = [edit EXCEPT ![e] = d] /\ UNCHANGED <<caseVars, draftVars, deleting>>
      /\ edit[e].at = "editing"
  BY DEF FindCase
<1>3. d \in Hand
  <2>1. [edit[e] EXCEPT !.at = "found", !.checked = TRUE] \in Hand
    BY <1>1 DEF Hand
  <2>2. [edit[e] EXCEPT !.at = "found", !.base = 0, !.revision = 0] \in Hand
    <3>1. 0 \in 0..MaxSaves
      BY AuthoringBoundsAreNat
    <3>2. QED BY <1>1, <3>1 DEF Hand
  <2>3. QED BY <2>1, <2>2, IdleType
<1>4. edit'[e] = d
  BY <1>2 DEF IInv, AuthoringTypeOK
<1>5. UNCHANGED <<saves, used, wipes, versions>> /\ saves \in Nat
  BY <1>2, AuthoringBoundsAreNat DEF caseVars, IInv, AuthoringTypeOK
<1>6. InHand(e)
  BY DEF IInv, EditInv
<1>7. InHand(e)'
  <2>1. CASE edit[e].case \notin cases
    BY <1>4, <2>1 DEF InHand, Idle
  <2>2. CASE edit[e].case \in cases /\ checked
    <3>1. /\ d.at = "found" /\ d.case = edit[e].case /\ d.base = edit[e].base
          /\ d.revision = edit[e].revision /\ d.version = edit[e].version
      BY <1>1, <2>2 DEF Hand
    <3> HIDE DEF d
    <3>2. QED BY <1>2, <1>4, <1>5, <1>6, <3>1 DEF InHand, Based
  <2>3. CASE edit[e].case \in cases /\ ~checked
    <3>1. /\ d.at = "found" /\ d.case = edit[e].case /\ d.base = 0
          /\ d.revision = 0 /\ d.version = edit[e].version /\ ~d.checked
      BY <1>1, <1>2, <1>6, <2>3 DEF InHand, Hand
    <3> HIDE DEF d
    <3>2. QED BY <1>2, <1>4, <1>5, <1>6, <3>1 DEF InHand
  <2>4. QED BY <2>1, <2>2, <2>3
<1> HIDE DEF d
<1>8. QED BY <1>2, <1>3, <1>7, EditKeeps

LEMMA NumberDraftKeeps ==
  ASSUME IInv, NEW e \in Editor, NumberDraft(e)
  PROVE  IInv'
<1> DEFINE c == edit[e].case
           max == Latest(c).version
           n == max + 1
           r == [edit[e] EXCEPT !.at = "numbered", !.version = n, !.revision = 0]
           d == IF edit[e].checked /\ edit[e].revision # max THEN Idle ELSE r
<1>1. edit[e] \in Hand /\ InHand(e)
  BY DEF IInv, EditInv, AuthoringTypeOK
<1>2. edit' = [edit EXCEPT ![e] = d] /\ UNCHANGED <<caseVars, draftVars, deleting>>
      /\ edit[e].at = "found" /\ c \in used /\ c \in Case
  BY <1>1 DEF NumberDraft, InHand, IInv, AuthoringTypeOK
<1>3. /\ max \in 0..MaxSaves /\ max <= saves
      /\ max # 0 => \E v \in versions[c] : v.version = max
  BY <1>2, LatestType DEF IInv, VersionInv
<1>4. 0 \in 0..MaxSaves /\ n \in 0..(MaxSaves + 1) /\ saves \in Nat
  BY <1>3, AuthoringBoundsAreNat DEF IInv, AuthoringTypeOK
<1> HIDE DEF max, n
<1>5. r \in Hand
  BY <1>1, <1>4 DEF Hand
<1>6. d \in Hand
  BY <1>5, IdleType
<1>7. edit'[e] = d
  BY <1>2 DEF IInv, AuthoringTypeOK
<1>8. UNCHANGED <<saves, used, wipes, versions>>
  BY <1>2 DEF caseVars
<1>9. InHand(e)'
  <2>1. CASE edit[e].checked /\ edit[e].revision # max
    BY <1>7, <2>1 DEF InHand, Idle
  <2>2. CASE ~(edit[e].checked /\ edit[e].revision # max)
    <3>1. /\ d.at = "numbered" /\ d.case = c /\ d.base = edit[e].base /\ d.revision = 0
          /\ d.version = n /\ d.checked = edit[e].checked
      BY <1>1, <2>2 DEF Hand
    <3>2. n # 0 /\ n <= saves + 1 /\ n - 1 = max
      BY <1>3, <1>4 DEF n
    <3>3. n = 1 \/ \E v \in versions[c] : v.version = n - 1
      BY <1>3, <1>4, <3>2 DEF n
    <3>4. wipes[c] = 0 /\ edit[e].checked => Based(c, edit[e].base, n - 1)
      BY <1>1, <1>2, <2>2, <3>2 DEF InHand
    <3>5. edit[e].base <= saves
      BY <1>1, <1>2 DEF InHand
    <3> HIDE DEF d, c
    <3>6. ASSUME NEW b, NEW i, NEW k, Based(b, i, k) PROVE Based(b, i, k)'
      BY <1>8, <3>6 DEF Based
    <3>7. QED BY <1>2, <1>4, <1>7, <1>8, <3>1, <3>2, <3>3, <3>4, <3>5, <3>6 DEF InHand
  <2>3. QED BY <2>1, <2>2
<1> HIDE DEF d
<1>10. QED BY <1>2, <1>6, <1>9, EditKeeps

LEMMA InsertVersionKeeps ==
  ASSUME IInv, NEW e \in Editor, InsertVersion(e)
  PROVE  IInv'
<1> DEFINE c == edit[e].case
           n == edit[e].version
<1>1. edit[e] \in Hand /\ InHand(e) /\ edit[e].at = "numbered" /\ saves \in Nat
  BY AuthoringBoundsAreNat DEF IInv, EditInv, AuthoringTypeOK, InsertVersion
<1>2. /\ c \in used /\ c \in Case /\ n \in 1..(saves + 1)
      /\ wipes[c] = 0 => n = 1 \/ \E v \in versions[c] : v.version = n - 1
  BY <1>1 DEF InHand, Hand, IInv, AuthoringTypeOK
<1>3. edit' = [edit EXCEPT ![e] = Idle] /\ UNCHANGED <<cases, used, wipes, draftVars, deleting>>
  BY DEF InsertVersion
<1>4. UNCHANGED <<job, alive, status, caseOf, born, review>>
  BY <1>3 DEF draftVars
<1>5. InHand(e)'
  BY <1>3 DEF InHand, Idle, IInv, AuthoringTypeOK
<1>6. CASE Fits(c, n)
  <2>1. /\ versions' = [versions EXCEPT ![c] = @ \cup {NewRow(n)}] /\ saves' = saves + 1
        /\ c \in cases /\ \A v \in versions[c] : v.version # n
        /\ saves < MaxSaves
    BY <1>6 DEF InsertVersion, Fits
  <2> HIDE DEF c, n
  <2>2. /\ versions' \in [Case -> SUBSET Row] /\ saves' \in 0..MaxSaves
        /\ VersionInv'
        /\ \A b \in Case : versions[b] \subseteq versions'[b]
    BY <1>2, <1>3, <2>1, InsertKeeps
  <2>3. \A b \in Case : versions'[b] # {} => b \in cases
    BY <1>2, <2>1 DEF IInv, AuthoringTypeOK
  <2>4. AuthoringTypeOK'
    BY <1>3, <1>4, <2>2, <2>3, IdleType DEF IInv, AuthoringTypeOK
  <2>5. EditInv'
    <3>1. ASSUME NEW f \in Editor, f # e PROVE InHand(f)'
      <4>1. edit'[f] = edit[f] /\ InHand(f)
        BY <1>3, <3>1 DEF IInv, EditInv, AuthoringTypeOK
      <4>2. \A b \in used : \A v \in versions[b] : \E w \in versions'[b] : w.id = v.id /\ w.version = v.version
        BY <2>2 DEF IInv, AuthoringTypeOK
      <4>3. saves' \in Nat /\ saves <= saves'
        BY <1>1, <2>1
      <4>4. QED BY <1>3, <4>1, <4>2, <4>3, HandKept DEF IInv
    <3>2. QED BY <1>5, <3>1 DEF EditInv
  <2>6. QED BY <1>3, <1>4, <2>2, <2>4, <2>5, DraftsKept, JobsKept DEF IInv
<1>7. CASE ~Fits(c, n)
  <2>1. UNCHANGED <<versions, saves>>
    BY <1>7 DEF InsertVersion
  <2>2. QED BY <1>3, <1>5, <2>1, IdleType, EditKeeps DEF caseVars
<1>8. QED BY <1>6, <1>7

\* A publication changes neither the id nor the number of a row.
LEMMA PublishVersionKeeps ==
  ASSUME IInv, NEW c \in Case, NEW v \in versions[c], PublishVersion(c, v)
  PROVE  IInv'
<1> DEFINE p == [v EXCEPT !.published = TRUE]
<1>1. v \in Row /\ c \in cases /\ saves \in Nat
  BY RowType, AuthoringBoundsAreNat DEF IInv, AuthoringTypeOK
<1>2. p \in Row /\ p.id = v.id /\ p.version = v.version
  BY <1>1 DEF Row
<1>3. /\ versions' = [versions EXCEPT ![c] = (@ \ {v}) \cup {p}]
      /\ UNCHANGED <<cases, used, saves, wipes, edit, draftVars, deleting>>
  BY DEF PublishVersion
<1>4. UNCHANGED <<job, alive, status, caseOf, born, review>>
  BY <1>3 DEF draftVars
<1> HIDE DEF p
<1>5. /\ versions'[c] = (versions[c] \ {v}) \cup {p}
      /\ \A b \in Case \ {c} : versions'[b] = versions[b]
  BY <1>3 DEF IInv, AuthoringTypeOK
<1>6. AuthoringTypeOK'
  BY <1>1, <1>2, <1>3, <1>4, <1>5 DEF IInv, AuthoringTypeOK
<1>7. /\ \A w \in versions[c] : \E x \in versions'[c] : x.id = w.id /\ x.version = w.version
      /\ \A x \in versions'[c] : \E w \in versions[c] : x.id = w.id /\ x.version = w.version
  BY <1>2, <1>5
<1>8. VersionInv'
  <2>1. ASSUME NEW b \in Case, b # c PROVE Numbered(b)'
    BY <1>1, <1>3, <1>5, <2>1, NumberedKept DEF IInv, VersionInv
  <2>2. Numbered(c)
    BY DEF IInv, VersionInv
  <2>3. \A x \in versions'[c] : x.version <= saves' /\ x.id <= saves'
    BY <1>3, <1>7, <2>2 DEF Numbered
  <2>4. \A x, y \in versions'[c] : x.version = y.version => x = y
    BY <1>2, <1>5, <2>2 DEF Numbered
  <2>5. \E x \in versions'[c] : IsLast(x, c)'
    <3>1. PICK w \in versions[c] : IsLast(w, c)
      BY <2>2 DEF Numbered
    <3>2. PICK x \in versions'[c] : x.version = w.version
      BY <1>7
    <3>3. QED BY <1>7, <3>1, <3>2 DEF IsLast
  <2>6. wipes'[c] = 0 => \A x \in versions'[c] : \A n \in 1..x.version :
          \E y \in versions'[c] : y.version = n
    <3>1. SUFFICES ASSUME wipes'[c] = 0, NEW x \in versions'[c], NEW n \in 1..x.version
                   PROVE  \E y \in versions'[c] : y.version = n
      OBVIOUS
    <3>2. PICK w \in versions[c] : x.version = w.version
      BY <1>7
    <3>3. PICK z \in versions[c] : z.version = n
      BY <1>3, <2>2, <3>1, <3>2 DEF Numbered
    <3>4. QED BY <1>7, <3>3
  <2>7. Numbered(c)'
    BY <2>3, <2>4, <2>5, <2>6 DEF Numbered
  <2>8. QED BY <2>1, <2>7 DEF VersionInv
<1>9. EditInv'
  <2>1. ASSUME NEW f \in Editor PROVE InHand(f)'
    <3>1. edit'[f] = edit[f] /\ InHand(f)
      BY <1>3 DEF IInv, EditInv
    <3>2. \A b \in used : \A w \in versions[b] : \E x \in versions'[b] : x.id = w.id /\ x.version = w.version
      BY <1>5, <1>7 DEF IInv, AuthoringTypeOK
    <3>3. QED BY <1>1, <1>3, <3>1, <3>2, HandKept DEF IInv
  <2>2. QED BY <2>1 DEF EditInv
<1>10. QED BY <1>3, <1>4, <1>6, <1>8, <1>9, DraftsKept, JobsKept DEF IInv

\* Steps that change no version and no editor.
LEMMA VersionsStay ==
  ASSUME IInv, UNCHANGED <<versions, saves, wipes, edit>>, used \subseteq used'
  PROVE  VersionInv' /\ EditInv'
<1>1. saves \in Nat
  BY AuthoringBoundsAreNat DEF IInv, AuthoringTypeOK
<1>2. VersionInv'
  BY <1>1, NumberedKept DEF IInv, VersionInv
<1>3. ASSUME NEW e \in Editor PROVE InHand(e)'
  BY <1>1, HandKept DEF IInv, EditInv
<1>4. QED BY <1>2, <1>3 DEF EditInv

LEMMA CreateTestCaseKeeps ==
  ASSUME IInv, NEW c \in Case, CreateTestCase(c)
  PROVE  IInv'
<1> USE DEF CreateTestCase, draftVars
<1>1. AuthoringTypeOK'
  BY DEF IInv, AuthoringTypeOK
<1>2. VersionInv' /\ EditInv'
  BY VersionsStay
<1>3. DraftInv' /\ JobInv'
  BY DraftsKept, JobsKept
<1>4. QED BY <1>1, <1>2, <1>3 DEF IInv

\* The first statement of a deletion: the case is marked by wipes.
LEMMA DeleteVersionsKeeps ==
  ASSUME IInv, NEW x \in Deleter, NEW c \in Case, DeleteVersions(x, c)
  PROVE  IInv'
<1>1. /\ versions' = [versions EXCEPT ![c] = {}]
      /\ wipes' = [wipes EXCEPT ![c] = @ + 1] /\ wipes[c] < MaxWipes
      /\ deleting' = [deleting EXCEPT ![x] = c]
      /\ UNCHANGED <<cases, used, saves, edit, draftVars>>
  BY DEF DeleteVersions
<1>2. UNCHANGED <<job, alive, status, caseOf, born, review>>
  BY <1>1 DEF draftVars
<1>3. /\ versions'[c] = {} /\ wipes'[c] = wipes[c] + 1 /\ wipes'[c] \in 0..MaxWipes
      /\ wipes[c] \in Nat /\ saves \in Nat
      /\ \A b \in Case \ {c} : versions'[b] = versions[b] /\ wipes'[b] = wipes[b]
  BY <1>1, AuthoringBoundsAreNat DEF IInv, AuthoringTypeOK
<1>4. AuthoringTypeOK'
  BY <1>1, <1>2, <1>3 DEF IInv, AuthoringTypeOK
<1>5. VersionInv'
  <2>1. ASSUME NEW b \in Case, b # c PROVE Numbered(b)'
    BY <1>1, <1>3, <2>1, NumberedKept DEF IInv, VersionInv
  <2>2. Numbered(c)'
    BY <1>3 DEF Numbered
  <2>3. QED BY <2>1, <2>2 DEF VersionInv
<1>6. EditInv'
  <2>1. ASSUME NEW e \in Editor PROVE InHand(e)'
    <3>1. edit'[e] = edit[e] /\ InHand(e)
      BY <1>1 DEF IInv, EditInv
    <3>2. \A b \in used : wipes'[b] = 0 => wipes[b] = 0 /\ versions'[b] = versions[b]
      BY <1>3 DEF IInv, AuthoringTypeOK
    <3>3. QED BY <1>1, <1>3, <3>1, <3>2, HandKept DEF IInv
  <2>2. QED BY <2>1 DEF EditInv
<1>7. QED BY <1>1, <1>2, <1>4, <1>5, <1>6, DraftsKept, JobsKept DEF IInv

\* The second one is refused while a draft refers to the case.
LEMMA DeleteCaseKeeps ==
  ASSUME IInv, NEW x \in Deleter, DeleteCase(x)
  PROVE  IInv'
<1>1. /\ deleting[x] \in Case
      /\ deleting' = [deleting EXCEPT ![x] = Null]
      /\ UNCHANGED <<used, versions, saves, wipes, edit, draftVars>>
  BY DEF DeleteCase, IInv, AuthoringTypeOK
<1>2. UNCHANGED <<job, alive, status, caseOf, born, review>>
  BY <1>1 DEF draftVars
<1>3. VersionInv' /\ EditInv'
  BY <1>1, VersionsStay
<1>4. /\ cases' \subseteq cases
      /\ \A c \in Case : versions[c] # {} => c \in cases'
      /\ \A d \in Draft : caseOf[d] \in cases => caseOf[d] \in cases'
  BY <1>1 DEF DeleteCase, Referenced, IInv, AuthoringTypeOK
<1>5. DraftInv' /\ caseOf' \in [Draft -> cases' \cup {Null}] /\ JobInv'
  BY <1>1, <1>2, <1>4, DraftsKept, JobsKept
<1>6. AuthoringTypeOK'
  BY <1>1, <1>2, <1>4, <1>5 DEF IInv, AuthoringTypeOK
<1>7. QED BY <1>3, <1>5, <1>6 DEF IInv

-----------------------------------------------------------------------------
\* A job is completed when all its drafts are written, which then stay so.
LEMMA GenerationKeeps ==
  ASSUME IInv, NEW j \in Job,
         GenerateTests(j) \/ BeginGeneration(j) \/ CompleteGeneration(j) \/ EndGeneration(j)
  PROVE  IInv'
<1> USE DEF GenerateTests, BeginGeneration, CompleteGeneration, EndGeneration, caseVars
<1>1. AuthoringTypeOK'
  BY DEF IInv, AuthoringTypeOK
<1>2. VersionInv' /\ EditInv'
  BY VersionsStay
<1>3. DraftInv'
  BY DraftsKept
<1>4. JobInv'
  BY DEF IInv, AuthoringTypeOK, JobInv, Written
<1>5. QED BY <1>1, <1>2, <1>3, <1>4 DEF IInv

LEMMA InsertDraftKeeps ==
  ASSUME IInv, NEW d \in Draft, InsertDraft(d)
  PROVE  IInv'
<1>1. /\ status[d] = "absent" /\ status' = [status EXCEPT ![d] = "pending"]
      /\ UNCHANGED <<caseVars, edit, job, alive, caseOf, born, review, deleting>>
  BY DEF InsertDraft
<1> USE DEF caseVars
<1>2. AuthoringTypeOK'
  BY <1>1 DEF IInv, AuthoringTypeOK
<1>3. VersionInv' /\ EditInv'
  BY <1>1, VersionsStay
<1>4. DraftInv'
  BY <1>1 DEF IInv, AuthoringTypeOK, DraftInv, Reviewed
<1>5. JobInv'
  BY <1>1 DEF IInv, AuthoringTypeOK, JobInv, Written
<1>6. QED BY <1>2, <1>3, <1>4, <1>5 DEF IInv

LEMMA LockDraftKeeps ==
  ASSUME IInv, NEW r \in Reviewer, NEW d \in Draft, LockDraft(r, d)
  PROVE  IInv'
<1>1. /\ review[r] = Null /\ status[d] = "pending" /\ \A s \in Reviewer : review[s] # d
      /\ review' = [review EXCEPT ![r] = d]
      /\ UNCHANGED <<caseVars, edit, job, alive, status, caseOf, born, deleting>>
  BY DEF LockDraft
<1> USE DEF caseVars
<1>2. AuthoringTypeOK'
  BY <1>1 DEF IInv, AuthoringTypeOK
<1>3. VersionInv' /\ EditInv' /\ JobInv'
  BY <1>1, VersionsStay, JobsKept
<1>4. DraftInv'
  BY <1>1 DEF IInv, AuthoringTypeOK, DraftInv
<1>5. QED BY <1>2, <1>3, <1>4 DEF IInv

\* The case that is made is new, and the draft was in no other hand.
LEMMA AcceptDraftKeeps ==
  ASSUME IInv, NEW r \in Reviewer, NEW c \in Case, NEW verdict \in Reviewed,
         AcceptDraft(r, c, verdict)
  PROVE  IInv'
<1> DEFINE d == review[r]
<1>1. /\ d # Null /\ c \notin used /\ saves < MaxSaves
      /\ cases' = cases \cup {c} /\ used' = used \cup {c}
      /\ versions' = [versions EXCEPT ![c] = {NewRow(1)}] /\ saves' = saves + 1
      /\ status' = [status EXCEPT ![d] = verdict] /\ caseOf' = [caseOf EXCEPT ![d] = c]
      /\ born' = [born EXCEPT ![c] = d] /\ review' = [review EXCEPT ![r] = Null]
      /\ UNCHANGED <<wipes, edit, job, alive, deleting>>
  BY DEF AcceptDraft
<1>2. /\ d \in Draft /\ status[d] = "pending" /\ c \notin cases /\ versions[c] = {}
      /\ saves \in Nat
  BY <1>1, AuthoringBoundsAreNat DEF IInv, AuthoringTypeOK, DraftInv
<1>3. /\ versions' \in [Case -> SUBSET Row] /\ saves' \in 0..MaxSaves
      /\ VersionInv'
      /\ \A b \in Case : versions[b] \subseteq versions'[b]
  <2>1. versions' = [versions EXCEPT ![c] = @ \cup {NewRow(1)}] /\ 1 \in 1..(saves + 1)
    BY <1>1, <1>2 DEF IInv, AuthoringTypeOK
  <2>2. QED BY <1>1, <1>2, <2>1, InsertKeeps
<1>4. AuthoringTypeOK'
  <2>1. \A b \in Case : versions'[b] # {} => b \in cases'
    BY <1>1 DEF IInv, AuthoringTypeOK
  <2>2. status' \in [Draft -> {"absent", "pending", "accepted", "modified", "rejected"}]
    BY <1>1 DEF IInv, AuthoringTypeOK, Reviewed
  <2>3. caseOf' \in [Draft -> cases' \cup {Null}] /\ born' \in [Case -> Draft \cup {Null}]
        /\ review' \in [Reviewer -> Draft \cup {Null}]
    BY <1>1, <1>2 DEF IInv, AuthoringTypeOK
  <2>4. QED BY <1>1, <1>3, <2>1, <2>2, <2>3 DEF IInv, AuthoringTypeOK
<1>5. EditInv'
  <2>1. ASSUME NEW e \in Editor PROVE InHand(e)'
    <3>1. edit'[e] = edit[e] /\ InHand(e)
      BY <1>1 DEF IInv, EditInv
    <3>2. \A b \in used : \A v \in versions[b] : \E w \in versions'[b] : w.id = v.id /\ w.version = v.version
      BY <1>3 DEF IInv, AuthoringTypeOK
    <3>3. QED BY <1>1, <1>2, <3>1, <3>2, HandKept DEF IInv
  <2>2. QED BY <2>1 DEF EditInv
<1>6. DraftInv'
  <2>1. ASSUME NEW f \in Draft
        PROVE  IF status'[f] \in Reviewed THEN caseOf'[f] \in cases' /\ born'[caseOf'[f]] = f
               ELSE caseOf'[f] = Null
    <3>1. CASE f = d
      BY <1>1, <1>2, <3>1 DEF IInv, AuthoringTypeOK
    <3>2. CASE f # d
      BY <1>1, <1>2, <3>2 DEF IInv, AuthoringTypeOK, DraftInv
    <3>3. QED BY <3>1, <3>2
  <2>2. ASSUME NEW b \in Case, born'[b] # Null
        PROVE  b \in used' /\ status'[born'[b]] \in Reviewed /\ caseOf'[born'[b]] = b
    <3>1. CASE b = c
      BY <1>1, <1>2, <3>1 DEF IInv, AuthoringTypeOK
    <3>2. CASE b # c
      <4>1. born[b] # Null /\ born'[b] = born[b] /\ status[born[b]] \in Reviewed
            /\ caseOf[born[b]] = b /\ b \in used /\ born[b] \in Draft
        BY <1>1, <2>2, <3>2 DEF IInv, AuthoringTypeOK, DraftInv
      <4>2. born[b] # d
        BY <1>2, <4>1 DEF Reviewed
      <4>3. QED BY <1>1, <4>1, <4>2 DEF IInv, AuthoringTypeOK
    <3>3. QED BY <3>1, <3>2
  <2>3. ASSUME NEW s \in Reviewer, review'[s] # Null PROVE status'[review'[s]] = "pending"
    BY <1>1, <1>2, <2>3 DEF IInv, AuthoringTypeOK, DraftInv
  <2>4. \A s, t \in Reviewer : review'[s] # Null /\ review'[s] = review'[t] => s = t
    BY <1>1 DEF IInv, AuthoringTypeOK, DraftInv
  <2> HIDE DEF d
  <2>5. QED BY <2>1, <2>2, <2>3, <2>4 DEF DraftInv
<1>7. JobInv'
  BY <1>1, <1>2 DEF IInv, AuthoringTypeOK, JobInv, Written, Reviewed
<1>8. QED BY <1>3, <1>4, <1>5, <1>6, <1>7 DEF IInv

LEMMA RejectDraftKeeps ==
  ASSUME IInv, NEW r \in Reviewer, RejectDraft(r)
  PROVE  IInv'
<1>1. /\ review[r] # Null /\ status' = [status EXCEPT ![review[r]] = "rejected"]
      /\ review' = [review EXCEPT ![r] = Null]
      /\ UNCHANGED <<caseVars, edit, job, alive, caseOf, born, deleting>>
  BY DEF RejectDraft
<1> USE DEF caseVars
<1>2. review[r] \in Draft /\ status[review[r]] = "pending"
  BY <1>1 DEF IInv, AuthoringTypeOK, DraftInv
<1>3. AuthoringTypeOK'
  BY <1>1 DEF IInv, AuthoringTypeOK
<1>4. VersionInv' /\ EditInv'
  BY <1>1, VersionsStay
<1>5. DraftInv'
  BY <1>1, <1>2 DEF IInv, AuthoringTypeOK, DraftInv, Reviewed
<1>6. JobInv'
  BY <1>1, <1>2 DEF IInv, AuthoringTypeOK, JobInv, Written
<1>7. QED BY <1>3, <1>4, <1>5, <1>6 DEF IInv

LEMMA RollBackReviewKeeps ==
  ASSUME IInv, NEW r \in Reviewer, RollBackReview(r)
  PROVE  IInv'
<1> USE DEF RollBackReview, caseVars
<1>1. AuthoringTypeOK'
  BY DEF IInv, AuthoringTypeOK
<1>2. VersionInv' /\ EditInv' /\ JobInv'
  BY VersionsStay, JobsKept
<1>3. DraftInv'
  BY DEF IInv, AuthoringTypeOK, DraftInv
<1>4. QED BY <1>1, <1>2, <1>3 DEF IInv

-----------------------------------------------------------------------------
LEMMA InitInv ==
  ASSUME AuthoringInit
  PROVE  IInv
<1> USE DEF AuthoringInit
<1>1. Absent \in Hand /\ Absent.at = "absent" /\ Idle.at = "away"
  <2>1. Idle.at = "away"
    BY DEF Idle
  <2>2. QED BY <2>1, IdleType DEF Absent, Hand
<1>2. AuthoringTypeOK
  BY <1>1, IdleType, AuthoringBoundsAreNat DEF AuthoringTypeOK
<1>3. VersionInv
  BY DEF VersionInv, Numbered
<1>4. EditInv
  BY <1>1 DEF EditInv, InHand
<1>5. DraftInv /\ JobInv
  BY DEF DraftInv, JobInv, Reviewed
<1>6. QED BY <1>2, <1>3, <1>4, <1>5 DEF IInv

LEMMA NextInv ==
  ASSUME IInv, AuthoringNext
  PROVE  IInv'
<1>1. ASSUME NEW c \in Case, CaseStep(c) PROVE IInv'
  BY <1>1, CreateTestCaseKeeps, PublishVersionKeeps DEF CaseStep
<1>2. ASSUME NEW x \in Deleter, DeletionStep(x) PROVE IInv'
  BY <1>2, DeleteVersionsKeeps, DeleteCaseKeeps DEF DeletionStep
<1>3. ASSUME NEW e \in Editor, EditorStep(e) PROVE IInv'
  BY <1>3, OpenKeeps, FindCaseKeeps, NumberDraftKeeps, InsertVersionKeeps DEF EditorStep
<1>4. ASSUME NEW j \in Job, GenerationStep(j) PROVE IInv'
  BY <1>4, GenerationKeeps, InsertDraftKeeps DEF GenerationStep
<1>5. ASSUME NEW r \in Reviewer, ReviewStep(r) PROVE IInv'
  BY <1>5, LockDraftKeeps, AcceptDraftKeeps, RejectDraftKeeps, RollBackReviewKeeps
  DEF ReviewStep
<1>6. QED BY <1>1, <1>2, <1>3, <1>4, <1>5 DEF AuthoringNext

LEMMA StutterInv ==
  ASSUME IInv, UNCHANGED authoringVars
  PROVE  IInv'
<1> USE DEF authoringVars, caseVars, draftVars
<1>1. AuthoringTypeOK'
  BY DEF IInv, AuthoringTypeOK
<1>2. VersionInv' /\ EditInv' /\ DraftInv' /\ JobInv'
  BY VersionsStay, DraftsKept, JobsKept
<1>3. QED BY <1>1, <1>2 DEF IInv

\* The inductive invariant: versions without gaps, what editors have in hand,
\* drafts and cases that refer to each other (test-authoring.service.ts,
\* generation.service.ts).
THEOREM Invariance == AuthoringSpec => []IInv
<1>1. AuthoringInit => IInv
  BY InitInv
<1>2. IInv /\ [AuthoringNext]_authoringVars => IInv'
  BY NextInv, StutterInv
<1>3. QED BY <1>1, <1>2, PTL DEF AuthoringSpec

\* Types, and the foreign keys of versions and drafts.
THEOREM TypeCorrect == AuthoringSpec => []AuthoringTypeOK
<1>1. IInv => AuthoringTypeOK
  BY DEF IInv
<1>2. QED BY <1>1, Invariance, PTL

\* Only an INSERT that an editor is at draws an id and ends a save.
LEMMA SavesAreInserts ==
  ASSUME AuthoringNext
  PROVE  saves' = saves \/ edit' = edit \/ \E e \in Editor : InsertVersion(e)
<1> USE DEF caseVars
<1>1. ASSUME NEW c \in Case, CaseStep(c) PROVE saves' = saves
  BY <1>1 DEF CaseStep, CreateTestCase, PublishVersion
<1>2. ASSUME NEW x \in Deleter, DeletionStep(x) PROVE saves' = saves
  BY <1>2 DEF DeletionStep, DeleteVersions, DeleteCase
<1>3. ASSUME NEW e \in Editor, EditorStep(e) PROVE saves' = saves \/ InsertVersion(e)
  BY <1>3 DEF EditorStep, Open, FindCase, NumberDraft
<1>4. ASSUME NEW j \in Job, GenerationStep(j) PROVE saves' = saves
  BY <1>4 DEF GenerationStep, GenerateTests, BeginGeneration, InsertDraft,
              CompleteGeneration, EndGeneration
<1>5. ASSUME NEW r \in Reviewer, ReviewStep(r) PROVE edit' = edit
  BY <1>5 DEF ReviewStep, LockDraft, AcceptDraft, RejectDraft, RollBackReview
<1>6. QED BY <1>1, <1>2, <1>3, <1>4, <1>5 DEF AuthoringNext

\* The number that fits is the one after the last, and what the editor opened
\* is the row with the last number.
LEMMA InsertBuildsOnRead ==
  ASSUME IInv, NEW e \in Editor, edit[e].at = "numbered", edit[e].checked,
         wipes[edit[e].case] = 0, Fits(edit[e].case, edit[e].version)
  PROVE  Latest(edit[e].case).id = edit[e].base
<1> DEFINE c == edit[e].case
           n == edit[e].version
<1>1. /\ edit[e] \in Hand /\ c \in Case /\ n \in Nat /\ n # 0
      /\ Based(c, edit[e].base, n - 1) /\ Numbered(c)
      /\ \A v \in versions[c] : v.version # n
  BY DEF IInv, AuthoringTypeOK, EditInv, VersionInv, InHand, Hand, Fits
<1>2. \A v \in versions[c] : v.version \in Nat /\ v.version < n
  <2>1. SUFFICES ASSUME NEW v \in versions[c] PROVE v.version \in Nat /\ v.version < n
    OBVIOUS
  <2>2. v.version \in Nat
    BY <1>1, RowType DEF IInv
  <2>3. ASSUME n <= v.version PROVE FALSE
    <3>1. n \in 1..v.version
      BY <1>1, <2>2, <2>3
    <3>2. \E w \in versions[c] : w.version = n
      BY <1>1, <3>1 DEF Numbered
    <3>3. QED BY <1>1, <3>2
  <2>4. QED BY <1>1, <2>2, <2>3
<1>3. CASE n = 1
  <2>1. versions[c] = {}
    BY <1>1, <1>2, <1>3, RowType DEF IInv
  <2>2. Latest(c).id = 0
    BY <1>1, <2>1, LatestIsLast
  <2>3. QED BY <1>1, <1>3, <2>2 DEF Based
<1>4. CASE n # 1
  <2>1. PICK v \in versions[c] : v.id = edit[e].base /\ v.version = n - 1
    BY <1>1, <1>4 DEF Based
  <2>2. Latest(c) \in versions[c] /\ v.version <= Latest(c).version
    BY <1>1, <2>1, LatestIsLast DEF IsLast
  <2>3. Latest(c).version = v.version
    BY <1>1, <1>2, <2>1, <2>2
  <2>4. QED BY <1>1, <2>1, <2>2, <2>3 DEF Numbered
<1>5. QED BY <1>3, <1>4

\* A checked save is stored on the very version that its author opened, in a
\* case whose versions were never deleted (saveDraft, expectedRevision).
THEOREM EditBuildsOnReadAlways == AuthoringSpec => EditBuildsOnRead
<1> DEFINE Builds(e) ==
      (/\ edit[e].at = "numbered" /\ edit'[e].at = "away" /\ saves' > saves
       /\ edit[e].checked /\ wipes[edit[e].case] = 0)
      => Latest(edit[e].case).id = edit[e].base
<1>1. ASSUME IInv, AuthoringNext, NEW e \in Editor PROVE Builds(e)
  <2>1. SUFFICES ASSUME edit[e].at = "numbered", edit'[e].at = "away", saves' > saves,
                        edit[e].checked, wipes[edit[e].case] = 0
                 PROVE  Latest(edit[e].case).id = edit[e].base
    OBVIOUS
  <2>2. saves' # saves /\ edit' # edit
    BY <1>1, <2>1, AuthoringBoundsAreNat DEF IInv, AuthoringTypeOK
  <2>3. PICK f \in Editor : InsertVersion(f)
    BY <1>1, <2>2, SavesAreInserts
  <2>4. f = e
    BY <1>1, <2>1, <2>3 DEF InsertVersion, IInv, AuthoringTypeOK
  <2>5. Fits(edit[e].case, edit[e].version)
    BY <2>2, <2>3, <2>4 DEF InsertVersion
  <2>6. QED BY <1>1, <2>1, <2>5, InsertBuildsOnRead
<1>2. ASSUME IInv, [AuthoringNext]_authoringVars
      PROVE  [\A e \in Editor : Builds(e)]_authoringVars
  <2>1. CASE AuthoringNext
    BY <1>1, <1>2, <2>1
  <2>2. CASE UNCHANGED authoringVars
    BY <2>2
  <2>3. QED BY <1>2, <2>1, <2>2
<1>3. QED BY <1>2, Invariance, PTL DEF EditBuildsOnRead, AuthoringSpec

\* However many reviews race, a draft that is accepted becomes one test case,
\* which stays, any other none; a completed job has written all its drafts
\* (acceptDraft, runGeneration).
THEOREM DraftsAreAccountedForAlways == AuthoringSpec => []DraftsAreAccountedFor
<1>1. ASSUME IInv PROVE DraftsAreAccountedFor
  <2>1. ASSUME NEW d \in Draft
        PROVE  Cardinality({c \in cases : born[c] = d}) = IF status[d] \in Reviewed THEN 1 ELSE 0
    <3>1. \A c \in cases : born[c] = d => status[d] \in Reviewed /\ caseOf[d] = c
      BY <1>1, NullIsNoId DEF IInv, AuthoringTypeOK, DraftInv
    <3>2. CASE status[d] \in Reviewed
      <4>1. {c \in cases : born[c] = d} = {caseOf[d]}
        BY <1>1, <3>1, <3>2 DEF IInv, DraftInv
      <4>2. QED BY <3>2, <4>1, FS_Singleton
    <3>3. CASE status[d] \notin Reviewed
      <4>1. {c \in cases : born[c] = d} = {}
        BY <3>1, <3>3
      <4>2. QED BY <3>3, <4>1, FS_EmptySet
    <3>4. QED BY <3>2, <3>3
  <2>2. \A j \in Job : job[j] = "completed" =>
          \A d \in Draft : JobOf[d] = j => status[d] # "absent"
    BY <1>1 DEF IInv, JobInv, Written
  <2>3. QED BY <2>1, <2>2 DEF DraftsAreAccountedFor
<1>2. QED BY <1>1, Invariance, PTL

-----------------------------------------------------------------------------
(***************************************************************************)
(* WorkflowEditor.  A version is known by its id, and what the server holds *)
(* under an id only grows: its steps stay and it is never taken back from   *)
(* being published.  So it is enough that everything the store or a call    *)
(* says of an id was true once.                                             *)
(***************************************************************************)

\* A list of whatever it holds.
IsList(s) == s \in Seq(ToSet(s))

\* The server has a version with this id, with these steps, as it is described.
Has(id) == id[1] \in DOMAIN stored /\ id[2] \in DOMAIN stored[id[1]]
Knows(id, steps) == Has(id) /\ stored[id[1]][id[2]].steps = steps
IsTrue(v) == Knows(v.id, v.steps) /\ (v.plan => stored[v.id[1]][v.id[2]].plan)

IsVersion(v) ==
  /\ DOMAIN v = {"steps", "plan", "base", "shown"}
  /\ v.plan \in BOOLEAN

StoredInv ==
  /\ stored = [w \in DOMAIN stored |-> stored[w]]
  /\ \A w \in DOMAIN stored :
       IsList(stored[w]) /\ \A n \in DOMAIN stored[w] : IsVersion(stored[w][n])

IsStore(s) ==
  /\ DOMAIN s = {"open", "workflow", "active", "versions", "steps", "selected", "logs",
                 "run", "saving", "publishing", "running", "own"}
  /\ s.running \in BOOLEAN

StoreInv ==
  /\ IsStore(store)
  /\ store.open # None => store.open \in DOMAIN stored
  /\ IsList(store.versions) /\ \A n \in DOMAIN store.versions : IsTrue(store.versions[n])

IsCall(c) ==
  /\ DOMAIN c = {"kind", "of", "steps", "base", "shown", "publish", "served", "version",
                 "versions"}
  /\ c.served \in BOOLEAN

\* What a call says: it is about a workflow or version there is, and once it was
\* served its answer is true.
CallTrue(c) ==
  /\ IsCall(c)
  /\ c.kind = "open" =>
       /\ c.of \in DOMAIN stored
       /\ c.served => IsList(c.versions) /\ \A n \in DOMAIN c.versions : IsTrue(c.versions[n])
  /\ c.kind = "create" /\ c.served => c.of \in DOMAIN stored
  /\ c.kind = "save" =>
       /\ c.of \in DOMAIN stored
       /\ c.served => Knows(c.version, c.steps)
  /\ c.kind = "publish" => Knows(c.of, c.steps)
  /\ c.kind = "run" => Has(c.of) /\ stored[c.of[1]][c.of[2]].plan

CallsInv == IsList(calls) /\ \A i \in DOMAIN calls : CallTrue(calls[i])

\* One run is followed at a time, and the store says so.
IsRun(c) == c.kind \in {"run", "poll"}
RunInv ==
  \A i \in DOMAIN calls : IsRun(calls[i]) =>
    store.running /\ \A j \in DOMAIN calls : IsRun(calls[j]) => i = j

EditorInv == StoredInv /\ StoreInv /\ CallsInv /\ RunInv

\* Every version is still there with its steps, and is published if it was.
Grew ==
  \A w \in DOMAIN stored :
    /\ w \in DOMAIN stored'
    /\ \A n \in DOMAIN stored[w] :
         /\ n \in DOMAIN stored'[w]
         /\ stored'[w][n].steps = stored[w][n].steps
         /\ stored[w][n].plan => stored'[w][n].plan

-----------------------------------------------------------------------------
(* Lists. *)

LEMMA ListOf ==
  ASSUME NEW S, NEW s \in Seq(S)
  PROVE  IsList(s)
<1>1. s \in [1..Len(s) -> S] /\ DOMAIN s = 1..Len(s) /\ Len(s) \in Nat
  OBVIOUS
<1>2. s \in [1..Len(s) -> ToSet(s)]
  BY <1>1 DEF ToSet
<1>3. QED BY <1>1, <1>2 DEF IsList

LEMMA ListParts ==
  ASSUME NEW s, IsList(s)
  PROVE  Len(s) \in Nat /\ DOMAIN s = 1..Len(s) /\ s \in Seq(ToSet(s))
BY DEF IsList

LEMMA ListAppend ==
  ASSUME NEW s, IsList(s), NEW x
  PROVE  /\ IsList(Append(s, x))
         /\ DOMAIN Append(s, x) = 1..(Len(s) + 1)
         /\ \A i \in 1..Len(s) : Append(s, x)[i] = s[i]
         /\ Append(s, x)[Len(s) + 1] = x
<1> DEFINE S == ToSet(s) \cup {x}
<1>1. s \in Seq(ToSet(s))
  BY DEF IsList
<1> HIDE DEF S
<1>2. s \in Seq(S) /\ x \in S
  BY <1>1, SeqMonotonic DEF S
<1>3. /\ Append(s, x) \in Seq(S) /\ Len(Append(s, x)) = Len(s) + 1
      /\ \A i \in 1..Len(s) : Append(s, x)[i] = s[i]
      /\ Append(s, x)[Len(s) + 1] = x
  BY <1>2, AppendProperties
<1>4. DOMAIN Append(s, x) = 1..(Len(s) + 1)
  BY <1>3
<1>5. IsList(Append(s, x))
  BY <1>3, ListOf
<1>6. QED BY <1>3, <1>4, <1>5

LEMMA ListPrepend ==
  ASSUME NEW s, IsList(s), NEW x
  PROVE  /\ IsList(<<x>> \o s)
         /\ DOMAIN (<<x>> \o s) = 1..(Len(s) + 1)
         /\ (<<x>> \o s)[1] = x
         /\ \A i \in 2..(Len(s) + 1) : (<<x>> \o s)[i] = s[i - 1]
<1> DEFINE S == ToSet(s) \cup {x}
<1>1. s \in Seq(ToSet(s))
  BY DEF IsList
<1> HIDE DEF S
<1>2. s \in Seq(S) /\ x \in S
  BY <1>1, SeqMonotonic DEF S
<1>3. <<x>> \in Seq(S) /\ Len(<<x>>) = 1 /\ <<x>>[1] = x
  BY <1>2
<1>4. <<x>> \o s \in Seq(S) /\ Len(<<x>> \o s) = Len(s) + 1
  BY <1>2, <1>3
<1>5. DOMAIN (<<x>> \o s) = 1..(Len(s) + 1) /\ Len(s) \in Nat
  BY <1>2, <1>4
<1>6. (<<x>> \o s)[1] = x /\ \A i \in 2..(Len(s) + 1) : (<<x>> \o s)[i] = s[i - 1]
  BY <1>2, <1>3, <1>5
<1>7. QED BY <1>4, <1>5, <1>6, ListOf

LEMMA ListReplace ==
  ASSUME NEW s, IsList(s), NEW i \in DOMAIN s, NEW x
  PROVE  /\ IsList([s EXCEPT ![i] = x])
         /\ DOMAIN [s EXCEPT ![i] = x] = DOMAIN s
         /\ \A j \in DOMAIN s : [s EXCEPT ![i] = x][j] = IF j = i THEN x ELSE s[j]
<1> DEFINE S == ToSet(s) \cup {x}
<1>1. s \in Seq(ToSet(s))
  BY DEF IsList
<1> HIDE DEF S
<1>2. s \in Seq(S) /\ x \in S
  BY <1>1, SeqMonotonic DEF S
<1>3. i \in 1..Len(s) /\ DOMAIN s = 1..Len(s)
  BY <1>2
<1>4. /\ [s EXCEPT ![i] = x] \in Seq(S)
      /\ \A j \in 1..Len(s) : [s EXCEPT ![i] = x][j] = IF j = i THEN x ELSE s[j]
  BY <1>2, <1>3, ExceptSeq
<1>5. IsList([s EXCEPT ![i] = x])
  BY <1>4, ListOf
<1>6. QED BY <1>3, <1>4, <1>5

LEMMA ListRemove ==
  ASSUME NEW s, IsList(s), NEW i \in DOMAIN s
  PROVE  /\ IsList(RemoveAt(s, i))
         /\ DOMAIN RemoveAt(s, i) = 1..(Len(s) - 1)
         /\ \A j \in 1..(Len(s) - 1) : RemoveAt(s, i)[j] = s[IF j < i THEN j ELSE j + 1]
<1> DEFINE S == ToSet(s)
           a == SubSeq(s, 1, i - 1)
           b == SubSeq(s, i + 1, Len(s))
<1>1. s \in Seq(S) /\ Len(s) \in Nat /\ i \in 1..Len(s)
  BY DEF IsList
<1> HIDE DEF S
<1>2. /\ a \in Seq(S) /\ Len(a) = i - 1
      /\ \A j \in 1..(i - 1) : a[j] = s[j]
  BY <1>1
<1>3. /\ b \in Seq(S) /\ Len(b) = Len(s) - i
      /\ \A j \in 1..(Len(s) - i) : b[j] = s[i + j]
  BY <1>1
<1> HIDE DEF a, b
<1>4. /\ a \o b \in Seq(S) /\ Len(a \o b) = Len(s) - 1
      /\ \A j \in 1..(Len(s) - 1) : (a \o b)[j] = IF j < i THEN a[j] ELSE b[j - (i - 1)]
  <2>1. /\ a \o b \in Seq(S) /\ Len(a \o b) = Len(a) + Len(b)
        /\ \A j \in 1..(Len(a) + Len(b)) :
             (a \o b)[j] = IF j <= Len(a) THEN a[j] ELSE b[j - Len(a)]
    BY <1>2, <1>3, ConcatProperties
  <2>2. Len(a) + Len(b) = Len(s) - 1
    BY <1>1, <1>2, <1>3
  <2>3. \A j \in 1..(Len(s) - 1) : (a \o b)[j] = IF j < i THEN a[j] ELSE b[j - (i - 1)]
    BY <1>1, <1>2, <2>1, <2>2
  <2>4. QED BY <2>1, <2>2, <2>3
<1>5. ASSUME NEW j \in 1..(Len(s) - 1)
      PROVE  (a \o b)[j] = s[IF j < i THEN j ELSE j + 1]
  <2>1. CASE j < i
    <3>1. j \in 1..(i - 1)
      BY <1>1, <2>1
    <3>2. QED BY <1>2, <1>4, <2>1, <3>1
  <2>2. CASE ~(j < i)
    <3>1. j - (i - 1) \in 1..(Len(s) - i) /\ i + (j - (i - 1)) = j + 1
      BY <1>1, <2>2
    <3>2. b[j - (i - 1)] = s[j + 1]
      BY <1>3, <3>1
    <3>3. QED BY <1>4, <2>2, <3>2
  <2>3. QED BY <2>1, <2>2
<1>6. RemoveAt(s, i) = a \o b
  BY DEF RemoveAt, a, b
<1>7. IsList(a \o b)
  BY <1>4, ListOf
<1>8. DOMAIN (a \o b) = 1..Len(a \o b)
  BY <1>4, LenProperties
<1>9. QED BY <1>4, <1>5, <1>6, <1>7, <1>8

\* The first place of a list where something holds is one where it holds.
LEMMA FirstOne ==
  ASSUME NEW S \in SUBSET Nat, S # {}
  PROVE  Min(S) \in S
<1> DEFINE R == {p \in Nat \X Nat : p[1] < p[2]}
<1>1. IsWellFoundedOn(R, Nat)
  BY NatLessThanWellFounded DEF OpToRel
<1> HIDE DEF R
<1>2. \E m \in S : \A k \in S : m <= k
  <2>1. PICK m \in S : \A k \in S : <<k, m>> \notin R
    BY <1>1, WFMin
  <2>2. ASSUME NEW k \in S PROVE m <= k
    <3>1. k \in Nat /\ m \in Nat /\ <<k, m>> \notin R
      BY <2>1
    <3>2. ~(k < m)
      BY <3>1 DEF R
    <3>3. QED BY <3>1, <3>2
  <2>3. QED BY <2>2
<1>3. QED BY <1>2 DEF Min

-----------------------------------------------------------------------------
(* What stays true when the server goes on. *)

LEMMA TruthStays ==
  ASSUME Grew
  PROVE  /\ \A w \in DOMAIN stored : w \in DOMAIN stored'
         /\ \A id, steps : Knows(id, steps) => Knows(id, steps)'
         /\ \A v : IsTrue(v) => IsTrue(v)'
         /\ \A c : CallTrue(c) => CallTrue(c)'
<1>1. \A w \in DOMAIN stored : w \in DOMAIN stored'
  BY DEF Grew
<1>2. \A id, steps : Knows(id, steps) => Knows(id, steps)'
  BY DEF Grew, Knows, Has
<1>3. \A v : IsTrue(v) => IsTrue(v)'
  BY <1>2 DEF Grew, IsTrue, Knows, Has
<1>4. ASSUME NEW c, CallTrue(c) PROVE CallTrue(c)'
  <2>1. IsCall(c)'
    BY <1>4 DEF CallTrue, IsCall
  <2>2. c.kind = "open" =>
          /\ c.of \in DOMAIN stored'
          /\ c.served => IsList(c.versions) /\ \A n \in DOMAIN c.versions : IsTrue(c.versions[n])'
    BY <1>1, <1>3, <1>4 DEF CallTrue
  <2>3. c.kind = "run" => Has(c.of)' /\ stored'[c.of[1]][c.of[2]].plan
    BY <1>4 DEF CallTrue, Grew, Has
  <2>4. QED BY <1>1, <1>2, <1>4, <2>1, <2>2, <2>3 DEF CallTrue
<1>5. QED BY <1>1, <1>2, <1>3, <1>4

LEMMA SameGrew ==
  ASSUME UNCHANGED stored
  PROVE  Grew
BY DEF Grew

\* A call is sent.
LEMMA AppendInv ==
  ASSUME CallsInv, RunInv, Grew, NEW c, CallTrue(c)',
         calls' = Append(calls, c),
         \/ store'.running = store.running /\ ~IsRun(c)
         \/ ~store.running /\ store'.running
  PROVE  CallsInv' /\ RunInv'
<1>1. /\ IsList(calls) /\ IsList(calls')
      /\ Len(calls) \in Nat /\ DOMAIN calls = 1..Len(calls)
      /\ DOMAIN calls' = 1..(Len(calls) + 1)
      /\ \A i \in 1..Len(calls) : calls'[i] = calls[i]
      /\ calls'[Len(calls) + 1] = c
  BY ListParts, ListAppend DEF CallsInv
<1>2. \A i \in DOMAIN calls' : calls'[i] = c \/ (i \in DOMAIN calls /\ calls'[i] = calls[i])
  BY <1>1
<1>3. CallsInv'
  BY <1>1, <1>2, TruthStays DEF CallsInv
<1>4. RunInv'
  <2>1. \A i \in DOMAIN calls : calls'[i] = calls[i]
    BY <1>1
  <2>2. CASE store'.running = store.running /\ ~IsRun(c)
    <3>1. \A i \in DOMAIN calls' : IsRun(calls'[i]) => i \in DOMAIN calls /\ calls'[i] = calls[i]
      BY <1>2, <2>2
    <3>2. QED BY <3>1, <2>2 DEF RunInv, IsRun
  <2>3. CASE ~store.running /\ store'.running
    <3>1. \A i \in DOMAIN calls : ~IsRun(calls[i])
      BY <2>3 DEF RunInv
    <3>2. \A i \in DOMAIN calls' : IsRun(calls'[i]) => i = Len(calls) + 1
      BY <1>1, <3>1
    <3>3. QED BY <3>2, <2>3 DEF RunInv, IsRun
  <2>4. QED BY <2>2, <2>3
<1>5. QED BY <1>3, <1>4

\* A call is answered.
LEMMA RemoveInv ==
  ASSUME CallsInv, RunInv, Grew, NEW i \in DOMAIN calls,
         calls' = RemoveAt(calls, i),
         store'.running = store.running \/ IsRun(calls[i])
  PROVE  CallsInv' /\ RunInv'
<1> DEFINE From(j) == IF j < i THEN j ELSE j + 1
<1>1. /\ IsList(calls) /\ IsList(calls')
      /\ Len(calls) \in Nat /\ DOMAIN calls = 1..Len(calls)
      /\ DOMAIN calls' = 1..(Len(calls) - 1)
      /\ \A j \in 1..(Len(calls) - 1) : calls'[j] = calls[From(j)]
  BY ListParts, ListRemove DEF CallsInv
<1>2. \A j \in DOMAIN calls' :
        From(j) \in DOMAIN calls /\ From(j) # i /\ calls'[j] = calls[From(j)]
  BY <1>1
<1>3. \A j, k \in DOMAIN calls' : From(j) = From(k) => j = k
  BY <1>1
<1> HIDE DEF From
<1>4. CallsInv'
  BY <1>1, <1>2, TruthStays DEF CallsInv
<1>5. RunInv'
  <2>1. CASE IsRun(calls[i])
    <3>1. \A j \in DOMAIN calls' : ~IsRun(calls'[j])
      BY <1>2, <2>1 DEF RunInv
    <3>2. QED BY <3>1 DEF RunInv, IsRun
  <2>2. CASE store'.running = store.running
    BY <1>2, <1>3, <2>2 DEF RunInv, IsRun
  <2>3. QED BY <2>1, <2>2
<1>6. QED BY <1>4, <1>5

\* A call is served, or the next one takes its place.
LEMMA ReplaceInv ==
  ASSUME CallsInv, RunInv, Grew, NEW i \in DOMAIN calls, NEW c, CallTrue(c)',
         calls' = [calls EXCEPT ![i] = c],
         IsRun(c) => IsRun(calls[i]),
         store'.running = store.running
  PROVE  CallsInv' /\ RunInv'
<1>1. /\ IsList(calls) /\ IsList(calls') /\ DOMAIN calls' = DOMAIN calls
      /\ \A j \in DOMAIN calls : calls'[j] = IF j = i THEN c ELSE calls[j]
  BY ListReplace DEF CallsInv
<1>2. CallsInv'
  BY <1>1, TruthStays DEF CallsInv
<1>3. RunInv'
  BY <1>1 DEF RunInv, IsRun
<1>4. QED BY <1>2, <1>3

LEMMA SameInv ==
  ASSUME CallsInv, RunInv, Grew, UNCHANGED calls, store'.running = store.running
  PROVE  CallsInv' /\ RunInv'
<1>1. CallsInv'
  BY TruthStays, ListParts DEF CallsInv
<1>2. RunInv'
  BY DEF RunInv, IsRun
<1>3. QED BY <1>1, <1>2

-----------------------------------------------------------------------------
(* What the server does to the versions. *)

LEMMA StoredStays ==
  ASSUME StoredInv, UNCHANGED stored
  PROVE  StoredInv' /\ Grew
BY DEF StoredInv, IsVersion, IsList, Grew

LEMMA InsertGrows ==
  ASSUME StoredInv, NEW w \in DOMAIN stored, NEW steps, NEW base, NEW shown,
         Insert(w, steps, base, shown)
  PROVE  /\ StoredInv' /\ Grew
         /\ \A n : n = Len(stored[w]) + 1 => Knows(<<w, n>>, steps)'
<1> DEFINE v == [steps |-> steps, plan |-> FALSE, base |-> base, shown |-> shown]
           more == Append(stored[w], v)
<1>1. stored' = [stored EXCEPT ![w] = more]
  BY DEF Insert
<1>2. IsVersion(v) /\ v.steps = steps
  BY DEF IsVersion
<1> HIDE DEF v
<1>3. /\ IsList(stored[w]) /\ Len(stored[w]) \in Nat /\ DOMAIN stored[w] = 1..Len(stored[w])
      /\ IsList(more) /\ DOMAIN more = 1..(Len(stored[w]) + 1)
      /\ \A n \in 1..Len(stored[w]) : more[n] = stored[w][n]
      /\ more[Len(stored[w]) + 1] = v
  BY ListAppend, ListParts DEF StoredInv
<1> HIDE DEF more
<1>4. /\ DOMAIN stored' = DOMAIN stored /\ stored' = [x \in DOMAIN stored' |-> stored'[x]]
      /\ stored'[w] = more
      /\ \A x \in DOMAIN stored : x # w => stored'[x] = stored[x]
  BY <1>1 DEF StoredInv
<1>5. \A n \in DOMAIN more : IsVersion(more[n])
  BY <1>2, <1>3 DEF StoredInv
<1>6. \A x \in DOMAIN stored :
        IsList(stored'[x]) /\ \A n \in DOMAIN stored'[x] : IsVersion(stored'[x][n])
  BY <1>3, <1>4, <1>5 DEF StoredInv
<1>7. StoredInv'
  BY <1>4, <1>6 DEF StoredInv, IsVersion, IsList
<1>8. Grew
  BY <1>3, <1>4 DEF Grew
<1>9. \A n : n = Len(stored[w]) + 1 => Knows(<<w, n>>, steps)'
  BY <1>2, <1>3, <1>4 DEF Knows, Has
<1>10. QED BY <1>7, <1>8, <1>9

LEMMA CreateGrows ==
  ASSUME StoredInv, NEW w, w \notin DOMAIN stored,
         stored' = [v \in DOMAIN stored \cup {w} |-> IF v = w THEN <<>> ELSE stored[v]]
  PROVE  StoredInv' /\ Grew /\ w \in DOMAIN stored'
<1>1. /\ DOMAIN stored' = DOMAIN stored \cup {w}
      /\ stored' = [x \in DOMAIN stored' |-> stored'[x]]
      /\ stored'[w] = <<>>
      /\ \A x \in DOMAIN stored : stored'[x] = stored[x]
  OBVIOUS
<1>2. IsList(<<>>) /\ DOMAIN <<>> = {}
  BY DEF IsList
<1>3. \A x \in DOMAIN stored' :
        IsList(stored'[x]) /\ \A n \in DOMAIN stored'[x] : IsVersion(stored'[x][n])
  BY <1>1, <1>2 DEF StoredInv
<1>4. StoredInv'
  BY <1>1, <1>3 DEF StoredInv, IsVersion, IsList
<1>5. Grew
  BY <1>1 DEF Grew
<1>6. QED BY <1>1, <1>4, <1>5

LEMMA PublishedVersion ==
  ASSUME NEW v, IsVersion(v), NEW p, p = [v EXCEPT !.plan = TRUE]
  PROVE  IsVersion(p) /\ p.plan /\ p.steps = v.steps
BY DEF IsVersion

LEMMA PublishGrows ==
  ASSUME StoredInv, NEW id, Has(id), ServedPublish(id)
  PROVE  /\ StoredInv' /\ Grew /\ Has(id)' /\ stored'[id[1]][id[2]].plan
<1> DEFINE w == id[1]
           n == id[2]
           v == [stored[w][n] EXCEPT !.plan = TRUE]
           list == [stored[w] EXCEPT ![n] = v]
<1>1. stored' = [stored EXCEPT ![w] = list]
  BY DEF ServedPublish
<1>2. w \in DOMAIN stored /\ n \in DOMAIN stored[w] /\ IsList(stored[w])
      /\ IsVersion(stored[w][n])
  BY DEF Has, StoredInv
<1>3. IsVersion(v) /\ v.plan /\ v.steps = stored[w][n].steps
  BY <1>2, PublishedVersion
<1> HIDE DEF v
<1>4. /\ IsList(list) /\ DOMAIN list = DOMAIN stored[w]
      /\ \A k \in DOMAIN stored[w] : list[k] = IF k = n THEN v ELSE stored[w][k]
  BY <1>2, ListReplace
<1> HIDE DEF list
<1>5. /\ DOMAIN stored' = DOMAIN stored /\ stored' = [x \in DOMAIN stored' |-> stored'[x]]
      /\ stored'[w] = list
      /\ \A x \in DOMAIN stored : x # w => stored'[x] = stored[x]
  BY <1>1, <1>2 DEF StoredInv
<1>6. \A k \in DOMAIN list : IsVersion(list[k])
  BY <1>2, <1>3, <1>4 DEF StoredInv
<1>7. \A x \in DOMAIN stored :
        IsList(stored'[x]) /\ \A k \in DOMAIN stored'[x] : IsVersion(stored'[x][k])
  BY <1>4, <1>5, <1>6 DEF StoredInv
<1>8. StoredInv'
  BY <1>5, <1>7 DEF StoredInv, IsVersion, IsList
<1>9. Grew
  BY <1>2, <1>3, <1>4, <1>5 DEF Grew
<1>10. QED BY <1>2, <1>3, <1>4, <1>5, <1>8, <1>9 DEF Has

-----------------------------------------------------------------------------
(* The steps. *)

\* The store keeps its versions, and its page, or leaves it.
LEMMA StoreStays ==
  ASSUME StoreInv, Grew, IsStore(store'), store'.versions = store.versions,
         store'.open \in {store.open, None} \cup DOMAIN stored'
  PROVE  StoreInv'
<1>1. IsStore(store)'
  BY DEF IsStore
<1>2. IsList(store.versions)'
  BY DEF StoreInv, IsList
<1>3. (store'.open # None => store'.open \in DOMAIN stored')
  BY DEF StoreInv, Grew
<1>4. (\A n \in DOMAIN store.versions : IsTrue(store.versions[n]))'
  BY TruthStays DEF StoreInv
<1>5. QED BY <1>1, <1>2, <1>3, <1>4 DEF StoreInv

LEMMA NewCallTrue ==
  ASSUME NEW kind, NEW of
  PROVE  /\ IsCall(NewCall(kind, of))
         /\ NewCall(kind, of).kind = kind /\ NewCall(kind, of).of = of
         /\ ~NewCall(kind, of).served
BY DEF NewCall, IsCall

LEMMA OpenWorkflowInv ==
  ASSUME EditorInv, OpenWorkflow
  PROVE  EditorInv' /\ Grew
<1>1. PICK w \in DOMAIN stored : store' = [store EXCEPT !.open = w] /\ Call(NewCall("open", w))
  BY DEF OpenWorkflow
<1>2. StoredInv' /\ Grew /\ stored' = stored
  BY StoredStays DEF OpenWorkflow, EditorInv
<1>3. IsStore(store') /\ store'.versions = store.versions /\ store'.open = w
      /\ store'.running = store.running
  BY <1>1 DEF EditorInv, StoreInv, IsStore
<1>4. StoreInv'
  BY <1>2, <1>3, StoreStays DEF EditorInv
<1> DEFINE c == NewCall("open", w)
<1>5. CallTrue(c)' /\ ~IsRun(c)
  <2>1. /\ IsCall(c) /\ c.kind = "open" /\ c.of = w /\ ~c.served
    BY NewCallTrue
  <2> HIDE DEF c
  <2>2. IsCall(c)'
    BY <2>1 DEF IsCall
  <2>3. QED BY <1>2, <2>1, <2>2 DEF CallTrue, IsRun
<1>6. CallsInv' /\ RunInv'
  BY <1>1, <1>2, <1>3, <1>5, AppendInv DEF EditorInv, Call
<1>7. QED BY <1>2, <1>4, <1>6 DEF EditorInv

LEMMA ListVersionsTrue ==
  ASSUME StoredInv, NEW w \in DOMAIN stored
  PROVE  /\ IsList(ListVersions(w))
         /\ \A n \in DOMAIN ListVersions(w) : IsTrue(ListVersions(w)[n])
<1> DEFINE len == Len(stored[w])
           Entry(n) == [id |-> <<w, n>>, steps |-> stored[w][n].steps, plan |-> stored[w][n].plan]
           list == [n \in 1..len |-> Entry(n)]
           back == [n \in 1..len |-> list[(len - n) + 1]]
           S == {Entry(n) : n \in 1..len}
<1>1. len \in Nat /\ DOMAIN stored[w] = 1..len
  BY ListParts DEF StoredInv
<1>2. \A n \in 1..len : IsTrue(Entry(n))
  BY <1>1 DEF IsTrue, Knows, Has
<1> HIDE DEF Entry, len
<1>3. list \in Seq(S) /\ Len(list) = len
  BY <1>1
<1>4. ListVersions(w) = back
  <2>1. ListVersions(w) = Reverse(list)
    BY <1>1 DEF ListVersions, Entry, len
  <2>2. QED BY <2>1, <1>3 DEF Reverse
<1>5. \A n \in 1..len : (len - n) + 1 \in 1..len
  BY <1>1
<1>6. back \in Seq(S) /\ DOMAIN back = 1..len
  <2>1. \A n \in 1..len : list[(len - n) + 1] \in S
    BY <1>5
  <2>2. back \in [1..len -> S]
    BY <2>1
  <2> HIDE DEF back, S
  <2>3. DOMAIN back = 1..len
    BY <2>2
  <2>4. back \in Seq(S)
    BY <1>1, <2>2, SeqDef
  <2>5. QED BY <2>3, <2>4
<1>7. \A n \in 1..len : back[n] = Entry((len - n) + 1)
  BY <1>5
<1> HIDE DEF list, back, S
<1>8. IsList(back)
  BY <1>6, ListOf
<1>9. QED BY <1>2, <1>4, <1>5, <1>6, <1>7, <1>8

LEMMA ServeOpenInv ==
  ASSUME EditorInv, ServeOpen
  PROVE  EditorInv' /\ Grew
<1>1. PICK i \in Unserved("open") :
        calls' = [calls EXCEPT ![i].served = TRUE, ![i].versions = ListVersions(calls[i].of)]
  BY DEF ServeOpen
<1>2. StoredInv' /\ Grew /\ stored' = stored /\ store' = store
  BY StoredStays DEF ServeOpen, EditorInv
<1>3. PICK o : o = calls[i]
  OBVIOUS
<1>4. i \in DOMAIN calls /\ o.kind = "open" /\ CallTrue(o)
  BY <1>3 DEF Unserved, Waiting, EditorInv, CallsInv
<1>5. o.of \in DOMAIN stored /\ IsCall(o)
  BY <1>4 DEF CallTrue
<1>6. PICK x : x = ListVersions(o.of)
  OBVIOUS
<1>7. IsList(x) /\ \A n \in DOMAIN x : IsTrue(x[n])
  BY <1>5, <1>6, ListVersionsTrue DEF EditorInv
<1>8. PICK c : c = [o EXCEPT !.served = TRUE, !.versions = x]
  OBVIOUS
<1>9. calls' = [calls EXCEPT ![i] = c]
  BY <1>1, <1>3, <1>6, <1>8
<1>10. IsCall(c) /\ c.served /\ c.versions = x /\ c.kind = "open" /\ c.of = o.of
  BY <1>4, <1>5, <1>8 DEF IsCall
<1>11. CallTrue(c)' /\ ~IsRun(c)
  BY <1>2, <1>5, <1>7, <1>10, TruthStays DEF CallTrue, IsCall, IsRun
<1>12. CallsInv' /\ RunInv'
  BY <1>2, <1>4, <1>9, <1>11, ReplaceInv DEF EditorInv
<1>13. StoreInv'
  BY <1>2, StoreStays DEF EditorInv, StoreInv
<1>14. QED BY <1>2, <1>12, <1>13 DEF EditorInv

\* A list that is read off a list, place by place.
LEMMA ListMap ==
  ASSUME NEW s, IsList(s), NEW t, DOMAIN t = DOMAIN s, t = [n \in DOMAIN t |-> t[n]]
  PROVE  IsList(t)
<1>1. Len(s) \in Nat /\ DOMAIN t = 1..Len(s)
  BY ListParts
<1>2. t \in [1..Len(s) -> ToSet(t)]
  BY <1>1 DEF ToSet
<1>3. t \in Seq(ToSet(t))
  BY <1>1, <1>2, SeqDef
<1>4. QED BY <1>3 DEF IsList

LEMMA OpenedInv ==
  ASSUME EditorInv, Opened
  PROVE  EditorInv' /\ Grew
<1>1. PICK i \in Waiting("open"), succeeds \in BOOLEAN :
        LET found == calls[i].versions
            steps == IF found = <<>> THEN <<>> ELSE DefinitionToSteps(found[1].steps)
        IN
        /\ succeeds \in Outcomes(i) /\ Received(i)
        /\ store' = IF succeeds
                    THEN [store EXCEPT !.workflow = calls[i].of, !.versions = found,
                                       !.active = IF found = <<>> THEN None
                                                  ELSE found[1].id,
                                       !.steps = steps, !.run = "idle",
                                       !.selected = IF steps = <<>> THEN None
                                                    ELSE steps[1].id,
                                       !.logs = {steps[n].id : n \in DOMAIN steps},
                                       !.own = Waiting("save") \cup Waiting("publish") = {}]
                    ELSE [store EXCEPT !.open = None, !.workflow = None]
  BY DEF Opened, Outcomes
<1>2. StoredInv' /\ Grew /\ stored' = stored
  BY StoredStays DEF Opened, EditorInv
<1>3. PICK o : o = calls[i]
  OBVIOUS
<1>4. i \in DOMAIN calls /\ o.kind = "open" /\ CallTrue(o)
  BY <1>3 DEF Waiting, EditorInv, CallsInv
<1>5. CASE succeeds
  <2>1. IsList(o.versions) /\ \A n \in DOMAIN o.versions : IsTrue(o.versions[n])
    BY <1>1, <1>3, <1>4, <1>5 DEF Outcomes, CallTrue
  <2>2. /\ IsStore(store') /\ store'.versions = o.versions /\ store'.open = store.open
        /\ store'.running = store.running
    BY <1>1, <1>3, <1>5 DEF EditorInv, StoreInv, IsStore
  <2>3. IsStore(store)' /\ (store.open # None => store.open \in DOMAIN stored)'
    BY <1>2, <2>2 DEF EditorInv, StoreInv, IsStore
  <2>4. (IsList(store.versions) /\ \A n \in DOMAIN store.versions : IsTrue(store.versions[n]))'
    BY <1>2, <2>1, <2>2, TruthStays DEF IsList
  <2>5. CallsInv' /\ RunInv'
    BY <1>1, <1>2, <1>4, <2>2, RemoveInv DEF EditorInv, Received
  <2>6. QED BY <1>2, <2>3, <2>4, <2>5 DEF EditorInv, StoreInv
<1>6. CASE ~succeeds
  <2>1. store' = [store EXCEPT !.open = None, !.workflow = None]
    BY <1>1, <1>6
  <2>2. /\ IsStore(store') /\ store'.versions = store.versions /\ store'.open = None
        /\ store'.running = store.running
    BY <2>1 DEF EditorInv, StoreInv, IsStore
  <2>3. StoreInv'
    BY <1>2, <2>2, StoreStays DEF EditorInv
  <2>4. CallsInv' /\ RunInv'
    BY <1>1, <1>2, <1>4, <2>2, RemoveInv DEF EditorInv, Received
  <2>5. QED BY <1>2, <2>3, <2>4 DEF EditorInv
<1>7. QED BY <1>5, <1>6

LEMMA BackToListInv ==
  ASSUME EditorInv, BackToList
  PROVE  EditorInv' /\ Grew
<1>1. StoredInv' /\ Grew /\ stored' = stored
  BY StoredStays DEF BackToList, EditorInv
<1>2. /\ IsStore(store') /\ store'.versions = <<>> /\ store'.open = None
      /\ store'.running = store.running
  BY DEF BackToList, Closed, EditorInv, StoreInv, IsStore
<1>3. StoreInv'
  BY <1>2 DEF StoreInv, IsStore, IsList
<1>4. CallsInv' /\ RunInv'
  BY <1>1, <1>2, SameInv DEF BackToList, EditorInv
<1>5. QED BY <1>1, <1>3, <1>4 DEF EditorInv

LEMMA CreateWorkflowInv ==
  ASSUME EditorInv, CreateWorkflow
  PROVE  EditorInv' /\ Grew
<1>1. StoredInv' /\ Grew /\ stored' = stored
  BY StoredStays DEF CreateWorkflow, EditorInv
<1>2. /\ IsStore(store') /\ store'.versions = store.versions /\ store'.open = store.open
      /\ store'.running = store.running
  BY DEF CreateWorkflow, EditorInv, StoreInv, IsStore
<1>3. StoreInv'
  BY <1>1, <1>2, StoreStays DEF EditorInv
<1>4. PICK c : c = NewCall("create", None)
  OBVIOUS
<1>5. IsCall(c) /\ c.kind = "create" /\ ~c.served
  BY <1>4, NewCallTrue
<1>6. CallTrue(c)' /\ ~IsRun(c)
  BY <1>5 DEF CallTrue, IsCall, IsRun
<1>7. CallsInv' /\ RunInv'
  BY <1>1, <1>2, <1>4, <1>6, AppendInv DEF EditorInv, CreateWorkflow, Call
<1>8. QED BY <1>1, <1>3, <1>7 DEF EditorInv

LEMMA ServeCreateInv ==
  ASSUME EditorInv, ServeCreate
  PROVE  EditorInv' /\ Grew
<1>1. PICK i \in Unserved("create"), w \in NewWorkflows \ DOMAIN stored :
        /\ stored' = [v \in DOMAIN stored \cup {w} |-> IF v = w THEN <<>> ELSE stored[v]]
        /\ calls' = [calls EXCEPT ![i].served = TRUE, ![i].of = w]
  BY DEF ServeCreate
<1>2. StoredInv' /\ Grew /\ w \in DOMAIN stored' /\ store' = store
  BY <1>1, CreateGrows DEF ServeCreate, EditorInv
<1>3. PICK o : o = calls[i]
  OBVIOUS
<1>4. i \in DOMAIN calls /\ o.kind = "create" /\ IsCall(o)
  BY <1>3 DEF Unserved, Waiting, EditorInv, CallsInv, CallTrue
<1>5. PICK c : c = [o EXCEPT !.served = TRUE, !.of = w]
  OBVIOUS
<1>6. calls' = [calls EXCEPT ![i] = c]
  BY <1>1, <1>3, <1>5
<1>7. IsCall(c) /\ c.served /\ c.of = w /\ c.kind = "create"
  BY <1>4, <1>5 DEF IsCall
<1>8. CallTrue(c)' /\ ~IsRun(c)
  BY <1>2, <1>7 DEF CallTrue, IsCall, IsRun
<1>9. CallsInv' /\ RunInv'
  BY <1>2, <1>4, <1>6, <1>8, ReplaceInv DEF EditorInv
<1>10. StoreInv'
  BY <1>2, StoreStays DEF EditorInv, StoreInv
<1>11. QED BY <1>2, <1>9, <1>10 DEF EditorInv

LEMMA CreatedInv ==
  ASSUME EditorInv, Created
  PROVE  EditorInv' /\ Grew
<1>1. PICK i \in Waiting("create"), succeeds \in BOOLEAN :
        /\ succeeds \in Outcomes(i)
        /\ calls' = IF succeeds
                    THEN [calls EXCEPT ![i] = NewCall("open", calls[i].of)]
                    ELSE RemoveAt(calls, i)
        /\ store' = IF succeeds
                    THEN [store EXCEPT !.saving = FALSE, !.open = calls[i].of]
                    ELSE [store EXCEPT !.saving = FALSE]
  BY DEF Created, Outcomes
<1>2. StoredInv' /\ Grew /\ stored' = stored
  BY StoredStays DEF Created, EditorInv
<1>3. PICK o : o = calls[i]
  OBVIOUS
<1>4. i \in DOMAIN calls /\ o.kind = "create" /\ CallTrue(o)
  BY <1>3 DEF Waiting, EditorInv, CallsInv
<1>5. /\ IsStore(store') /\ store'.versions = store.versions
      /\ store'.open = (IF succeeds THEN o.of ELSE store.open)
      /\ store'.running = store.running
  BY <1>1, <1>3 DEF EditorInv, StoreInv, IsStore
<1>6. CASE succeeds
  <2>1. o.of \in DOMAIN stored
    BY <1>1, <1>3, <1>4, <1>6 DEF Outcomes, CallTrue
  <2>2. PICK c : c = NewCall("open", o.of)
    OBVIOUS
  <2>3. IsCall(c) /\ c.kind = "open" /\ c.of = o.of /\ ~c.served
    BY <2>2, NewCallTrue
  <2>4. CallTrue(c)' /\ ~IsRun(c)
    BY <1>2, <2>1, <2>3 DEF CallTrue, IsCall, IsRun
  <2>5. calls' = [calls EXCEPT ![i] = c]
    BY <1>1, <1>3, <1>6, <2>2
  <2>6. CallsInv' /\ RunInv'
    BY <1>2, <1>4, <1>5, <2>4, <2>5, ReplaceInv DEF EditorInv
  <2>7. StoreInv'
    BY <1>2, <1>5, <1>6, <2>1, StoreStays DEF EditorInv
  <2>8. QED BY <1>2, <2>6, <2>7 DEF EditorInv
<1>7. CASE ~succeeds
  <2>1. CallsInv' /\ RunInv'
    BY <1>1, <1>2, <1>4, <1>5, <1>7, RemoveInv DEF EditorInv
  <2>2. StoreInv'
    BY <1>2, <1>5, <1>7, StoreStays DEF EditorInv
  <2>3. QED BY <1>2, <2>1, <2>2 DEF EditorInv
<1>8. QED BY <1>6, <1>7

\* A step that is not a call and stays on the page.
LEMMA EditInvariant ==
  ASSUME EditorInv, UNCHANGED <<stored, calls>>, IsStore(store'),
         store'.versions = store.versions, store'.open = store.open,
         store'.running = store.running
  PROVE  EditorInv' /\ Grew
<1>1. StoredInv' /\ Grew
  BY StoredStays DEF EditorInv
<1>2. StoreInv'
  BY <1>1, StoreStays DEF EditorInv
<1>3. CallsInv' /\ RunInv'
  BY <1>1, SameInv DEF EditorInv
<1>4. QED BY <1>1, <1>2, <1>3 DEF EditorInv

LEMMA EditingInv ==
  ASSUME EditorInv,
         SelectStep \/ UpdateSelected \/ HandleEndpointSelect \/ DeleteStep
  PROVE  EditorInv' /\ Grew
<1>1. CASE SelectStep
  <2>1. PICK id : store' = [store EXCEPT !.selected = id]
    BY <1>1 DEF SelectStep
  <2>2. /\ IsStore(store') /\ store'.versions = store.versions /\ store'.open = store.open
        /\ store'.running = store.running
    BY <2>1 DEF EditorInv, StoreInv, IsStore
  <2>3. QED BY <1>1, <2>2, EditInvariant DEF SelectStep
<1>2. CASE UpdateSelected
  <2>1. PICK steps : store' = [store EXCEPT !.steps = steps]
    BY <1>2 DEF UpdateSelected
  <2>2. /\ IsStore(store') /\ store'.versions = store.versions /\ store'.open = store.open
        /\ store'.running = store.running
    BY <2>1 DEF EditorInv, StoreInv, IsStore
  <2>3. QED BY <1>2, <2>2, EditInvariant DEF UpdateSelected
<1>3. CASE HandleEndpointSelect
  <2>1. PICK steps, id : store' = [store EXCEPT !.steps = steps, !.selected = id]
    BY <1>3 DEF HandleEndpointSelect
  <2>2. /\ IsStore(store') /\ store'.versions = store.versions /\ store'.open = store.open
        /\ store'.running = store.running
    BY <2>1 DEF EditorInv, StoreInv, IsStore
  <2>3. QED BY <1>3, <2>2, EditInvariant DEF HandleEndpointSelect
<1>4. CASE DeleteStep
  <2>1. PICK steps, id : store' = [store EXCEPT !.steps = steps, !.selected = id]
    BY <1>4 DEF DeleteStep
  <2>2. /\ IsStore(store') /\ store'.versions = store.versions /\ store'.open = store.open
        /\ store'.running = store.running
    BY <2>1 DEF EditorInv, StoreInv, IsStore
  <2>3. QED BY <1>4, <2>2, EditInvariant DEF DeleteStep
<1>5. QED BY <1>1, <1>2, <1>3, <1>4

LEMMA SaveDraftInv ==
  ASSUME EditorInv, SaveDraft
  PROVE  EditorInv' /\ Grew
<1>1. StoredInv' /\ Grew /\ stored' = stored
  BY StoredStays DEF SaveDraft, EditorInv
<1>2. /\ IsStore(store') /\ store'.versions = store.versions /\ store'.open = store.open
      /\ store'.running = store.running
  BY DEF SaveDraft, EditorInv, StoreInv, IsStore
<1>3. StoreInv'
  BY <1>1, <1>2, StoreStays DEF EditorInv
<1>4. PICK steps, base, shown, publish :
        Call([NewCall("save", store.open) EXCEPT
               !.steps = steps, !.base = base, !.shown = shown, !.publish = publish])
  BY DEF SaveDraft
<1>5. PICK c : c = [NewCall("save", store.open) EXCEPT
                     !.steps = steps, !.base = base, !.shown = shown, !.publish = publish]
  OBVIOUS
<1>6. IsCall(c) /\ c.kind = "save" /\ c.of = store.open /\ ~c.served
  BY <1>5 DEF IsCall, NewCall
<1>7. c.of \in DOMAIN stored'
  BY <1>1, <1>6 DEF SaveDraft, IsShown, EditorInv, StoreInv
<1>8. CallTrue(c)' /\ ~IsRun(c)
  BY <1>6, <1>7 DEF CallTrue, IsCall, IsRun
<1>9. CallsInv' /\ RunInv'
  BY <1>1, <1>2, <1>4, <1>5, <1>8, AppendInv DEF EditorInv, Call
<1>10. QED BY <1>1, <1>3, <1>9 DEF EditorInv

LEMMA ServeSaveInv ==
  ASSUME EditorInv, ServeSave
  PROVE  EditorInv' /\ Grew
<1>1. PICK i \in Unserved("save") :
        /\ Insert(calls[i].of, calls[i].steps, calls[i].base, calls[i].shown)
        /\ calls' = [calls EXCEPT ![i].served = TRUE,
                                  ![i].version = <<calls[i].of, Len(stored[calls[i].of]) + 1>>]
  BY DEF ServeSave
<1>2. PICK o : o = calls[i]
  OBVIOUS
<1>3. i \in DOMAIN calls /\ o.kind = "save" /\ CallTrue(o)
  BY <1>2 DEF Unserved, Waiting, EditorInv, CallsInv
<1>4. o.of \in DOMAIN stored /\ IsCall(o)
  BY <1>3 DEF CallTrue
<1>5. PICK n : n = Len(stored[o.of]) + 1
  OBVIOUS
<1>6. StoredInv' /\ Grew /\ Knows(<<o.of, n>>, o.steps)' /\ store' = store
  BY <1>1, <1>2, <1>4, <1>5, InsertGrows DEF ServeSave, EditorInv
<1>7. PICK c : c = [o EXCEPT !.served = TRUE, !.version = <<o.of, n>>]
  OBVIOUS
<1>8. calls' = [calls EXCEPT ![i] = c]
  BY <1>1, <1>2, <1>5, <1>7
<1>9. /\ IsCall(c) /\ c.served /\ c.version = <<o.of, n>> /\ c.kind = "save"
      /\ c.of = o.of /\ c.steps = o.steps
  BY <1>3, <1>4, <1>7 DEF IsCall
<1>10. c.of \in DOMAIN stored' /\ Knows(c.version, c.steps)'
  BY <1>4, <1>6, <1>9, TruthStays
<1>11. CallTrue(c)' /\ ~IsRun(c)
  BY <1>9, <1>10 DEF CallTrue, IsCall, IsRun
<1>12. CallsInv' /\ RunInv'
  BY <1>3, <1>6, <1>8, <1>11, ReplaceInv DEF EditorInv
<1>13. StoreInv'
  BY <1>6, StoreStays DEF EditorInv, StoreInv
<1>14. QED BY <1>6, <1>12, <1>13 DEF EditorInv

LEMMA SavedInv ==
  ASSUME EditorInv, Saved
  PROVE  EditorInv' /\ Grew
<1>1. PICK i \in Waiting("save"), succeeds \in BOOLEAN :
        LET call == calls[i]
            version == [id |-> call.version, steps |-> call.steps, plan |-> FALSE]
            publishes == call.publish /\ succeeds
        IN
        /\ succeeds \in Outcomes(i)
        /\ calls' = IF publishes
                    THEN [calls EXCEPT ![i] =
                           [NewCall("publish", version.id) EXCEPT !.steps = call.steps]]
                    ELSE RemoveAt(calls, i)
        /\ store' = IF succeeds
                    THEN [store EXCEPT !.versions = <<version>> \o @, !.active = version.id,
                                       !.saving = FALSE, !.publishing = publishes]
                    ELSE [store EXCEPT !.saving = FALSE]
  BY DEF Saved, Outcomes
<1>2. StoredInv' /\ Grew /\ stored' = stored
  BY StoredStays DEF Saved, EditorInv
<1>3. PICK o : o = calls[i]
  OBVIOUS
<1>4. i \in DOMAIN calls /\ o.kind = "save" /\ CallTrue(o)
  BY <1>3 DEF Waiting, EditorInv, CallsInv
<1>5. PICK v : v = [id |-> o.version, steps |-> o.steps, plan |-> FALSE]
  OBVIOUS
<1>6. /\ IsStore(store') /\ store'.open = store.open /\ store'.running = store.running
      /\ store'.versions = (IF succeeds THEN <<v>> \o store.versions ELSE store.versions)
  BY <1>1, <1>3, <1>5 DEF EditorInv, StoreInv, IsStore
<1>7. succeeds => Knows(o.version, o.steps)'
  BY <1>1, <1>2, <1>3, <1>4, TruthStays DEF Outcomes, CallTrue
<1>8. StoreInv'
  <2>1. CASE succeeds
    <3>1. PICK list : list = store.versions /\ IsList(list)
      BY DEF EditorInv, StoreInv
    <3>2. IsTrue(v)'
      BY <1>5, <1>7, <2>1 DEF IsTrue
    <3>3. /\ IsList(<<v>> \o list) /\ DOMAIN (<<v>> \o list) = 1..(Len(list) + 1)
          /\ (<<v>> \o list)[1] = v
          /\ \A n \in 2..(Len(list) + 1) : (<<v>> \o list)[n] = list[n - 1]
      BY <3>1, ListPrepend
    <3>4. \A n \in DOMAIN list : IsTrue(list[n])'
      BY <1>2, <3>1, TruthStays DEF EditorInv, StoreInv
    <3>5. \A n \in DOMAIN (<<v>> \o list) : IsTrue((<<v>> \o list)[n])'
      <4>1. Len(list) \in Nat /\ DOMAIN list = 1..Len(list)
        BY <3>1, ListParts
      <4>2. QED BY <3>2, <3>3, <3>4, <4>1
    <3>6. PICK new : new = <<v>> \o list
      OBVIOUS
    <3>7. (IsList(store.versions) /\ \A n \in DOMAIN store.versions : IsTrue(store.versions[n]))'
      BY <1>6, <2>1, <3>1, <3>3, <3>5, <3>6 DEF IsList
    <3>8. IsStore(store)' /\ (store.open # None => store.open \in DOMAIN stored)'
      BY <1>2, <1>6 DEF EditorInv, StoreInv, IsStore
    <3>9. QED BY <3>7, <3>8 DEF StoreInv
  <2>2. CASE ~succeeds
    BY <1>2, <1>6, <2>2, StoreStays DEF EditorInv
  <2>3. QED BY <2>1, <2>2
<1>9. CallsInv' /\ RunInv'
  <2>1. CASE o.publish /\ succeeds
    <3>1. PICK c : c = [NewCall("publish", o.version) EXCEPT !.steps = o.steps]
      OBVIOUS
    <3>2. calls' = [calls EXCEPT ![i] = c]
      BY <1>1, <1>3, <2>1, <3>1
    <3>3. IsCall(c) /\ c.kind = "publish" /\ c.of = o.version /\ c.steps = o.steps
      BY <3>1 DEF IsCall, NewCall
    <3>4. Knows(c.of, c.steps)'
      BY <1>7, <2>1, <3>3
    <3>5. CallTrue(c)' /\ ~IsRun(c)
      BY <3>3, <3>4 DEF CallTrue, IsCall, IsRun
    <3>6. QED BY <1>2, <1>4, <1>6, <3>2, <3>5, ReplaceInv DEF EditorInv
  <2>2. CASE ~(o.publish /\ succeeds)
    <3>1. calls' = RemoveAt(calls, i)
      BY <1>1, <1>3, <2>2
    <3>2. QED BY <1>2, <1>4, <1>6, <3>1, RemoveInv DEF EditorInv
  <2>3. QED BY <2>1, <2>2
<1>10. QED BY <1>2, <1>8, <1>9 DEF EditorInv

LEMMA PublishedInv ==
  ASSUME EditorInv, Published
  PROVE  EditorInv' /\ Grew
<1>1. PICK i \in Waiting("publish") :
        LET published == [id |-> calls[i].of, steps |-> calls[i].steps, plan |-> TRUE] IN
        /\ Received(i) /\ ServedPublish(published.id)
        /\ store' = [store EXCEPT !.publishing = FALSE, !.active = published.id, !.versions =
             [n \in DOMAIN @ |-> IF @[n].id = published.id THEN published ELSE @[n]]]
  BY DEF Published
<1>2. PICK o : o = calls[i]
  OBVIOUS
<1>3. i \in DOMAIN calls /\ CallTrue(o) /\ Knows(o.of, o.steps)
  BY <1>2 DEF Waiting, EditorInv, CallsInv, CallTrue
<1>4. StoredInv' /\ Grew /\ stored'[o.of[1]][o.of[2]].plan
  BY <1>1, <1>2, <1>3, PublishGrows DEF EditorInv, Knows
<1>5. PICK p : p = [id |-> o.of, steps |-> o.steps, plan |-> TRUE]
  OBVIOUS
<1>6. p.id = o.of /\ IsTrue(p)'
  BY <1>3, <1>4, <1>5, TruthStays DEF IsTrue
<1>7. PICK list : list = store.versions /\ IsList(list)
  BY DEF EditorInv, StoreInv
<1>8. PICK new : new = [n \in DOMAIN list |-> IF list[n].id = p.id THEN p ELSE list[n]]
  OBVIOUS
<1>9. store' = [store EXCEPT !.publishing = FALSE, !.active = p.id, !.versions = new]
  BY <1>1, <1>2, <1>5, <1>7, <1>8 DEF EditorInv, StoreInv, IsStore
<1>10. /\ IsStore(store') /\ store'.open = store.open /\ store'.running = store.running
       /\ store'.versions = new
  BY <1>9 DEF EditorInv, StoreInv, IsStore
<1>11. IsList(new) /\ DOMAIN new = DOMAIN list
  BY <1>7, <1>8, ListMap
<1>12. \A n \in DOMAIN list : IsTrue(list[n])'
  BY <1>4, <1>7, TruthStays DEF EditorInv, StoreInv
<1>13. \A n \in DOMAIN new : IsTrue(new[n])'
  BY <1>6, <1>8, <1>12
<1>14. (IsList(store.versions) /\ \A n \in DOMAIN store.versions : IsTrue(store.versions[n]))'
  BY <1>10, <1>11, <1>13 DEF IsList
<1>15. IsStore(store)' /\ (store.open # None => store.open \in DOMAIN stored)'
  BY <1>4, <1>10 DEF EditorInv, StoreInv, IsStore, Grew
<1>16. CallsInv' /\ RunInv'
  BY <1>1, <1>3, <1>4, <1>10, RemoveInv DEF EditorInv, Received
<1>17. QED BY <1>4, <1>14, <1>15, <1>16 DEF EditorInv, StoreInv

LEMMA PublishFailedInv ==
  ASSUME EditorInv, PublishFailed
  PROVE  EditorInv' /\ Grew
<1>1. PICK i \in Waiting("publish") :
        Received(i) /\ (ServedPublish(calls[i].of) \/ UNCHANGED stored)
  BY DEF PublishFailed
<1>2. i \in DOMAIN calls /\ Has(calls[i].of)
  BY DEF Waiting, EditorInv, CallsInv, CallTrue, Knows
<1>3. StoredInv' /\ Grew
  BY <1>1, <1>2, PublishGrows, StoredStays DEF EditorInv
<1>4. /\ IsStore(store') /\ store'.versions = store.versions /\ store'.open = store.open
      /\ store'.running = store.running
  BY DEF PublishFailed, EditorInv, StoreInv, IsStore
<1>5. StoreInv'
  BY <1>3, <1>4, StoreStays DEF EditorInv
<1>6. CallsInv' /\ RunInv'
  BY <1>1, <1>2, <1>3, <1>4, RemoveInv DEF EditorInv, Received
<1>7. QED BY <1>3, <1>5, <1>6 DEF EditorInv

\* A version that the store takes for published can be run.
LEMMA FoundVersion ==
  ASSUME StoreInv, NEW id, VersionOf(id) # None, VersionOf(id).plan
  PROVE  Has(id) /\ stored[id[1]][id[2]].plan
<1> DEFINE found == {i \in DOMAIN store.versions : store.versions[i].id = id}
<1>1. found # {} /\ VersionOf(id) = store.versions[Min(found)]
  BY DEF VersionOf
<1>2. found \in SUBSET Nat
  BY ListParts DEF StoreInv
<1>3. Min(found) \in found
  BY <1>1, <1>2, FirstOne
<1>4. PICK n \in DOMAIN store.versions : store.versions[n].id = id /\ store.versions[n].plan
  BY <1>1, <1>3
<1>5. IsTrue(store.versions[n])
  BY <1>4 DEF StoreInv
<1>6. QED BY <1>4, <1>5 DEF IsTrue, Knows

LEMMA RunWorkflowInv ==
  ASSUME EditorInv, RunWorkflow
  PROVE  EditorInv' /\ Grew
<1>1. StoredInv' /\ Grew /\ stored' = stored
  BY StoredStays DEF RunWorkflow, EditorInv
<1>2. /\ IsStore(store') /\ store'.versions = store.versions /\ store'.open = store.open
      /\ ~store.running /\ store'.running
  BY DEF RunWorkflow, EditorInv, StoreInv, IsStore
<1>3. StoreInv'
  BY <1>1, <1>2, StoreStays DEF EditorInv
<1>4. PICK id : id = store.active
  OBVIOUS
<1>5. Has(id) /\ stored[id[1]][id[2]].plan
  BY <1>4, FoundVersion DEF RunWorkflow, EditorInv
<1>6. PICK c : c = NewCall("run", id)
  OBVIOUS
<1>7. IsCall(c) /\ c.kind = "run" /\ c.of = id
  BY <1>6, NewCallTrue
<1>8. CallTrue(c)'
  BY <1>1, <1>5, <1>7 DEF CallTrue, IsCall, Has
<1>9. CallsInv' /\ RunInv'
  BY <1>1, <1>2, <1>4, <1>6, <1>8, AppendInv DEF EditorInv, RunWorkflow, Call
<1>10. QED BY <1>1, <1>3, <1>9 DEF EditorInv

LEMMA RunCreatedInv ==
  ASSUME EditorInv, RunCreated
  PROVE  EditorInv' /\ Grew
<1>1. PICK i \in Waiting("run") : calls' = [calls EXCEPT ![i].kind = "poll"]
  BY DEF RunCreated
<1>2. StoredInv' /\ Grew /\ store' = store
  BY StoredStays DEF RunCreated, EditorInv
<1>3. PICK o : o = calls[i]
  OBVIOUS
<1>4. i \in DOMAIN calls /\ IsRun(o) /\ IsCall(o)
  BY <1>3 DEF Waiting, IsRun, EditorInv, CallsInv, CallTrue
<1>5. PICK c : c = [o EXCEPT !.kind = "poll"]
  OBVIOUS
<1>6. calls' = [calls EXCEPT ![i] = c]
  BY <1>1, <1>3, <1>5
<1>7. IsCall(c) /\ c.kind = "poll"
  BY <1>4, <1>5 DEF IsCall
<1>8. CallTrue(c)'
  BY <1>7 DEF CallTrue, IsCall
<1>9. CallsInv' /\ RunInv'
  BY <1>2, <1>3, <1>4, <1>6, <1>8, ReplaceInv DEF EditorInv
<1>10. StoreInv'
  BY <1>2, StoreStays DEF EditorInv, StoreInv
<1>11. QED BY <1>2, <1>9, <1>10 DEF EditorInv

LEMMA RunFollowedInv ==
  ASSUME EditorInv, RunFollowed
  PROVE  EditorInv' /\ Grew
<1>1. PICK i, run :
        /\ i \in Waiting("run") \cup Waiting("poll") /\ Received(i)
        /\ store' = [store EXCEPT !.running = FALSE, !.run = run]
  BY DEF RunFollowed
<1>2. StoredInv' /\ Grew /\ stored' = stored
  BY StoredStays DEF RunFollowed, EditorInv
<1>3. i \in DOMAIN calls /\ IsRun(calls[i])
  BY <1>1 DEF Waiting, IsRun
<1>4. IsStore(store') /\ store'.versions = store.versions /\ store'.open = store.open
  BY <1>1 DEF EditorInv, StoreInv, IsStore
<1>5. StoreInv'
  BY <1>2, <1>4, StoreStays DEF EditorInv
<1>6. CallsInv' /\ RunInv'
  BY <1>1, <1>2, <1>3, RemoveInv DEF EditorInv, Received
<1>7. QED BY <1>2, <1>5, <1>6 DEF EditorInv

-----------------------------------------------------------------------------
(* The theorems. *)

LEMMA EditorInit ==
  ASSUME Init
  PROVE  EditorInv
<1>1. PICK first \in FirstDefinitions :
        stored = [w \in DOMAIN first |->
          <<[steps |-> first[w], plan |-> FALSE, base |-> first[w],
             shown |-> DefinitionToSteps(first[w])]>>]
  BY DEF Init
<1>2. \A x : IsList(<<x>>) /\ DOMAIN <<x>> = {1} /\ <<x>>[1] = x
  <2>1. TAKE x
  <2>2. <<x>> \in Seq({x}) /\ DOMAIN <<x>> = {1} /\ <<x>>[1] = x
    OBVIOUS
  <2>3. QED BY <2>2, ListOf
<1>3. StoredInv
  <2>1. stored = [w \in DOMAIN stored |-> stored[w]]
    BY <1>1
  <2>2. ASSUME NEW w \in DOMAIN stored
        PROVE  IsList(stored[w]) /\ \A n \in DOMAIN stored[w] : IsVersion(stored[w][n])
    <3>1. PICK v : /\ stored[w] = <<v>>
                   /\ v = [steps |-> first[w], plan |-> FALSE, base |-> first[w],
                           shown |-> DefinitionToSteps(first[w])]
      BY <1>1
    <3>2. IsVersion(v)
      BY <3>1 DEF IsVersion
    <3>3. QED BY <1>2, <3>1, <3>2
  <2>3. QED BY <2>1, <2>2 DEF StoredInv
<1>4. StoreInv
  BY DEF Init, Closed, StoreInv, IsStore, IsList
<1>5. CallsInv /\ RunInv
  BY DEF Init, CallsInv, RunInv, IsList
<1>6. QED BY <1>3, <1>4, <1>5 DEF EditorInv

LEMMA WorkflowStep ==
  ASSUME EditorInv, Next
  PROVE  EditorInv' /\ Grew
BY OpenWorkflowInv, ServeOpenInv, OpenedInv, BackToListInv, CreateWorkflowInv,
   ServeCreateInv, CreatedInv, EditingInv, SaveDraftInv, ServeSaveInv, SavedInv,
   PublishedInv, PublishFailedInv, RunWorkflowInv, RunCreatedInv, RunFollowedInv DEF Next

LEMMA EditorStutters ==
  ASSUME EditorInv, UNCHANGED vars
  PROVE  EditorInv'
<1>1. UNCHANGED <<stored, calls, store>>
  BY DEF vars
<1>2. QED BY <1>1, EditInvariant DEF EditorInv, StoreInv

\* Whatever order answers arrive in, the store and the calls say nothing of a
\* version that is not so on the server.
THEOREM EditorInvariance == Spec => []EditorInv
<1>1. Init => EditorInv
  BY EditorInit
<1>2. EditorInv /\ [Next]_vars => EditorInv'
  BY WorkflowStep, EditorStutters
<1>3. QED BY <1>1, <1>2, PTL DEF Spec

LEMMA InvIsTrue ==
  ASSUME EditorInv
  PROVE  StoreIsTrue
<1>1. ASSUME NEW v \in ToSet(store.versions)
      PROVE  LET there == stored[v.id[1]][v.id[2]] IN
             v.steps = there.steps /\ (v.plan => there.plan)
  BY DEF ToSet, EditorInv, StoreInv, IsTrue, Knows
<1>2. ASSUME NEW i \in Waiting("run")
      PROVE  stored[calls[i].of[1]][calls[i].of[2]].plan
  BY DEF Waiting, EditorInv, CallsInv, CallTrue
<1>3. Cardinality(Waiting("run") \cup Waiting("poll")) <= 1
  <2> DEFINE runs == Waiting("run") \cup Waiting("poll")
  <2>1. \A i, j \in runs : i = j
    BY DEF EditorInv, RunInv, IsRun, Waiting
  <2> HIDE DEF runs
  <2>2. runs = {} \/ \E i : runs = {i}
    BY <2>1
  <2>3. Cardinality(runs) \in {0, 1}
    BY <2>2, FS_EmptySet, FS_Singleton
  <2>4. QED BY <2>3 DEF runs
<1>4. QED BY <1>1, <1>2, <1>3 DEF StoreIsTrue

\* What the store holds of a version is what the server holds, and only
\* published versions are run, one at a time.
THEOREM StoreIsTrueAlways == Spec => []StoreIsTrue
<1>1. QED BY EditorInvariance, InvIsTrue, PTL

\* No save and no publication, also one whose answer is lost, changes the steps of
\* a version that is there or takes its plan from it.
THEOREM StoredVersionsStay == Spec => [][Grew]_vars
<1>1. EditorInv /\ [Next]_vars => [Grew]_vars
  BY WorkflowStep
<1>2. QED BY <1>1, EditorInvariance, PTL DEF Spec
=============================================================================
