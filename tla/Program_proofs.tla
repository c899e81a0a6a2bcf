--------------------------- MODULE Program_proofs ---------------------------
(***************************************************************************)
(* The safety properties of IniParser, for every text, and of Program, for *)
(* any files and keys.  The parser's invariant says what the sections are  *)
(* when the stream has come to line "at": one for every header before it,  *)
(* in order, each with the last line of every property below its header,   *)
(* so far.  It is carried through config and beyond it; the invariant of   *)
(* the input is KeysFollowHands with the same fact about the left button.  *)
(***************************************************************************)
EXTENDS Program, WellFoundedInduction, TLAPS

-----------------------------------------------------------------------------
(* The parser: Spec is IniParser's                                         *)

(* the sections follow headers, and hold lines below them *)
SectionsOK ==
  /\ \A k \in DOMAIN sections : /\ IsHeader(sections[k].header)
                                /\ sections[k].header < at
  /\ ValuesFromOwnSection
  /\ reading = "createSection" =>
       /\ sections # << >>
       /\ \A j \in (sections[Len(sections)].header + 1)..(at - 1) : ~IsHeader(j)

(* in a text without comments on headers they are all of them *)
PlainOK ==
  Plain =>
    /\ ~inTail
    /\ \A k \in DOMAIN sections : sections[k].name = text[sections[k].header].name
    /\ \A j, k \in DOMAIN sections : j < k => sections[j].header < sections[k].header
    /\ \A h \in 1..(at - 1) : IsHeader(h) => \E k \in DOMAIN sections : sections[k].header = h
    /\ \A k \in DOMAIN sections : \A p \in Property :
         \A l \in Below(sections[k].header, p) : l < at => l <= sections[k].values[p]
    /\ reading = "parse" => sections = << >> \/ (Unread /\ IsHeader(at))

IInv == TypeOK /\ SectionsOK /\ PlainOK /\ (reading = "done" => ~Unread)

LEMMA TextType ==
  ASSUME TypeOK
  PROVE  /\ text \in Seq(Line) /\ Len(text) \in Nat /\ DOMAIN text = 1..Len(text)
         /\ \A l \in DOMAIN text :
              /\ IsHeader(l) => text[l] \in Header
              /\ IsProperty(l) => text[l] \in Assignment
  <1>1. text \in Seq(Line)
    BY TextsAssumption DEF TypeOK
  <1>2. Len(text) \in Nat /\ DOMAIN text = 1..Len(text) /\ \A l \in DOMAIN text : text[l] \in Line
    BY <1>1
  <1>3. ASSUME NEW l \in Line
        PROVE  /\ l.kind = "header" => l \in Header
               /\ l.kind = "property" => l \in Assignment
    BY DEF Line, Header, Assignment, Other
  <1> QED BY <1>1, <1>2, <1>3 DEF IsHeader, IsProperty

LEMMA SectionsType ==
  ASSUME TypeOK
  PROVE  /\ sections \in Seq(Section)
         /\ DOMAIN sections = 1..Len(sections) /\ Len(sections) \in Nat
         /\ \A k \in DOMAIN sections : sections[k] \in Section
  <1>1. sections \in Seq(Section)
    BY DEF TypeOK
  <1> QED BY <1>1

LEMMA InitIInv == Init => IInv
  <1> SUFFICES ASSUME Init PROVE IInv
    OBVIOUS
  <1>1. text \in Seq(Line)
    BY TextsAssumption DEF Init
  <1>2. Len(text) \in Nat
    BY <1>1
  <1>3. sections \in Seq(Section)
    BY DEF Init
  <1>4. TypeOK
    <2>1. text \in Texts /\ at \in 1..(Len(text) + 1)
      BY <1>2 DEF Init
    <2>2. inTail \in BOOLEAN /\ reading \in {"parse", "createSection", "done"}
      BY DEF Init
    <2> QED BY <1>3, <2>1, <2>2 DEF TypeOK
  <1> QED BY <1>2, <1>4 DEF Init, IInv, SectionsOK, PlainOK, ValuesFromOwnSection

(* reading a line that leaves the sections as they are *)
LEMMA SkippingKeeps ==
  ASSUME IInv, SkipToHeader \/ SkipLine
  PROVE  IInv'
  <1> USE DEF NextLine, Unread
  <1>1. /\ text' = text /\ sections' = sections /\ reading' = reading
        /\ at' = at + 1 /\ at <= Len(text) /\ inTail' = FALSE
        /\ reading \in {"parse", "createSection"}
    BY DEF SkipToHeader, SkipLine
  <1>2. /\ Len(text) \in Nat /\ at \in 1..Len(text) /\ DOMAIN text = 1..Len(text)
        /\ DOMAIN sections = 1..Len(sections) /\ Len(sections) \in Nat
        /\ \A k \in DOMAIN sections : sections[k] \in Section
    BY <1>1, TextType, SectionsType DEF IInv, TypeOK
  <1>3. TypeOK'
    <2>1. Section' = Section
      BY <1>1 DEF Section
    <2>2. /\ text' \in Texts /\ sections' \in Seq(Section')
          /\ reading' \in {"parse", "createSection", "done"}
      BY <1>1, <2>1 DEF IInv, TypeOK
    <2>3. at' \in 1..(Len(text') + 1)
      BY <1>1, <1>2
    <2>4. inTail' \in BOOLEAN
      BY <1>1
    <2> QED BY <2>2, <2>3, <2>4 DEF TypeOK
  <1>4. reading = "createSection" => ~IsHeader(at)
    BY <1>1 DEF SkipLine, SkipToHeader, IsHeader
  <1>5. SectionsOK'
    <2>1. ValuesFromOwnSection'
      BY <1>1 DEF IInv, SectionsOK, ValuesFromOwnSection, Below, Under, IsHeader, IsProperty
    <2>2. ASSUME NEW k \in DOMAIN sections
          PROVE  IsHeader(sections[k].header) /\ sections[k].header < at + 1
      BY <1>2 DEF IInv, SectionsOK, Section
    <2>3. ASSUME reading = "createSection"
          PROVE  /\ sections # << >>
                 /\ \A j \in (sections[Len(sections)].header + 1)..at : ~IsHeader(j)
      BY <1>2, <1>4, <2>3 DEF IInv, SectionsOK, Section
    <2>4. at' - 1 = at
      BY <1>1, <1>2
    <2> QED BY <1>1, <2>1, <2>2, <2>3, <2>4 DEF SectionsOK, IsHeader
  <1>6. PlainOK'
    <2> SUFFICES ASSUME Plain PROVE PlainOK'
      BY <1>1 DEF PlainOK, Plain, IsHeader
    <2>1. ~inTail
      BY DEF IInv, PlainOK
    <2>2. ~IsHeader(at)
      <3>1. SkipToHeader => ~OpensSection
        BY DEF SkipToHeader
      <3>2. SkipLine => reading = "createSection"
        BY DEF SkipLine
      <3> QED BY <1>4, <2>1, <3>1, <3>2 DEF OpensSection
    <2>3. reading = "parse" => sections = << >>
      BY <2>2 DEF IInv, PlainOK
    <2>4. ASSUME NEW h \in 1..at, IsHeader(h)
          PROVE  \E k \in DOMAIN sections : sections[k].header = h
      BY <1>2, <2>2, <2>4 DEF IInv, PlainOK
    <2>5. ASSUME NEW k \in DOMAIN sections, NEW p \in Property,
                 NEW l \in Below(sections[k].header, p), l < at + 1
          PROVE  l <= sections[k].values[p]
      <3>1. l # at
        <4>1. SkipLine => ~IsProperty(at)
          BY DEF SkipLine, IsProperty
        <4>2. SkipToHeader => FALSE
          BY <2>3 DEF SkipToHeader
        <4> QED BY <4>1, <4>2 DEF Below
      <3>2. l \in 1..Len(text)
        BY <1>2 DEF Below
      <3> QED BY <1>2, <2>5, <3>1, <3>2 DEF IInv, PlainOK
    <2>7. ~inTail' /\ at' - 1 = at /\ (reading' = "parse" => sections' = << >>)
      BY <1>1, <1>2, <2>3
    <2>8. \A k \in DOMAIN sections' : \A p \in Property :
            \A l \in Below(sections[k].header, p)' : l < at' => l <= sections'[k].values[p]
      BY <1>1, <2>5 DEF Below, Under, IsHeader, IsProperty
    <2>9. /\ \A k \in DOMAIN sections' : sections'[k].name = text'[sections'[k].header].name
          /\ \A j, k \in DOMAIN sections' :
               j < k => sections'[j].header < sections'[k].header
      BY <1>1 DEF IInv, PlainOK
    <2>10. \A h \in 1..(at' - 1) :
             IsHeader(h)' => \E k \in DOMAIN sections' : sections'[k].header = h
      BY <1>1, <2>4, <2>7 DEF IsHeader
    <2> QED BY <2>7, <2>8, <2>9, <2>10 DEF PlainOK
  <1> QED BY <1>1, <1>3, <1>5, <1>6 DEF IInv

LEMMA CreateSectionKeeps ==
  ASSUME IInv, CreateSection
  PROVE  IInv'
  <1> USE DEF NextLine, Unread
  <1> DEFINE n == Len(sections) + 1
             new == NewSection(SectionName)
  <1>1. /\ text' = text /\ sections' = Append(sections, new)
        /\ reading = "parse" /\ reading' = "createSection"
        /\ at' = at + 1 /\ at <= Len(text) /\ inTail' = FALSE /\ IsHeader(at)
    BY DEF CreateSection, OpensSection
  <1>2. /\ Len(text) \in Nat /\ at \in 1..Len(text) /\ DOMAIN text = 1..Len(text)
        /\ sections \in Seq(Section)
    BY <1>1, TextType, SectionsType DEF IInv, TypeOK
  <1>3. text[at] \in Header
    BY <1>1, <1>2, TextType DEF IInv
  <1>4. new \in Section
    BY <1>2, <1>3 DEF NewSection, SectionName, Section, Header
  <1>5. /\ Len(sections) \in Nat /\ DOMAIN sections = 1..Len(sections)
        /\ Len(sections') = n /\ DOMAIN sections' = 1..n
        /\ sections'[n] = new /\ \A k \in DOMAIN sections : sections'[k] = sections[k]
        /\ sections' \in Seq(Section) /\ \A k \in DOMAIN sections : sections[k] \in Section
    BY <1>1, <1>2, <1>4
  <1>6. new.header = at /\ \A p \in Property : new.values[p] = 0
    BY DEF NewSection
  <1> HIDE DEF new
  <1>7. TypeOK'
    <2>1. Section' = Section
      BY <1>1 DEF Section
    <2>2. /\ text' \in Texts /\ sections' \in Seq(Section')
          /\ reading' \in {"parse", "createSection", "done"}
      BY <1>1, <1>5, <2>1 DEF IInv, TypeOK
    <2>3. at' \in 1..(Len(text') + 1)
      BY <1>1, <1>2
    <2>4. inTail' \in BOOLEAN
      BY <1>1
    <2> QED BY <2>2, <2>3, <2>4 DEF TypeOK
  <1>8. \A k \in DOMAIN sections : sections[k].header \in 1..(at - 1)
    BY <1>2, <1>5 DEF IInv, SectionsOK, Section
  <1>9. SectionsOK'
    <2>1. ASSUME NEW k \in 1..n, NEW p \in Property
          PROVE  LET l == sections'[k].values[p]
                 IN  l # 0 => l \in Below(sections'[k].header, p)
      <3>1. CASE k = n
        BY <1>5, <1>6, <3>1
      <3>2. CASE k \in DOMAIN sections
        BY <1>5, <3>2 DEF IInv, SectionsOK, ValuesFromOwnSection
      <3> QED BY <1>5, <3>1, <3>2
    <2>2. ValuesFromOwnSection'
      BY <1>1, <1>5, <2>1 DEF ValuesFromOwnSection, Below, Under, IsHeader, IsProperty
    <2>3. ASSUME NEW k \in 1..n
          PROVE  IsHeader(sections'[k].header) /\ sections'[k].header < at + 1
      <3>1. CASE k = n
        BY <1>1, <1>2, <1>5, <1>6, <3>1
      <3>2. CASE k \in DOMAIN sections
        BY <1>2, <1>5, <1>8, <3>2 DEF IInv, SectionsOK
      <3> QED BY <1>5, <3>1, <3>2
    <2>4. (sections'[Len(sections')].header + 1)..at = {}
      BY <1>2, <1>5, <1>6
    <2> QED BY <1>1, <1>2, <1>5, <2>2, <2>3, <2>4 DEF SectionsOK, IsHeader
  <1>10. PlainOK'
    <2> SUFFICES ASSUME Plain PROVE PlainOK'
      BY <1>1 DEF PlainOK, Plain, IsHeader
    <2>1. ~inTail /\ new.name = text[at].name
      BY <1>1, <1>2 DEF IInv, PlainOK, Plain, new, NewSection, SectionName
    <2>2. \A k \in 1..n : sections'[k].name = text[sections'[k].header].name
      BY <1>5, <1>6, <2>1 DEF IInv, PlainOK
    <2>3. ASSUME NEW j \in 1..n, NEW k \in 1..n, j < k
          PROVE  sections'[j].header < sections'[k].header
      <3>1. j \in DOMAIN sections
        BY <1>5, <2>3
      <3>2. CASE k = n
        BY <1>2, <1>5, <1>6, <1>8, <3>1, <3>2
      <3>3. CASE k \in DOMAIN sections
        BY <1>5, <2>3, <3>1, <3>3 DEF IInv, PlainOK
      <3> QED BY <1>5, <3>2, <3>3
    <2>4. ASSUME NEW h \in 1..at, IsHeader(h)
          PROVE  \E k \in 1..n : sections'[k].header = h
      <3>1. CASE h = at
        BY <1>5, <1>6, <3>1
      <3>2. CASE h \in 1..(at - 1)
        BY <1>5, <2>4, <3>2 DEF IInv, PlainOK
      <3> QED BY <1>2, <3>1, <3>2
    <2>5. ASSUME NEW k \in 1..n, NEW p \in Property,
                 NEW l \in Below(sections'[k].header, p), l < at + 1
          PROVE  l <= sections'[k].values[p]
      <3>1. l \in 1..Len(text) /\ sections'[k].header < l /\ IsProperty(l)
        BY <1>2 DEF Below, Under
      <3>2. l # at
        BY <1>1, <3>1 DEF IsProperty, IsHeader
      <3>3. k # n
        BY <1>2, <1>5, <1>6, <2>5, <3>1, <3>2
      <3> QED BY <1>2, <1>5, <2>5, <3>1, <3>2, <3>3 DEF IInv, PlainOK
    <2>6. ~inTail' /\ at' - 1 = at /\ reading' # "parse" /\ DOMAIN sections' = 1..n
      BY <1>1, <1>2, <1>5
    <2>7. \A k \in DOMAIN sections' : \A p \in Property :
            \A l \in Below(sections[k].header, p)' : l < at' => l <= sections'[k].values[p]
      BY <1>1, <2>5, <2>6 DEF Below, Under, IsHeader, IsProperty
    <2>8. /\ \A k \in DOMAIN sections' : sections'[k].name = text'[sections'[k].header].name
          /\ \A j, k \in DOMAIN sections' :
               j < k => sections'[j].header < sections'[k].header
      BY <1>1, <2>2, <2>3, <2>6
    <2>9. \A h \in 1..(at' - 1) :
            IsHeader(h)' => \E k \in DOMAIN sections' : sections'[k].header = h
      BY <1>1, <2>4, <2>6 DEF IsHeader
    <2> QED BY <2>6, <2>7, <2>8, <2>9 DEF PlainOK
  <1> QED BY <1>1, <1>7, <1>9, <1>10 DEF IInv

LEMMA StorePropertyKeeps ==
  ASSUME IInv, StoreProperty
  PROVE  IInv'
  <1> USE DEF NextLine, Unread
  <1> DEFINE n == Len(sections)
             prop == text[at].property
  <1>1. /\ text' = text /\ reading = "createSection" /\ reading' = reading
        /\ sections' = [sections EXCEPT ![n].values = Stored(@)]
        /\ at' = at + 1 /\ at <= Len(text) /\ inTail' = FALSE
        /\ IsProperty(at) /\ ~IsHeader(at)
    BY DEF StoreProperty, IsProperty, IsHeader
  <1>2. /\ Len(text) \in Nat /\ at \in 1..Len(text) /\ DOMAIN text = 1..Len(text)
        /\ n \in Nat /\ DOMAIN sections = 1..n /\ sections \in Seq(Section)
        /\ \A k \in 1..n : sections[k] \in Section
    BY <1>1, TextType, SectionsType DEF IInv, TypeOK
  <1>3. n \in 1..n
    <2>1. sections # << >>
      BY <1>1 DEF IInv, SectionsOK
    <2> QED BY <1>2, <2>1
  <1>4. prop \in Property
    <2>1. text[at] \in Assignment
      BY <1>1, <1>2, TextType DEF IInv
    <2> QED BY <2>1 DEF Assignment
  <1> DEFINE values == [sections[n].values EXCEPT ![prop] = at]
  <1>5. sections' = [sections EXCEPT ![n] = [sections[n] EXCEPT !.values = values]]
    BY <1>1, <1>2, <1>3 DEF Stored
  <1>6. /\ values \in [Property -> 0..Len(text)] /\ values[prop] = at
        /\ \A p \in Property : p # prop => values[p] = sections[n].values[p]
    BY <1>2, <1>3, <1>4 DEF Section
  <1> DEFINE new == [sections[n] EXCEPT !.values = values]
  <1>7. /\ new \in Section /\ new.values = values
        /\ new.name = sections[n].name /\ new.header = sections[n].header
    BY <1>2, <1>3, <1>6 DEF Section
  <1>8. /\ DOMAIN sections' = 1..n /\ Len(sections') = n /\ sections'[n] = new
        /\ \A k \in 1..n : k # n => sections'[k] = sections[k]
        /\ sections' \in Seq(Section)
    BY <1>2, <1>3, <1>5, <1>7
  <1>9. /\ \A k \in 1..n : /\ sections'[k].name = sections[k].name
                           /\ sections'[k].header = sections[k].header
        /\ \A k \in 1..n : k # n => sections'[k].values = sections[k].values
        /\ sections'[n].values = values
    BY <1>3, <1>7, <1>8
  <1> HIDE DEF new, values, prop
  <1>10. sections[n].header \in 1..(at - 1) /\ Under(sections[n].header, at)
    BY <1>1, <1>2, <1>3 DEF IInv, SectionsOK, Section, Under
  <1>11. TypeOK'
    <2>1. Section' = Section
      BY <1>1 DEF Section
    <2>2. /\ text' \in Texts /\ sections' \in Seq(Section')
          /\ reading' \in {"parse", "createSection", "done"}
      BY <1>1, <1>8, <2>1 DEF IInv, TypeOK
    <2>3. at' \in 1..(Len(text') + 1)
      BY <1>1, <1>2
    <2>4. inTail' \in BOOLEAN
      BY <1>1
    <2> QED BY <2>2, <2>3, <2>4 DEF TypeOK
  <1>12. \A h, p : Below(h, p)' = Below(h, p)
    BY <1>1 DEF Below, Under, IsHeader, IsProperty
  <1>13. SectionsOK'
    <2>1. ASSUME NEW k \in 1..n, NEW p \in Property, sections'[k].values[p] # 0
          PROVE  sections'[k].values[p] \in Below(sections[k].header, p)
      <3>1. CASE k = n /\ p = prop
        <4>1. sections'[k].values[p] = at /\ text[at].property = p
          BY <1>6, <1>9, <3>1 DEF prop
        <4> QED BY <1>1, <1>2, <1>10, <3>1, <4>1 DEF Below
      <3>2. CASE k # n \/ p # prop
        <4>1. sections'[k].values[p] = sections[k].values[p]
          BY <1>6, <1>9, <3>2
        <4> QED BY <1>2, <2>1, <4>1 DEF IInv, SectionsOK, ValuesFromOwnSection
      <3> QED BY <3>1, <3>2
    <2>2. ValuesFromOwnSection'
      BY <1>8, <1>9, <1>12, <2>1 DEF ValuesFromOwnSection
    <2>3. ASSUME NEW k \in 1..n
          PROVE  IsHeader(sections'[k].header) /\ sections'[k].header < at + 1
      <3>1. IsHeader(sections[k].header) /\ sections[k].header < at
        BY <1>2 DEF IInv, SectionsOK
      <3>2. sections[k].header \in Int
        BY <1>2 DEF Section
      <3>3. sections'[k].header = sections[k].header
        BY <1>9
      <3>4. at \in Int
        BY <1>2
      <3> QED BY <3>1, <3>2, <3>3, <3>4 DEF IsHeader
    <2>4. \A j \in (sections[n].header + 1)..at : ~IsHeader(j)
      BY <1>1, <1>2, <1>10 DEF IInv, SectionsOK
    <2>5. at' - 1 = at /\ sections' # << >>
      BY <1>1, <1>2, <1>3, <1>8
    <2> QED BY <1>1, <1>3, <1>8, <1>9, <2>2, <2>3, <2>4, <2>5 DEF SectionsOK, IsHeader
  <1>14. PlainOK'
    <2> SUFFICES ASSUME Plain PROVE PlainOK'
      BY <1>1 DEF PlainOK, Plain, IsHeader
    <2>1. ~inTail' /\ at' - 1 = at /\ reading' # "parse"
      BY <1>1, <1>2
    <2>2. ASSUME NEW k \in 1..n, NEW p \in Property,
                 NEW l \in Below(sections[k].header, p), l < at + 1
          PROVE  l <= sections'[k].values[p]
      <3>1. l \in 1..Len(text) /\ Under(sections[k].header, l) /\ text[l].property = p
        BY <1>2 DEF Below
      <3>2. CASE k = n /\ p = prop
        <4>1. sections'[k].values[p] = at
          BY <1>6, <1>9, <3>2
        <4>2. l <= at
          <5>1. l \in Int /\ at \in Int
            BY <1>2, <3>1
          <5> QED BY <2>2, <5>1
        <4> QED BY <4>1, <4>2
      <3>3. CASE l # at /\ (k # n \/ p # prop)
        <4>1. sections'[k].values[p] = sections[k].values[p]
          BY <1>6, <1>9, <3>3
        <4>2. l < at
          <5>1. l \in Int /\ at \in Int
            BY <1>2, <3>1
          <5> QED BY <2>2, <3>3, <5>1
        <4>3. l <= sections[k].values[p]
          BY <1>2, <4>2 DEF IInv, PlainOK
        <4> QED BY <4>1, <4>3
      <3>4. CASE l = at /\ k # n
        <4>1. sections[k].header < sections[n].header
          <5>1. \A i, j \in DOMAIN sections : i < j => sections[i].header < sections[j].header
            BY DEF IInv, PlainOK
          <5>2. n \in Nat /\ DOMAIN sections = 1..n
            BY <1>2
          <5> HIDE DEF n
          <5>3. k \in DOMAIN sections /\ n \in DOMAIN sections /\ k < n
            BY <5>2, <1>3, <3>4
          <5> QED BY <5>1, <5>3
        <4>2. IsHeader(sections[n].header)
          BY <1>2, <1>3 DEF IInv, SectionsOK
        <4>3. sections[k].header \in Int
          BY <1>2 DEF Section
        <4>4. sections[n].header \in (sections[k].header + 1)..(at - 1)
          BY <1>2, <1>10, <4>1, <4>3
        <4>5. \A j \in (sections[k].header + 1)..(l - 1) : ~IsHeader(j)
          BY <3>1 DEF Under
        <4> QED BY <3>4, <4>2, <4>4, <4>5
      <3>5. CASE l = at /\ p # prop
        BY <3>1, <3>5 DEF prop
      <3> QED BY <3>2, <3>3, <3>4, <3>5
    <2>3. /\ \A k \in DOMAIN sections' : sections'[k].name = text'[sections'[k].header].name
          /\ \A j, k \in DOMAIN sections' :
               j < k => sections'[j].header < sections'[k].header
      BY <1>1, <1>2, <1>8, <1>9 DEF IInv, PlainOK
    <2>4. ASSUME NEW h \in 1..at, IsHeader(h)
          PROVE  \E k \in 1..n : sections[k].header = h
      BY <1>1, <1>2, <2>4 DEF IInv, PlainOK
    <2>5. \A h \in 1..(at' - 1) :
            IsHeader(h)' => \E k \in DOMAIN sections' : sections'[k].header = h
      BY <1>1, <1>8, <1>9, <2>1, <2>4 DEF IsHeader
    <2>6. \A k \in DOMAIN sections' : \A p \in Property :
            \A l \in Below(sections[k].header, p)' : l < at' => l <= sections'[k].values[p]
      <3>1. \A k \in 1..n : \A p \in Property :
              Below(sections[k].header, p)' = Below(sections[k].header, p)
        BY <1>1, <1>9 DEF Below, Under, IsHeader, IsProperty
      <3> QED BY <1>1, <1>8, <2>2, <3>1
    <2> QED BY <2>1, <2>3, <2>5, <2>6 DEF PlainOK
  <1> QED BY <1>1, <1>11, <1>13, <1>14 DEF IInv

LEMMA ReturningKeeps ==
  ASSUME IInv, PutBack \/ EndOfText
  PROVE  IInv'
  <1>1. /\ text' = text /\ sections' = sections /\ at' = at
        /\ reading' \in {"parse", "done"}
        /\ reading' = "parse" => Unread /\ IsHeader(at) /\ inTail' = text[at].commented
        /\ reading' = "done" => ~Unread /\ inTail' = inTail
    BY DEF PutBack, EndOfText, Unget
  <1>2. /\ Len(text) \in Nat /\ DOMAIN text = 1..Len(text) /\ at \in 1..(Len(text) + 1)
    BY TextType DEF IInv, TypeOK
  <1>3. TypeOK'
    <2>1. Section' = Section
      BY <1>1 DEF Section
    <2>2. /\ text' \in Texts /\ sections' \in Seq(Section')
          /\ reading' \in {"parse", "createSection", "done"}
      BY <1>1, <2>1 DEF IInv, TypeOK
    <2>3. at' \in 1..(Len(text') + 1)
      BY <1>1, <1>2
    <2>4. inTail' \in BOOLEAN
      <3>1. Unread /\ IsHeader(at) => text[at].commented \in BOOLEAN
        BY <1>2, TextType DEF IInv, Unread, Header
      <3> QED BY <1>1, <3>1 DEF IInv, TypeOK
    <2> QED BY <2>2, <2>3, <2>4 DEF TypeOK
  <1>4. SectionsOK'
    BY <1>1 DEF IInv, SectionsOK, ValuesFromOwnSection, Below, Under, IsHeader, IsProperty
  <1>5. PlainOK'
    <2> SUFFICES ASSUME Plain PROVE PlainOK'
      BY <1>1 DEF PlainOK, Plain, IsHeader
    <2>1. ~inTail'
      BY <1>1, <1>2 DEF IInv, PlainOK, Plain, Unread
    <2> QED BY <1>1, <2>1
         DEF IInv, PlainOK, Plain, Below, Under, IsHeader, IsProperty, Unread
  <1> QED BY <1>1, <1>3, <1>4, <1>5 DEF IInv, Unread

LEMMA StutterKeeps ==
  ASSUME IInv, UNCHANGED vars
  PROVE  IInv'
  BY DEF vars, IInv, TypeOK, Section, SectionsOK, ValuesFromOwnSection, PlainOK, Plain,
         Below, Under, IsHeader, IsProperty, Unread

(* The inductive invariant of the parser. *)
THEOREM ParserInvariant == Spec => []IInv
  <1>1. IInv /\ [Next]_vars => IInv'
    BY SkippingKeeps, CreateSectionKeeps, StorePropertyKeeps, ReturningKeeps, StutterKeeps
    DEF Next
  <1> QED BY InitIInv, <1>1, PTL DEF Spec

(* The parser's state has its types, for every text. *)
THEOREM ParserTypeCorrect == Spec => []TypeOK
  <1>1. IInv => TypeOK
    BY DEF IInv
  <1> QED BY ParserInvariant, <1>1, PTL

(* Every value a section holds is a line right below its header, whatever  *)
(* the text and its comments: what createSection stores, for all texts.    *)
THEOREM OwnValues == Spec => []ValuesFromOwnSection
  <1>1. IInv => ValuesFromOwnSection
    BY DEF IInv, SectionsOK
  <1> QED BY ParserInvariant, <1>1, PTL

-----------------------------------------------------------------------------
(* the first and the last of a set of numbers *)

LEMMA FirstIs ==
  ASSUME NEW K \in SUBSET Nat, NEW m \in K, \A j \in K : m <= j
  PROVE  First(K) = m
  <1>1. \A a, b \in K : a <= b /\ b <= a => a = b
    OBVIOUS
  <1> QED BY <1>1 DEF First

LEMMA LastIs ==
  ASSUME NEW K \in SUBSET Nat, NEW m \in K, \A j \in K : j <= m
  PROVE  Last(K) = m
  <1>1. \A a, b \in K : a <= b /\ b <= a => a = b
    OBVIOUS
  <1> QED BY <1>1 DEF Last

LEMMA HasFirst ==
  ASSUME NEW K \in SUBSET Nat, K # {}
  PROVE  \E m \in K : \A j \in K : m <= j
  <1> DEFINE Less == OpToRel(<, Nat)
  <1>1. IsWellFoundedOn(Less, Nat)
    BY NatLessThanWellFounded
  <1>2. \A a, b \in Nat : <<a, b>> \in Less <=> a < b
    BY DEF OpToRel
  <1> HIDE DEF Less
  <1>3. PICK m \in K : \A j \in K : <<j, m>> \notin Less
    BY <1>1, WFMin
  <1>4. ASSUME NEW j \in K PROVE m <= j
    <2>1. j \in Nat /\ m \in Nat
      OBVIOUS
    <2>2. ~(j < m)
      BY <1>2, <1>3, <2>1
    <2> QED BY <2>1, <2>2
  <1> QED BY <1>4

(* at the end, the sections that have a property are the headers that give *)
(* it, in the same order, and their values are the lines meant             *)
LEMMA FoundIsMeant ==
  ASSUME IInv, reading = "done", Plain, NEW name \in Name, NEW p \in Property
  PROVE  GetString(name, p, None) = Meant(name, p)
  <1> DEFINE K == Having(name, p)
             H == Giving(name, p)
  <1>1. /\ Len(text) \in Nat /\ DOMAIN text = 1..Len(text) /\ at = Len(text) + 1
        /\ DOMAIN sections = 1..Len(sections) /\ Len(sections) \in Nat
        /\ \A k \in DOMAIN sections : sections[k] \in Section
    BY TextType, SectionsType DEF IInv, TypeOK, Unread
  <1>2. K \in SUBSET Nat /\ H \in SUBSET Nat
    BY <1>1 DEF Having, Giving
  <1>3. ASSUME NEW k \in DOMAIN sections, Below(sections[k].header, p) # {}
        PROVE  /\ sections[k].values[p] \in Below(sections[k].header, p)
               /\ Last(Below(sections[k].header, p)) = sections[k].values[p]
    <2> DEFINE B == Below(sections[k].header, p)
               v == sections[k].values[p]
    <2>1. B \in SUBSET Nat /\ \A l \in B : l \in 1..Len(text)
      BY <1>1 DEF Below
    <2>2. v \in Nat
      BY <1>1 DEF Section
    <2>3. \A l \in B : l <= v
      BY <1>1, <2>1 DEF IInv, PlainOK
    <2>4. v # 0
      BY <1>3, <2>1, <2>3
    <2>5. v \in B
      BY <2>4 DEF IInv, SectionsOK, ValuesFromOwnSection
    <2> HIDE DEF B, v
    <2>6. Last(B) = v
      BY <2>1, <2>3, <2>5, LastIs
    <2> QED BY <2>5, <2>6 DEF B, v
  <1>4. ASSUME NEW k \in K
        PROVE  sections[k].header \in H
    <2>1. k \in DOMAIN sections /\ sections[k].name = name /\ sections[k].values[p] # 0
      BY DEF Having
    <2>2. sections[k].values[p] \in Below(sections[k].header, p)
      BY <2>1 DEF IInv, SectionsOK, ValuesFromOwnSection
    <2>3. sections[k].header \in DOMAIN text /\ IsHeader(sections[k].header)
      BY <1>1, <2>1 DEF IInv, SectionsOK, Section
    <2>4. text[sections[k].header].name = name
      BY <2>1 DEF IInv, PlainOK
    <2> QED BY <2>2, <2>3, <2>4 DEF Giving
  <1>5. ASSUME NEW h \in H
        PROVE  \E k \in K : sections[k].header = h
    <2>1. h \in DOMAIN text /\ IsHeader(h) /\ text[h].name = name /\ Below(h, p) # {}
      BY DEF Giving
    <2>2. h \in 1..(at - 1)
      BY <1>1, <2>1
    <2>3. PICK k \in DOMAIN sections : sections[k].header = h
      BY <2>1, <2>2 DEF IInv, PlainOK
    <2>4. sections[k].values[p] \in DOMAIN text
      BY <1>3, <2>1, <2>3 DEF Below
    <2>5. sections[k].values[p] # 0 /\ sections[k].name = name
      BY <1>1, <2>1, <2>3, <2>4 DEF IInv, PlainOK
    <2> QED BY <2>3, <2>5 DEF Having
  <1>6. CASE K = {}
    <2>1. H = {}
      BY <1>5, <1>6
    <2> QED BY <1>6, <2>1 DEF GetString, Found, Meant
  <1>7. CASE K # {}
    <2>1. PICK k \in K : \A j \in K : k <= j
      BY <1>2, <1>7, HasFirst
    <2> DEFINE h == sections[k].header
    <2>2. k \in DOMAIN sections /\ h \in H
      BY <1>4 DEF Having
    <2>3. ASSUME NEW g \in H PROVE h <= g
      <3>1. PICK j \in K : sections[j].header = g
        BY <1>5
      <3>2. j \in DOMAIN sections /\ k <= j
        BY <2>1 DEF Having
      <3>3. k < j => h < g
        BY <2>2, <3>1, <3>2 DEF IInv, PlainOK
      <3>4. k = j => h = g
        BY <3>1
      <3>5. h \in Nat /\ g \in Nat /\ k \in Nat /\ j \in Nat
        BY <1>1, <1>2, <2>2
      <3> QED BY <3>2, <3>3, <3>4, <3>5
    <2>4. First(H) = h
      <3> HIDE DEF H, h
      <3> QED BY <1>2, <2>2, <2>3, FirstIs
    <2>5. First(K) = k
      <3> HIDE DEF K
      <3> QED BY <1>2, <2>1, FirstIs
    <2>6. Below(h, p) # {}
      BY <2>2 DEF Giving
    <2>7. Last(Below(h, p)) = sections[k].values[p] /\ sections[k].values[p] # 0
      BY <1>3, <2>2, <2>6 DEF Having
    <2>8. Found(name, p) = sections[k].values[p]
      BY <1>7, <2>5 DEF Found
    <2>9. H # {}
      BY <2>2
    <2> QED BY <2>4, <2>7, <2>8, <2>9 DEF GetString, Meant
  <1> QED BY <1>6, <1>7

(* In a text whose headers carry no comment the getters return what the    *)
(* text gives by its line numbers, for all texts, names and properties.    *)
THEOREM LookupsFindMeant == Spec => []LookupMatchesText
  <1>1. IInv => LookupMatchesText
    BY FoundIsMeant DEF LookupMatchesText
  <1> QED BY ParserInvariant, <1>1, PTL

-----------------------------------------------------------------------------
(* The program that calls the parser                                       *)

(* the pointer and the left button, against the history of both *)
DragOK ==
  /\ ~unsureDrag => (leftPressed <=> left)
  /\ old_mouse = before

InputInv == InputTypeOK /\ KeysFollowHands /\ DragOK

LEMMA IdleInv ==
  ASSUME Idle, phase \in {"config", "messages"}, rate \in BOOLEAN, timer \in {"none", "set"}
  PROVE  InputInv
  BY PointAssumption DEF Idle, Still, InputInv, InputTypeOK, KeysFollowHands, DragOK, Character

LEMMA KeyboardKeeps ==
  ASSUME InputInv, Keyboard
  PROVE  InputInv'
  <1> USE DEF InputInv, InputTypeOK, KeysFollowHands, DragOK, Character, AtKey,
              mouseVars, pointerVars, clockVars
  <1>1. ASSUME NEW k \in Key, Press(k) PROVE InputInv'
    BY <1>1 DEF Press, KeyDown
  <1>2. ASSUME NEW k \in Key, Repeat(k) PROVE InputInv'
    BY <1>2 DEF Repeat, KeyDown
  <1>3. ASSUME NEW k \in Key, Release(k) PROVE InputInv'
    BY <1>3 DEF Release, KeyUp
  <1>4. ASSUME NEW k \in Key, Unheard(k) PROVE InputInv'
    BY <1>4 DEF Unheard
  <1>5. CASE Shift
    BY <1>5 DEF Shift
  <1>6. CASE Focus
    BY <1>6 DEF Focus
  <1> QED BY <1>1, <1>2, <1>3, <1>4, <1>5, <1>6 DEF Keyboard

LEMMA MouseKeeps ==
  ASSUME InputInv, Mouse
  PROVE  InputInv'
  <1> USE DEF InputInv, InputTypeOK, KeysFollowHands, DragOK, AtMouse, MousePressed,
              keyVars, pointerVars, clockVars
  <1>1. CASE LeftDown
    BY <1>1 DEF LeftDown
  <1>2. CASE OtherDown
    BY <1>2 DEF OtherDown
  <1>3. CASE LeftUp
    BY <1>3 DEF LeftUp
  <1>4. CASE OtherUp
    BY <1>4 DEF OtherUp
  <1>5. CASE Elsewhere
    <2>1. /\ UNCHANGED <<phase, rate, timer, later, steering, keystatus, down, shift, focus, unsure>>
          /\ UNCHANGED <<leftPressed, captured, pointerVars>>
      BY <1>5 DEF Elsewhere
    <2>2. /\ left' \in BOOLEAN /\ other' \in BOOLEAN /\ unsureDrag' \in BOOLEAN
          /\ unsureDrag' \/ (left' = left /\ unsureDrag' = unsureDrag)
      BY <1>5 DEF Elsewhere
    <2> QED BY <2>1, <2>2
  <1>6. CASE CaptureLost
    <2>1. /\ UNCHANGED <<phase, keyVars, clockVars>>
          /\ UNCHANGED <<leftPressed, left, other, unsureDrag, pointerVars>>
          /\ captured' = FALSE
      BY <1>6 DEF CaptureLost
    <2>2. InputTypeOK'
      <3>1. captured' \in BOOLEAN
        BY <2>1
      <3> QED BY <2>1, <3>1
    <2>3. KeysFollowHands' /\ DragOK'
      BY <2>1
    <2> QED BY <2>2, <2>3
  <1>7. CASE Motion
    BY <1>7 DEF Motion
  <1> QED BY <1>1, <1>2, <1>3, <1>4, <1>5, <1>6, <1>7 DEF Mouse

LEMMA TurnKeeps ==
  ASSUME InputInv, Turn \/ Close \/ Tick
  PROVE  InputInv'
  <1> USE DEF InputInv, InputTypeOK, KeysFollowHands, DragOK, keyVars, mouseVars,
              pointerVars, clockVars
  <1>1. CASE CheckTimers
    BY <1>1 DEF CheckTimers
  <1>2. CASE Update
    BY <1>2 DEF Update, Steer, Steered, SetTimer
  <1>3. CASE EndTurn
    BY <1>3 DEF EndTurn
  <1>4. CASE Close
    BY <1>4 DEF Close
  <1>5. CASE Tick
    BY <1>5 DEF Tick
  <1> QED BY <1>1, <1>2, <1>3, <1>4, <1>5 DEF Turn

LEMMA InputStutter ==
  ASSUME InputInv, UNCHANGED inputVars
  PROVE  InputInv'
  BY DEF InputInv, InputTypeOK, KeysFollowHands, DragOK, inputVars, keyVars, mouseVars,
         pointerVars, clockVars

-----------------------------------------------------------------------------
(* Both halves, through the whole program *)

ProgramInv == IInv /\ InputInv

LEMMA ProgramInitInv == ProgramInit => ProgramInv
  BY InitIInv, IdleInv DEF ProgramInit, ProgramInv

(* config returns: the parser is as it would be for a missing file *)
LEMMA RunKeeps ==
  ASSUME ProgramInv, Run
  PROVE  ProgramInv'
  <1>1. /\ text' = << >> /\ at' = 1 /\ inTail' = FALSE /\ sections' = << >>
        /\ reading' = "done" /\ phase' = "messages" /\ timer' = "set" /\ rate' \in BOOLEAN
        /\ UNCHANGED <<later, steering, keyVars, mouseVars>>
    BY DEF Run, UpdateRate
  <1>2. TypeOK'
    <2>1. sections' \in Seq(Section') /\ Len(text') = 0
      BY <1>1
    <2>2. text' \in Texts /\ at' \in 1..(Len(text') + 1)
      BY <1>1, <2>1, MissingAssumption
    <2> QED BY <1>1, <2>1, <2>2 DEF TypeOK
  <1>3. SectionsOK' /\ PlainOK' /\ ~Unread'
    BY <1>1 DEF SectionsOK, PlainOK, ValuesFromOwnSection, Unread
  <1>4. InputInv'
    BY <1>1 DEF ProgramInv, InputInv, InputTypeOK, KeysFollowHands, DragOK, keyVars, mouseVars,
            pointerVars
  <1> QED BY <1>1, <1>2, <1>3, <1>4 DEF IInv, ProgramInv

LEMMA ProgramNextInv == ProgramInv /\ [ProgramNext]_programVars => ProgramInv'
  <1> SUFFICES ASSUME ProgramInv, [ProgramNext]_programVars PROVE ProgramInv'
    OBVIOUS
  <1>1. CASE Parse
    <2>1. IInv'
      BY <1>1, SkippingKeeps, CreateSectionKeeps, StorePropertyKeeps, ReturningKeeps
      DEF Parse, Next, ProgramInv
    <2> QED BY <1>1, <2>1, InputStutter DEF Parse, ProgramInv
  <1>2. CASE Run
    BY <1>2, RunKeeps
  <1>3. CASE InLoop
    <2>1. InputInv'
      BY <1>3, KeyboardKeeps, MouseKeeps, TurnKeeps DEF InLoop, InputNext, ProgramInv
    <2> QED BY <1>3, <2>1, StutterKeeps DEF InLoop, fileVars, ProgramInv
  <1>4. CASE UNCHANGED programVars
    BY <1>4, StutterKeeps, InputStutter DEF programVars, fileVars, ProgramInv
  <1> QED BY <1>1, <1>2, <1>3, <1>4 DEF ProgramNext

(* The parser's invariant in config, and that keystatus and the mouse are  *)
(* what the hands do where nothing went unreported.                        *)
THEOREM ProgramInvariant == ProgramSpec => []ProgramInv
  <1> QED BY ProgramInitInv, ProgramNextInv, PTL DEF ProgramSpec

(* No value moves to another section while engine.ini is read. *)
THEOREM ProgramOwnValues == ProgramSpec => []ValuesFromOwnSection
  <1>1. ProgramInv => ValuesFromOwnSection
    BY DEF ProgramInv, IInv, SectionsOK
  <1> QED BY ProgramInvariant, <1>1, PTL

(* config finds what the text of engine.ini gives, for all plain texts. *)
THEOREM ProgramLookups == ProgramSpec => []LookupMatchesText
  <1>1. ProgramInv => LookupMatchesText
    BY FoundIsMeant DEF LookupMatchesText, ProgramInv
  <1> QED BY ProgramInvariant, <1>1, PTL

(* The rate of the timer is the one the file gives, for all plain texts. *)
THEOREM TimerRuns == ProgramSpec => RateAsGiven
  <1>1. ASSUME ProgramInv, Run, Plain, Meant(Dimensions, LogicUpdateRate) \in Number
        PROVE  rate' = (Meant(Dimensions, LogicUpdateRate) # Zero)
    <2>1. GetString(Dimensions, LogicUpdateRate, None) = Meant(Dimensions, LogicUpdateRate)
      BY <1>1, FoundIsMeant, EngineIniAssumption DEF ProgramInv, Run
    <2> QED BY <1>1, <2>1 DEF Run, UpdateRate
  <1>2. ProgramInv /\ [ProgramNext]_programVars =>
          [Run /\ Plain /\ Meant(Dimensions, LogicUpdateRate) \in Number
             => rate' = (Meant(Dimensions, LogicUpdateRate) # Zero)]_programVars
    BY <1>1
  <1> QED BY <1>2, ProgramInvariant, PTL DEF ProgramSpec, RateAsGiven

(* A key sticks only after it or the shift key was moved unreported, for   *)
(* any number of keys held together.                                       *)
THEOREM KeysFollow == ProgramSpec => []KeysFollowHands
  <1>1. ProgramInv => KeysFollowHands
    BY DEF ProgramInv, InputInv
  <1> QED BY ProgramInvariant, <1>1, PTL

(* The camera turns exactly at updates that find the left button down and  *)
(* the pointer moved since the update before (FirstPersonCamera::update),  *)
(* for any points, keys and order of messages, unless the button went down *)
(* or up unreported.                                                       *)
THEOREM TurnsByButton == ProgramSpec => TurnsIfHeldAndMoved
  <1> DEFINE Turned == /\ steering'.turn => coords # before
                       /\ ~unsureDrag => (steering'.turn <=> left /\ coords # before)
  <1>1. ASSUME ProgramInv, Update PROVE Turned
    <2>1. steering'.turn <=> (leftPressed /\ coords # before)
      <3>1. steering' = Steered /\ old_mouse = before
        BY <1>1 DEF ProgramInv, InputInv, DragOK, Update, Steer
      <3> QED BY <3>1 DEF Steered
    <2>2. ~unsureDrag => (leftPressed <=> left)
      BY <1>1 DEF ProgramInv, InputInv, DragOK, InputTypeOK
    <2> QED BY <2>1, <2>2
  <1>2. ProgramInv /\ [ProgramNext]_programVars => [Update => Turned]_inputVars
    BY <1>1
  <1> QED BY <1>2, ProgramInvariant, PTL DEF ProgramSpec, TurnsIfHeldAndMoved
=============================================================================
