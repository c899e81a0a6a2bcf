----------------------------- MODULE IniParser -----------------------------
(***************************************************************************)
(* ini::Parser: parse() looks for the line of a section header, then       *)
(* createSection reads properties until the next header, which it puts     *)
(* back character by character for parse() to find.  It counts the         *)
(* characters of the line without its comment, so that behind a header     *)
(* with a comment the stream stands inside the line, where only the tail   *)
(* of the line is read again.                                              *)
(*                                                                         *)
(* A text is a sequence of lines.  A header of a commented line has no     *)
(* name any program asks for (None) when parse() reads it from its start:  *)
(* the name is cut out of the whole line.  "tail" is the section the tail  *)
(* of such a line names, when it happens to begin with a bracket.  A file  *)
(* that is missing reads as an empty text.  Whether the header of a last   *)
(* line without an end of line is put back depends on the library; its     *)
(* section would be empty, and it is modelled as put back.                 *)
(***************************************************************************)
EXTENDS Integers, Sequences, FiniteSets

CONSTANTS
  Texts,      \* the files that may be read
  Name,       \* of sections
  Property,
  Word,       \* values are sequences of words
  None

ASSUME NoneAssumption == None \notin Name

Header == [kind : {"header"}, name : Name, commented : BOOLEAN, tail : Name \cup {None}]
Assignment == [kind : {"property"}, property : Property, value : Seq(Word)]
Other == [kind : {"other"}]     \* blank, a comment, without "=", or indented
Line == Header \cup Assignment \cup Other

ASSUME TextsAssumption == Texts \subseteq Seq(Line)

VARIABLES
  text,
  at,         \* the line the stream is in
  inTail,     \* it stands in the tail of that line
  reading,    \* the function that reads on
  sections    \* Parser::sections; a value is the number of its line, or 0

vars == <<text, at, inTail, reading, sections>>

IsHeader(l) == text[l].kind = "header"
IsProperty(l) == text[l].kind = "property"
Unread == at <= Len(text)

(* str.substr(1, size - 2) of a line parse() has read *)
SectionName == IF inTail THEN text[at].tail
               ELSE IF text[at].commented THEN None ELSE text[at].name

(* the line, or what is left of it, begins with a bracket *)
OpensSection == IsHeader(at) /\ (inTail => text[at].tail # None)

NextLine == at' = at + 1 /\ inTail' = FALSE

NewSection(name) == [name |-> name, header |-> at, values |-> [p \in Property |-> 0]]

Init ==
  /\ text \in Texts
  /\ at = 1 /\ inTail = FALSE
  /\ reading = "parse"
  /\ sections = << >>

(* parse() finds a header and calls createSection *)
CreateSection ==
  /\ reading = "parse" /\ Unread /\ OpensSection
  /\ sections' = Append(sections, NewSection(SectionName))
  /\ reading' = "createSection"
  /\ NextLine
  /\ UNCHANGED text

(* parse() reads any other line *)
SkipToHeader ==
  /\ reading = "parse" /\ Unread /\ ~OpensSection
  /\ NextLine
  /\ UNCHANGED <<text, reading, sections>>

(* sec.values[propName] = value *)
Stored(values) == [values EXCEPT ![text[at].property] = at]

StoreProperty ==
  /\ reading = "createSection" /\ Unread /\ IsProperty(at)
  /\ sections' = [sections EXCEPT ![Len(sections)].values = Stored(@)]
  /\ NextLine
  /\ UNCHANGED <<text, reading>>

SkipLine ==
  /\ reading = "createSection" /\ Unread /\ text[at].kind = "other"
  /\ NextLine
  /\ UNCHANGED <<text, reading, sections>>

(* fault: one character too few, the bracket is not read again *)
Unget_OneShort == at' = at /\ inTail' = TRUE
(* in.unget() for every character of str and the end of line *)
Unget == at' = at /\ inTail' = text[at].commented

(* fault: createSection puts it back and does not return *)
PutBack_GoesOn ==
  /\ reading = "createSection" /\ Unread /\ IsHeader(at)
  /\ Unget
  /\ UNCHANGED <<text, reading, sections>>
(* fault: createSection skips it as any other line *)
PutBack_Skips ==
  /\ reading = "createSection" /\ Unread /\ IsHeader(at)
  /\ NextLine
  /\ UNCHANGED <<text, reading, sections>>
(* createSection meets the next header, puts it back and returns *)
PutBack ==
  /\ reading = "createSection" /\ Unread /\ IsHeader(at)
  /\ Unget
  /\ reading' = "parse"
  /\ UNCHANGED <<text, sections>>

(* getline fails in createSection, and then in parse() *)
EndOfText ==
  /\ reading # "done" /\ ~Unread
  /\ reading' = "done"
  /\ UNCHANGED <<text, at, inTail, sections>>

Next == \/ CreateSection \/ SkipToHeader \/ StoreProperty \/ SkipLine
        \/ PutBack \/ EndOfText

Spec == Init /\ [][Next]_vars

-----------------------------------------------------------------------------
(* The getters *)

(* the sections getValue finds the property in *)
Having(name, p) ==
  {k \in DOMAIN sections : sections[k].name = name /\ sections[k].values[p] # 0}

First(K) == CHOOSE k \in K : \A j \in K : k <= j
Last(K) == CHOOSE k \in K : \A j \in K : j <= k

(* getValue: the line it takes the value from, or 0 *)
Found(name, p) ==
  IF Having(name, p) = {} THEN 0 ELSE sections[First(Having(name, p))].values[p]

(* getProperty: an empty value is no value, of several words the first is  *)
(* read                                                                    *)
GetString(name, p, default) ==
  IF Found(name, p) = 0 THEN default
  ELSE LET value == text[Found(name, p)].value
       IN  IF value = << >> THEN default ELSE Head(value)

-----------------------------------------------------------------------------

Section == [name : Name \cup {None}, header : 1..Len(text),
            values : [Property -> 0..Len(text)]]

TypeOK ==
  /\ text \in Texts
  /\ at \in 1..(Len(text) + 1) /\ inTail \in BOOLEAN
  /\ reading \in {"parse", "createSection", "done"}
  /\ sections \in Seq(Section)

(* the header of line h governs line l: there is no other between them *)
Under(h, l) == h < l /\ IsHeader(h) /\ \A j \in (h + 1)..(l - 1) : ~IsHeader(j)

(* the lines below header h that give property p *)
Below(h, p) == {l \in DOMAIN text : Under(h, l) /\ IsProperty(l) /\ text[l].property = p}

(* Whatever the text and its comments, a value stored in a section is one  *)
(* of the lines right below its header: what a misread header loses is     *)
(* never taken for a part of the section before it.                        *)
ValuesFromOwnSection ==
  \A k \in DOMAIN sections : \A p \in Property :
    LET l == sections[k].values[p]
    IN  l # 0 => l \in Below(sections[k].header, p)

Plain == \A l \in DOMAIN text : IsHeader(l) => ~text[l].commented

(* the headers so named below which the text gives property p *)
Giving(name, p) ==
  {h \in DOMAIN text : IsHeader(h) /\ text[h].name = name /\ Below(h, p) # {}}

(* what the text means: the last line below the first such header *)
Meant(name, p) ==
  IF Giving(name, p) = {} THEN None
  ELSE LET value == text[Last(Below(First(Giving(name, p)), p))].value
       IN  IF value = << >> THEN None ELSE Head(value)

(* In a text whose headers carry no comment, a getter finds the value the  *)
(* text gives, although every header but the first is read twice: getValue *)
(* agrees with the definition by line numbers, for sections that are empty,*)
(* repeated, or hold a property twice.                                     *)
LookupMatchesText ==
  reading = "done" /\ Plain =>
    \A name \in Name, p \in Property : GetString(name, p, None) = Meant(name, p)
=============================================================================
