----------------------------- MODULE SpeechText -----------------------------
(***************************************************************************)
(* The text side of CTTSEngine: BuildSSML turns the fragments of a Speak   *)
(* call into SSML and notes which SSML offset came from which offset of    *)
(* the application's text; FindWord looks up a spoken word in the SSML;    *)
(* MapTextOffset turns an SSML range back into a range of the text.        *)
(*                                                                         *)
(* SSML is a sequence of characters.  A character knows the offset in the  *)
(* application's text it was written for (NoOffset for what BuildSSML      *)
(* made up), which no operator that models code reads.  A tag is three     *)
(* characters, "<", its name and ">"; the letter "a" stands for any letter *)
(* and for the text in a tag or an entity, so that a word can be mistaken  *)
(* for either; "c" is an ideograph, "&" and "'" are characters written as  *)
(* an entity, "'" being one that belongs to no word.  Offsets count from   *)
(* 0, as in the code.                                                      *)
(***************************************************************************)
EXTENDS Integers, Sequences, FiniteSetsExt, SequencesExt

CONSTANT Lower(_)                 \* a name in lower case
EqualsIgnoreCase(a, b) == Lower(a) = Lower(b)

NoOffset == -1
NotFound == -1                    \* npos
NoTag == [dir |-> "none", name |-> "none"]

Made(ch)        == [ch |-> ch, from |-> NoOffset, tag |-> NoTag]
Tag(dir, name)  == <<Made("<"),
                     [Made("a") EXCEPT !.tag = [dir |-> dir, name |-> name]],
                     Made(">")>>
Entity          == <<"&", "a", ";">>
Escaped(ch)     == IF ch \in {"&", "'"} THEN Entity ELSE <<ch>>
XmlEscape(word) == FlattenSeq([i \in DOMAIN word |-> Escaped(word[i])])

(***************************************************************************)
(* A fragment (SPVTEXTFRAG): its action, the offset and the characters of  *)
(* its text, the prosody (0 is the default: no tag), emphasis and context  *)
(* (0: none) in force, and the tag of an unknown-tag fragment.             *)
(***************************************************************************)
Acts == {"Speak", "Silence", "Bookmark", "SpellOut", "Pronounce", "ParseUnknownTag"}
TextFrags ==
    {f \in [act : Acts, at : Nat, text : Seq(STRING), prosody : Nat, emphasis : BOOLEAN,
            context : Nat, tag : [dir : STRING, name : STRING]] :
        f.act = "ParseUnknownTag" => f.tag.dir \in {"self", "open", "close", "bad"}}
Speakable(f) == f.act \in {"Speak", "SpellOut", "Pronounce"}

-----------------------------------------------------------------------------
(***************************************************************************)
(* BuildSSML's locals and the members it fills.                            *)
(***************************************************************************)
Blank(edge) ==
    [edge |-> edge, ssml |-> Tag("open", "speak"),
     mappings |-> <<>>, bookmarks |-> <<>>, hasText |-> FALSE, lastSAPIOffset |-> 0,
     inProsody |-> FALSE, inEmphasis |-> FALSE, inSayAs |-> FALSE,
     customTags |-> <<>>, inCustomTags |-> FALSE, prosodyCount |-> 0]

Write(b, chars)    == [b EXCEPT !.ssml = @ \o chars]
Map(b, sapi)       == [b EXCEPT !.mappings = Append(@, [sapi |-> sapi, ssml |-> Len(b.ssml)])]

\* Tags are opened in their order, and closed from the last to the first.
Opening(names) ==
    LET tags[n \in 0 .. Len(names)] ==
            IF n = 0 THEN <<>> ELSE tags[n - 1] \o Tag("open", names[n])
    IN  tags[Len(names)]
Closing(names) ==
    LET tags[n \in 0 .. Len(names)] ==
            IF n = 0 THEN <<>> ELSE Tag("close", names[n]) \o tags[n - 1]
    IN  tags[Len(names)]

\* The text of a fragment, each entity followed by a mapping of what comes next.
AppendCharacter(b, f, i) ==
    LET chars == Escaped(f.text[i])
        next  == Write(b, [k \in DOMAIN chars |-> [Made(chars[k]) EXCEPT !.from = f.at + i - 1]])
    IN  IF Len(chars) > 1 THEN Map(next, f.at + i) ELSE next

AppendTextFragToSsml(b, f) ==
    LET upTo[n \in 0 .. Len(f.text)] ==
            IF n = 0 THEN b ELSE AppendCharacter(upTo[n - 1], f, n)
    IN  upTo[Len(f.text)]

\* Words of adjacent fragments must not run together; a tag, a space or two
\* ideographs keep them apart.
NeedAddingSpace(ssml, text) ==
    /\ text # <<>>
    /\ Last(ssml).ch \notin {">", " "}
    /\ Last(ssml).ch = "c" => Head(text) \notin {"c", " "}

Spaced(b, f) == IF NeedAddingSpace(b.ssml, f.text) THEN Write(b, <<Made(" ")>>) ELSE b

MappedText(b, f) ==
    Map(AppendTextFragToSsml(Map(b, f.at), f), f.at + Len(f.text))

AddBookmark(b, f) == [b EXCEPT !.bookmarks = Append(@, f.at)]

\* Edge voices reject tags: the text only, and the place of the bookmarks.
EdgeBody(b, f) ==
    IF Speakable(f)
    THEN [MappedText(Spaced(b, f), f) EXCEPT !.lastSAPIOffset = f.at + Len(f.text)]
    ELSE IF f.act = "Bookmark" THEN AddBookmark(Map(b, b.lastSAPIOffset), f)
    ELSE b

\* As if the names of tags were compared letter by letter.
CloseCustomTagExact(b, name) ==
    LET open == {i \in DOMAIN b.customTags : b.customTags[i] = name}
        i    == Max(open)
    IN  IF open = {} THEN b
        ELSE [Write(b, Closing(SubSeq(b.customTags, i, Len(b.customTags))))
                EXCEPT !.customTags = SubSeq(@, 1, i - 1)]

(***************************************************************************)
(* A closing tag closes every tag opened after the one it names, whatever  *)
(* its case, then that one, the way the application has written it;        *)
(* without one it is dropped.  The name of a tag is what GetXMLTagName or  *)
(* GetXMLClosingTagName makes of it: an opening tag that has a space after *)
(* its ">" but none before is kept untrimmed and called "x>", so that its  *)
(* closing tag "x" names nothing, and it is closed as "</x>>", which a     *)
(* reader of XML takes for </x> and one character of text.                 *)
(***************************************************************************)
CloseCustomTag(b, name) ==
    LET open == {i \in DOMAIN b.customTags : EqualsIgnoreCase(b.customTags[i], name)}
        i    == Max(open)
    IN  IF open = {} THEN b
        ELSE [Write(b, Closing(SubSeq(b.customTags, i + 1, Len(b.customTags))) \o Tag("close", name))
                EXCEPT !.customTags = SubSeq(@, 1, i - 1)]

UnknownTag(b, tag) ==
    CASE tag.dir = "self"  -> Write(b, Tag("self", tag.name))
      [] tag.dir = "close" -> CloseCustomTag(b, tag.name)
      [] tag.dir = "bad"   -> b
      [] tag.dir = "open"  -> [Write(b, Tag("open", tag.name))
                                 EXCEPT !.customTags = Append(@, tag.name)]

Body(b, f) ==
    LET Around(name) == Write(MappedText(Write(b, Tag("open", name)), f), Tag("close", name))
    IN  CASE f.act = "Speak"           -> MappedText(Spaced(b, f), f)
          [] f.act = "Silence"         -> Write(b, Tag("self", "break"))
          [] f.act = "Bookmark"        -> AddBookmark(Write(b, Tag("self", "bookmark")), f)
          [] f.act = "SpellOut"        -> Around("say-as")
          [] f.act = "Pronounce"       -> Around("phoneme")
          [] f.act = "ParseUnknownTag" -> UnknownTag(b, f.tag)

-----------------------------------------------------------------------------
(***************************************************************************)
(* The tags around a fragment: prosody, emphasis, the open custom tags,    *)
(* say-as, opened in this order where they are not open yet.               *)
(***************************************************************************)
OpenProsody(b, f) ==
    IF ~b.inProsody /\ (b.edge => Speakable(f)) /\ f.prosody # 0
    THEN [Write(b, Tag("open", "prosody")) EXCEPT !.inProsody = TRUE, !.prosodyCount = @ + 1]
    ELSE b

OpenEmphasis(b, f) ==
    IF ~b.inEmphasis /\ f.emphasis /\ ~b.edge
    THEN [Write(b, Tag("open", "emphasis")) EXCEPT !.inEmphasis = TRUE] ELSE b

ReopenCustomTags(b) ==
    IF b.inCustomTags THEN b
    ELSE [Write(b, Opening(b.customTags)) EXCEPT !.inCustomTags = TRUE]

OpenSayAs(b, f) ==
    IF ~b.inSayAs /\ f.context # 0 /\ f.act = "Speak" /\ ~b.edge
    THEN [Write(b, Tag("open", "say-as")) EXCEPT !.inSayAs = TRUE] ELSE b

\* As if a say-as could go on around another tag.
PreserveAll(b, doc, i) ==
    LET later == {j \in i + 1 .. Len(doc) : b.edge => Speakable(doc[j])}
        f     == doc[i]
        g     == doc[Min(later)]
    IN  IF later = {} \/ ~(f.prosody = g.prosody \/ (b.edge /\ b.prosodyCount >= 2)) THEN 0
        ELSE IF f.emphasis # g.emphasis THEN 1
        ELSE IF f.context = g.context THEN 3 ELSE 2

\* How many of prosody, emphasis with the custom tags, and say-as the next
\* fragment (0: none) can go on with; Edge voices get no third prosody tag.
PreserveTagLevel(b, doc, i) ==
    LET later == {j \in i + 1 .. Len(doc) : b.edge => Speakable(doc[j])}
        f     == doc[i]
        g     == doc[Min(later)]
    IN  IF later = {} \/ ~(f.prosody = g.prosody \/ (b.edge /\ b.prosodyCount >= 2)) THEN 0
        ELSE IF f.emphasis # g.emphasis THEN 1
        ELSE IF f.context = g.context /\ g.act = "Speak" THEN 3 ELSE 2

CloseTags(b, level) ==
    LET sayAs    == b.inSayAs /\ level < 3
        custom   == b.inCustomTags /\ level < 2
        emphasis == b.inEmphasis /\ level < 2
        prosody  == b.inProsody /\ level < 1
    IN  [Write(b, (IF sayAs    THEN Tag("close", "say-as") ELSE <<>>)
               \o (IF custom   THEN Closing(b.customTags) ELSE <<>>)
               \o (IF emphasis THEN Tag("close", "emphasis") ELSE <<>>)
               \o (IF prosody  THEN Tag("close", "prosody") ELSE <<>>))
           EXCEPT !.inSayAs      = IF sayAs THEN FALSE ELSE @,
                  !.inCustomTags = IF custom THEN FALSE ELSE @,
                  !.inEmphasis   = IF emphasis THEN FALSE ELSE @,
                  !.inProsody    = IF prosody THEN FALSE ELSE @]

AddFragment(b, doc, i) ==
    LET f      == doc[i]
        text   == b.hasText \/ (f.act # "Bookmark" /\ f.text # <<>>)
        opened == OpenSayAs(ReopenCustomTags(OpenEmphasis(OpenProsody(
                     [b EXCEPT !.hasText = text], f), f)), f)
        said   == IF b.edge THEN EdgeBody(opened, f) ELSE Body(opened, f)
    IN  CloseTags(said, PreserveTagLevel(said, doc, i))

\* An online voice (Edge or Azure) is named by a tag, an installed one is not.
BuildSSML(doc, online, edge) ==
    LET begin == IF online THEN Write(Blank(edge), Tag("open", "voice")) ELSE Blank(edge)
        upTo[n \in 0 .. Len(doc)] ==
            IF n = 0 THEN begin ELSE AddFragment(upTo[n - 1], doc, n)
    IN  Write(upTo[Len(doc)], (IF online THEN Tag("close", "voice") ELSE <<>>) \o Tag("close", "speak"))

-----------------------------------------------------------------------------
(***************************************************************************)
(* FindWord: the first occurrence of the escaped word from lastPos on that *)
(* is not inside a tag.  Every "<" before it must have its ">"; after an   *)
(* occurrence inside a tag the search goes on at that tag's ">".           *)
(***************************************************************************)
FindWord(ssml, word, lastPos) ==
    LET w == XmlEscape(word)
        n == Len(ssml)
        Hits(s)     == {p \in s .. n - Len(w) : \A k \in DOMAIN w : ssml[p + k].ch = w[k]}
        InTag(s, p) == \E l \in s .. p - 1 : /\ ssml[l + 1].ch = "<"
                                             /\ \A r \in l .. p - 1 : ssml[r + 1].ch # ">"
        Ends(p)     == {r \in p + Len(w) .. n - 1 : ssml[r + 1].ch = ">"}
        find[s \in 0 .. n] ==
            IF Hits(s) = {} THEN NotFound
            ELSE LET p == Min(Hits(s))
                 IN  IF ~InTag(s, p) THEN p
                     ELSE IF Ends(p) = {} THEN NotFound ELSE find[Min(Ends(p))]
    IN  find[lastPos]

(***************************************************************************)
(* ULONG arithmetic.  The code has 32 bits; here the range is scaled to 16 *)
(* bits, far above any offset in a document.  NotFound, cut to a ULONG, is *)
(* the largest one.                                                        *)
(***************************************************************************)
ULong(n) == n % 65536

\* As if an entry began behind its own offset.
AdvanceLate(mappings, index, offset) ==
    Max({j \in index .. Len(mappings) :
            \A k \in index + 1 .. j : offset > mappings[k].ssml})

\* The entry from index on that the offset has reached, all before it too.
Advance(mappings, index, offset) ==
    Max({j \in index .. Len(mappings) :
            \A k \in index + 1 .. j : offset >= mappings[k].ssml})

(***************************************************************************)
(* MapTextOffset: the range of text for SSML range offset, length; the     *)
(* index it found is where the next call starts (here 1 is the first).     *)
(***************************************************************************)
MapTextOffset(mappings, mappingIndex, offset, length) ==
    LET start == IF mappings[mappingIndex].ssml > offset THEN 1 ELSE mappingIndex
        i     == Advance(mappings, start, offset)
        m     == mappings[i]
        sapi  == IF m.ssml > m.sapi /\ offset < m.ssml - m.sapi THEN 0
                 ELSE ULong(offset - m.ssml + m.sapi)
        end   == ULong(offset + length)
        \* back over entries of the same SSML offset that end after the range
        Back(j) == \A k \in j + 1 .. Advance(mappings, i, end) :
                      /\ mappings[k - 1].ssml = mappings[k].ssml
                      /\ mappings[k - 1].sapi >= ULong(sapi + length)
        e     == Min({j \in 1 .. Advance(mappings, i, end) : Back(j)})
    IN  IF mappings = <<>> THEN [index |-> mappingIndex, offset |-> offset, length |-> length]
        ELSE [index |-> i, offset |-> sapi,
              length |-> IF e <= i THEN length
                         ELSE ULong(end - mappings[e].ssml + mappings[e].sapi - sapi)]

-----------------------------------------------------------------------------
(***************************************************************************)
(* What a speech service reads: its words are the longest runs of text     *)
(* characters, ideographs alone when split; its one sentence is the text   *)
(* from the first word to the last, whatever tags are inside; bookmarks    *)
(* are where their tag is.  A range is [first, last], cells counted from 1.*)
(***************************************************************************)
InWord(cell) == cell.from # NoOffset /\ cell.ch # " "

Script(ssml, quotes, split) ==
    LET Word(i)    == i \in DOMAIN ssml /\ InWord(ssml[i]) /\ ssml[i].from \notin quotes
        Joined(i)  == Word(i) /\ Word(i + 1) /\ ~(split /\ ssml[i].ch = "c" /\ ssml[i + 1].ch = "c")
        Starts(i)  == Word(i) /\ ~Joined(i - 1)
        EndOf(i)   == Min({j \in i .. Len(ssml) : ~Joined(j)})
        Mark(i)    == ssml[i].tag.name = "bookmark"
        Event(what, i, j) == [what |-> what, first |-> i, last |-> j]
        At(i)      == IF Mark(i) THEN Event("bookmark", i, i) ELSE Event("word", i, EndOf(i))
        places[n \in 0 .. Len(ssml)] ==
            IF n = 0 THEN <<>>
            ELSE IF Mark(n) \/ Starts(n) THEN Append(places[n - 1], At(n)) ELSE places[n - 1]
        words      == {i \in DOMAIN ssml : Word(i)}
    IN  (IF words = {} THEN <<>> ELSE <<Event("sentence", Min(words), Max(words))>>)
          \o places[Len(ssml)]

\* The characters of the text that a range was written for, as the service
\* gives them back: no tags, no entities, no space it did not find there.
Spoken(ssml, doc, range) ==
    LET cells == SelectSeq(SubSeq(ssml, range.first, range.last),
                           LAMBDA c : c.tag = NoTag /\ c.ch \notin {"<", ">"})
        CharAt(n) == LET f == CHOOSE g \in Range(doc) : Speakable(g) /\ n \in g.at .. g.at + Len(g.text) - 1
                     IN  f.text[n - f.at + 1]
        firsts == SelectSeq([i \in DOMAIN cells |->
                               [cell |-> cells[i],
                                new  |-> i = 1 \/ cells[i].from = NoOffset \/ cells[i].from # cells[i - 1].from]],
                            LAMBDA x : x.new)
    IN  [i \in DOMAIN firsts |-> IF firsts[i].cell.from = NoOffset THEN firsts[i].cell.ch
                                 ELSE CharAt(firsts[i].cell.from)]

-----------------------------------------------------------------------------
(***************************************************************************)
(* The reference: tags are closed in the order of their opening, and all   *)
(* of them are closed at the end.                                          *)
(***************************************************************************)
Pushed(stack, tag) ==
    CASE tag.dir = "open"  -> Append(stack, tag.name)
      [] tag.dir = "close" -> IF stack # <<>> /\ Last(stack) = tag.name
                              THEN Front(stack) ELSE Append(stack, "mismatch")
      [] OTHER -> stack

OpenTags(ssml) ==
    LET upTo[n \in 0 .. Len(ssml)] ==
            IF n = 0 THEN <<>> ELSE Pushed(upTo[n - 1], ssml[n].tag)
    IN  upTo[Len(ssml)]

Nested(ssml) == OpenTags(ssml) = <<>>

\* The application closes its tags the way it opened them.
Unknowns(doc, dir) == {f \in Range(doc) : f.act = "ParseUnknownTag" /\ f.tag.dir = dir}
SpelledAlike(doc) ==
    \A f \in Unknowns(doc, "open"), g \in Unknowns(doc, "close") :
        EqualsIgnoreCase(f.tag.name, g.tag.name) => f.tag.name = g.tag.name

\* The tags a document leaves open, in lower case: a closing tag closes the
\* innermost one of its name and those inside it.
Left(doc) ==
    LET upTo[n \in 0 .. Len(doc)] ==
            IF n = 0 THEN <<>>
            ELSE LET f    == doc[n]
                     name == Lower(f.tag.name)
                     same == {i \in DOMAIN upTo[n - 1] : upTo[n - 1][i] = name}
                 IN  IF f \in Unknowns(doc, "open") THEN Append(upTo[n - 1], name)
                     ELSE IF f \in Unknowns(doc, "close") /\ same # {}
                     THEN SubSeq(upTo[n - 1], 1, Max(same) - 1)
                     ELSE upTo[n - 1]
    IN  upTo[Len(doc)]

\* The same tags, whatever their case.
Folded(ssml) == [i \in DOMAIN ssml |-> [ssml[i] EXCEPT !.tag.name = Lower(@)]]
=============================================================================
