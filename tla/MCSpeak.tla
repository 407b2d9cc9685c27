------------------------------- MODULE MCSpeak -------------------------------
(***************************************************************************)
(* SpeakLoop for TLC: short documents, spoken once for what becomes of     *)
(* their text, and sessions of up to three calls for what becomes of the   *)
(* calls.                                                                  *)
(***************************************************************************)
EXTENDS SpeakLoop

\* Where the i-th fragment begins: apart by the tags of the application's XML.
At(i) == 9 * (i - 1)
Fragment(i, act, chars, prosody, emphasis, context) ==
    [act |-> act, at |-> At(i), text |-> chars, prosody |-> prosody,
     emphasis |-> emphasis, context |-> context, tag |-> NoTag]
Unknown(i, dir, name, prosody, emphasis) ==
    [Fragment(i, "ParseUnknownTag", <<"a">>, prosody, emphasis, 0) EXCEPT !.tag = [dir |-> dir, name |-> name]]

\* Fragments that differ in what BuildSSML wraps them in.
Wrapped(i) ==
    {Fragment(i, "Speak", <<"a">>, p, e, c) : p \in {0, 1}, e \in BOOLEAN, c \in {0, 1}}
      \cup {Unknown(i, d, "x", p, e) : d \in {"open", "close"}, p \in {0, 1}, e \in BOOLEAN}
      \cup {Unknown(i, d, "y", 0, FALSE) : d \in {"open", "close", "self"}}
      \cup {Fragment(i, act, <<"a">>, 0, FALSE, 1) : act \in {"SpellOut", "Bookmark", "Silence", "Pronounce"}}
Ending(i) ==
    {Fragment(i, "Speak", <<"a">>, 0, FALSE, 1), Fragment(i, "Speak", <<"a">>, 1, TRUE, 0),
     Fragment(i, "Bookmark", <<"a">>, 0, FALSE, 0),
     Unknown(i, "close", "x", 0, FALSE), Unknown(i, "bad", "x", 1, FALSE)}
Tagged(i) == {Unknown(i, d, n, p, FALSE) : d \in {"open", "close"}, n \in {"x", "y"}, p \in {0, 1}}
Plain(i)  == {Fragment(i, act, <<"a">>, p, FALSE, 0) : act \in {"Speak", "Bookmark"}, p \in {0, 1, 2}}

\* Tags in two cases, and one with a space after it, called "x>".
LowerCase(n) == IF n = "X" THEN "x" ELSE n
Spelled(i) ==
    {Unknown(i, d, n, 0, FALSE) : d \in {"open", "close"}, n \in {"x", "X", "y"}}
      \cup {Unknown(i, "open", "x>", 0, FALSE)}

Voices == {"sdk", "azure", "edge"}
All == {"start", "end", "word"}
Session(voice, docs, aborts, plain, split) ==
    [voice |-> voice, docs |-> docs, aborts |-> aborts, plain |-> plain, split |-> split]
Once(voice, frags, events, plain, split) ==
    Session(voice, <<[text |-> frags, events |-> events]>>, FALSE, plain, split)

Structured ==
    {Once("sdk", <<f, g, h>>, {}, FALSE, FALSE) : f \in Wrapped(1), g \in Wrapped(2), h \in Ending(3)}
      \cup {Once("azure", <<Unknown(1, "open", "x", 0, FALSE), g, h, j>>, {}, FALSE, FALSE) :
              g \in Tagged(2), h \in Tagged(3), j \in Tagged(4)}
      \cup {Once("azure", <<Unknown(1, "open", n, 0, FALSE), g, h, Fragment(4, "Speak", <<"a">>, 0, e, 0)>>,
                  {}, FALSE, FALSE) :
              n \in {"x", "X", "x>"}, g \in Spelled(2), h \in Spelled(3), e \in BOOLEAN}
      \cup {Once("edge", <<f, g, h, j>>, {}, FALSE, FALSE) :
              f \in Plain(1), g \in Plain(2), h \in Plain(3), j \in {k \in Plain(4) : k.act = "Speak"}}

\* Fragments that differ in how their text is written and mapped.
Wordings == {<<"a">>, <<"a", " ", "a">>, <<"&", "a", "a", "a">>, <<"a", "&", "a", " ">>,
            <<"'", "a">>, <<"a", "'">>, <<"c", "c">>, <<"c", "a">>, <<"&", "c">>, <<" ", "c">>,
            <<>>}
Said(i)  == {Fragment(i, "Speak", t, 0, FALSE, 0) : t \in Wordings}
Open(i)  == {f \in Said(i) : f.text \in {<<"a", "&", "a", " ">>, <<"c", "c">>, <<>>}}
Mark(i)  == Fragment(i, "Bookmark", <<"a">>, 0, FALSE, 0)
Documents ==
    {<<f, g>> : f \in Said(1), g \in Said(2)}
      \cup {<<f, Mark(2), h>> : f \in Said(1), h \in Said(3)}
      \cup {<<f, g, h>> : f \in Open(1), g \in Open(2), h \in Said(3)}
      \cup {<<Mark(1), g, Mark(3), Mark(4)>> : g \in Said(2)}
Mapped ==
    {Once(v, d, All, p, FALSE) : v \in Voices, d \in Documents, p \in BOOLEAN}
      \cup {Once("edge", d, All, FALSE, TRUE) : d \in Documents}

\* Calls in turn: with text, without, with other interests; with aborts.
Long  == <<Fragment(1, "Speak", <<"a">>, 0, FALSE, 0), Mark(2), Fragment(3, "Speak", <<"a">>, 1, FALSE, 0)>>
Calls == {[text |-> Long, events |-> All], [text |-> Long, events |-> {"word"}],
          [text |-> <<Mark(1), Mark(2)>>, events |-> All]}
Repeated ==
    {Session(v, <<c, d, e>>, TRUE, FALSE, FALSE) :
        v \in Voices, c \in Calls, d \in Calls, e \in Calls}

MCSessions == Structured \cup Mapped \cup Repeated
=============================================================================
