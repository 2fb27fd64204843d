------------------------------ MODULE MCPages ------------------------------
(***************************************************************************)
(* Small inputs for the parsers of Pages.                                  *)
(***************************************************************************)
EXTENDS Pages

MCChar ==
    {Space, "/", "seasons", "(", ")", ".", "a", "b", "m", "n", "o", "p", "v", "w"}
        \cup DOMAIN Marks

\* Rows: a right, absent, short, damaged or long data-code beside a right,
\* absent, short, headless or overlong token, or one of another episode.
MCRow ==
    {[kind |-> "row", about |-> about, code |-> code, token |-> token] :
        <<about, code, token>> \in
          UNION {{a} \X {a, <<Bad>>, <<a[1], a[2]>>, <<a[1], Bad, a[3]>>, a \o <<0>>}
                     \X {Packed(a), <<>>, <<1, 2>>, Digits(a[2]) \o Digits(a[3]),
                         <<9, 9, 9, 9>> \o Packed(a), Packed(<<7, 8, 9>>)} :
                    a \in {1, 907} \X {1, 12} \X {1, 45, 999}}}

Padded(s) == {s, <<Space>> \o s, s \o <<Space>>}

\* Links: canonical ones in all their spellings.
MCLink ==
    UNION {{[kind |-> "link", about |-> c, text |-> text] :
              text \in UNION {Padded(start \o end) :
                                start \in {c, Tail(c)},
                                end \in {<<>>, Slash, seasonsSuffix, seasonsSuffix \o Slash}}} :
             c \in {<<"/", "a">>, <<"/", "a", "/", "b">>, <<"/", "seasons", "/", "a">>}}

Shows == {<<"w">>, <<"w", Space, "v">>, <<"w", Space, "(", "v", ")">>}
Originals1 == {<<"o">>, <<"o", Space, "p">>}
Names == {<<>>, <<"n">>, <<"n", ".", Space, "m">>, <<"n", Space, "(", "m", ")", ".", Space, "n">>,
          <<"(", "m", ")">>}
Quoting(body) == {<<"n", Space, "(", body, ")">>, <<"(", body, ")", ".", Space, "n">>}

\* Titles: with and without an episode name and a marker, with parentheses in
\* the names and the episode's own marker in its name.
MCTitle ==
    LET PageOf(show, orig, name, mark) ==
          LET about == [show |-> show, orig |-> orig, name |-> name,
                        number |-> IF mark = <<>> THEN <<0, 0>> ELSE Marks[mark[1]]]
          IN [kind |-> "title", about |-> about, text |-> TitleText(about, mark)]
    IN {PageOf(t[1], t[2], t[3], t[4]) :
          t \in (Shows \X Originals1 \X Names \X {<<>>, <<"S1E2">>, <<"S3E4">>})
               \cup UNION {Shows \X Originals1 \X Quoting(body) \X {<<body>>} :
                             body \in DOMAIN Marks}}

Unit(sounds, cyrillic, upper) ==
    [k \in DOMAIN sounds |->
        [sound |-> sounds[k], cyrillic |-> cyrillic[k], upper |-> upper[k]]]

\* The units in both alphabets and in three cases; bytes, a unit that is not
\* known and one in mixed alphabets.
Units(power) ==
    IF power = 0
       THEN {Unit(<<"B">>, <<TRUE>>, <<TRUE>>),
             Unit(<<"P", "B">>, <<FALSE, FALSE>>, <<TRUE, TRUE>>),
             Unit(<<"G", "B">>, <<TRUE, FALSE>>, <<TRUE, TRUE>>)}
       ELSE {Unit(<<Prefix[power], "B">>, <<alphabet, alphabet>>, upper) :
               alphabet \in BOOLEAN, upper \in {<<TRUE, TRUE>>, <<TRUE, FALSE>>, <<FALSE, FALSE>>}}

\* 720, 1.35, 2.50, 1080.5 and 0.07, as they are written, in every unit.
Sizes ==
    UNION {{<<<<[number |-> number, unit |-> unit]>>,
              <<[whole |-> amount[1], cents |-> amount[2], power |-> power]>>>> :
                 number \in {Numeral(amount[1]) \o ending : ending \in Decimals(amount[2])},
                 unit \in Units(power)} :
            amount \in {<<720, 0>>, <<1, 35>>, <<2, 50>>, <<1080, 50>>, <<0, 7>>},
            power \in 0..Len(Prefix)}

\* No size, no digit in it, "1.024,5", "1,024.5", "1,2,3" and "7..".
NoSizes ==
    {<<<<>>, <<>>>>} \cup
    {<<<<[number |-> number, unit |-> unit]>>, <<>>>> :
       number \in {<<Comma>>, <<1, Point, 0, 2, 4, Comma, 5>>, <<1, Comma, 0, 2, 4, Point, 5>>,
                   <<1, Comma, 2, Comma, 3>>, <<7, Point, Point>>},
       unit \in Units(3)}

Item(label, main, sub, video, size) ==
    [label |-> label, main |-> main, sub |-> sub,
     desc |-> [video |-> video, size |-> size[1]], stated |-> size[2]]

Gigabytes ==
    <<<<[number |-> <<1, Point, 3, 5>>,
         unit |-> Unit(<<"G", "B">>, <<TRUE, TRUE>>, <<TRUE, TRUE>>)]>>,
      <<[whole |-> 1, cents |-> 35, power |-> 3]>>>>

Linked == {Item("", "u", "v", video, size) :
             video \in {"WEB-DLRip", "1080p"}, size \in Sizes \cup NoSizes}
Odd == {Item(label, main, sub, video, Gigabytes) :
          label \in {"", "MP4"}, main \in {"", "u"}, sub \in {"", "v"},
          video \in DOMAIN Spells}

\* Download pages of two items, with every size and with every kind of item.
MCVariants ==
    {[kind |-> "variants", items |-> <<first, second>>] :
        first \in Linked, second \in {item \in Odd : item.desc.video = "720p"}}
      \cup {[kind |-> "variants", items |-> <<first, second>>] : first, second \in Odd}

\* File names of up to three characters.
MCFilename ==
    {[kind |-> "filename", text |-> text] : text \in BoundedSeq(DOMAIN Utf8, 3)}
=============================================================================
