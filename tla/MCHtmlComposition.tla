------------------------- MODULE MCHtmlComposition -------------------------
(***************************************************************************)
(* TLC's instances of HtmlComposition.  The limits of the schemas are      *)
(* scaled down so that small publications meet and exceed them.            *)
(***************************************************************************)
EXTENDS HtmlComposition

----------------------------------------------------------------------------
(* AI results.                                                             *)

Word(key, length) == [key |-> key, length |-> length]

SeqsUpTo(set, n) == UNION {[1 .. k -> set] : k \in 0 .. n}

\* John is spelt in two ways; the long book makes labels that do not fit.
Books == {Word("john", 4), Word("john", 5), Word("song of songs", 13)}

Scripture ==
    [book : Books, chapter : {1}, verses : {"single", "range"}]

\* One keyword, two, and one that is given in two spellings.
Keywords == {<<Word("grace", 5)>>, <<Word("grace", 5), Word("hope", 4)>>,
             <<Word("grace", 5), Word("grace", 6)>>}

MCAIResults ==
    [keywords : Keywords, scripture : SeqsUpTo(Scripture, 3),
     reflections : {<<Word("hope", 4)>>, <<Word("hope", 4), Word("grace", 5)>>}]

----------------------------------------------------------------------------
(* Publications.                                                           *)

Heading(id, level) == createHeading(id, level)

Publication(sections, toc) ==
    [sections |-> sections, toc |-> toc, references |-> <<>>,
     citations |-> <<>>, footnotes |-> <<>>, assets |-> <<>>,
     coverImage |-> NoId]

CoverSection == Section(Cover, <<Heading(<<"cover", "h1">>, 1)>>)

\* Tables of contents with repeated ids, entries that point to the cover, to a
\* block of the cover or into the body, and parents of every kind.
TocPublications ==
    LET entries(ids) ==
            [id : ids, level : {1},
             targetId : {Cover, <<"cover", "h1">>, <<"s">>},
             parentId : {NoId, <<"t1">>, <<"t2">>, <<"t3">>}]
        sections == <<CoverSection, Section(<<"s">>, <<Heading(<<"b">>, 2)>>)>>
    IN  {Publication(sections, <<>>)}
        \cup {Publication(sections, <<e1, e2>>) :
                e1 \in entries({<<"t1">>}), e2 \in entries({<<"t1">>, <<"t2">>})}
        \cup {Publication(sections, <<e1, e2, e3>>) :
                e1 \in entries({<<"t1">>}), e2 \in entries({<<"t2">>}),
                e3 \in entries({<<"t2">>, <<"t3">>})}
        \cup {Publication(sections,
                [i \in 1 .. 4 |->
                    [id |-> <<"t" \o ToString(i)>>, level |-> 1,
                     targetId |-> <<"s">>,
                     parentId |-> IF up[i] = 0 THEN NoId
                                  ELSE <<"t" \o ToString(up[i])>>]]) :
                up \in [1 .. 4 -> 0 .. 3]}

\* A section that is not rendered has a block with an id of the composer's own,
\* or with none of them, and the table of contents points to it.
UnrenderedPublications ==
    LET names == {<<"document", "title">>, <<"toc", "title">>,
                  <<"main", "content">>, <<"s", "title">>, <<"hidden">>}
    IN  {Publication(<<Section(hidden, <<Heading(name, 1)>>),
                       Section(<<"s">>, <<Heading(<<"b">>, 2)>>)>>,
             [i \in DOMAIN targets |->
                 [id |-> <<"t" \o ToString(i)>>, level |-> 1,
                  targetId |-> IF targets[i] = "block" THEN name
                               ELSE <<targets[i]>>,
                  parentId |-> IF i = 2 /\ nested THEN <<"t1">> ELSE NoId]]) :
            hidden \in {Cover, TocSection}, name \in names,
            targets \in SeqsUpTo({"block", "s", "b"}, 2), nested \in BOOLEAN}

\* Two sections whose headings and callouts come in every order of levels; the
\* table of contents is made from them.
HeadingPublications ==
    LET Pieces == {"1", "2", "3", "callout"}
        Piece(kind, id) ==
            IF kind = "callout" THEN Block(id, "journal-prompt")
            ELSE Heading(id, CASE kind = "1" -> 1 [] kind = "2" -> 2
                               [] kind = "3" -> 3)
        SectionOf(id, kinds) ==
            Section(<<id>>, [i \in DOMAIN kinds |->
                                Piece(kinds[i], <<id \o "b", ToString(i)>>)])
    IN  {LET sections == <<CoverSection, SectionOf("s", first),
                           SectionOf("u", second)>>
         IN  Publication(sections, createTocEntriesForSections(sections)) :
            first \in SeqsUpTo(Pieces, 3) \ {<<>>},
            second \in SeqsUpTo(Pieces, 2) \ {<<>>}}

\* Two blocks of every type, with and without citations and footnotes.
CitingPublications ==
    LET citations == {<<>>, <<<<"c1">>>>, <<<<"c1">>, <<"c2">>>>,
                      <<<<"c3", "?">>>>}
        footnotes == {<<>>, <<<<"f1">>>>}
        Citing(block) ==
            {[block EXCEPT !.citationIds = c, !.footnoteIds = f] :
                c \in citations, f \in footnotes}
        Titled(id, type) ==
            {[Block(id, type) EXCEPT !.title = t, !.text = 4] : t \in {0, 3, 99}}
        Listing(id, type) == {[Block(id, type) EXCEPT !.items = n] : n \in 0 .. 2}
        BlocksOf(id) ==
            UNION {Citing(Block(id, type)) :
                     type \in {"heading", "paragraph", "key-takeaway",
                               "journal-prompt"}}
            \cup UNION {Citing([Block(id, "quote") EXCEPT !.attributed = a]) :
                          a \in BOOLEAN}
            \cup UNION {Titled(id, type) :
                          type \in {"call-to-action", "scripture", "sidebar"}}
            \cup UNION {Listing(id, type) :
                          type \in {"checklist", "numbered-list", "table"}}
            \cup {[Block(id, "image-placeholder")
                      EXCEPT !.asset = a, !.title = t] :
                    a \in {<<"a1">>, <<"a2">>}, t \in {0, 3}}
            \cup {Block(id, "divider")}
        WithLevel(block) ==
            IF block.type = "heading" THEN [block EXCEPT !.level = 2] ELSE block
    IN  {[Publication(<<Section(<<"s">>, <<WithLevel(x), WithLevel(y)>>)>>, <<>>)
            EXCEPT !.citations = [i \in 1 .. 3 |->
                      [id |-> <<<<"c1">>, <<"c2">>, <<"c3", "?">>>>[i],
                       referenceId |-> NoId]],
                   !.footnotes = <<[id |-> <<"f1">>]>>,
                   !.assets = <<[id |-> <<"a1">>, safe |-> TRUE]>>] :
            x \in BlocksOf(<<"b1">>),
            y \in {Block(<<"b2">>, "divider")} \cup
                  UNION {Citing(Block(<<"b2">>, type)) :
                           type \in {"heading", "paragraph"}}}

\* Ids that run into each other or into the composer's own.
IdPublications ==
    LET names == {<<"s">>, <<"b">>, <<"s", "title">>, <<"b", "body">>,
                  <<"main", "content">>, <<"toc", "title">>, Cover, TocSection}
    IN  {LET sections == <<Section(x, <<Block(y, "key-takeaway"),
                                        Block(<<"last">>, "divider")>>),
                           Section(z, <<Heading(w, 2)>>)>>
         IN  Publication(sections, createTocEntriesForSections(sections)) :
            x \in names, y \in names, z \in names, w \in names}

\* References of every type and URL, and lists up to and beyond the limit.
AppendixPublications ==
    LET reference ==
            [type : {"bible", "internal"}, targetId : {NoId, <<"s">>, <<"x">>},
             url : {"none"}]
            \cup [type : {"external"}, targetId : {NoId},
                  url : {"none", "safe", "unsafe"}]
    IN  {[Publication(<<Section(<<"s">>, <<Heading(<<"b">>, 2)>>)>>, <<>>)
            EXCEPT !.references =
                      [i \in 1 .. n |->
                          [id |-> <<"r", ToString(i)>>, type |-> r.type,
                           targetId |-> r.targetId, url |-> r.url]],
                   !.citations =
                      [i \in 1 .. m |->
                          [id |-> <<"c", ToString(i)>>, referenceId |-> cited]],
                   !.assets = <<[id |-> <<"a">>, safe |-> safe]>>,
                   !.coverImage = cover] :
            n \in {0, 1, MaxChildren, MaxChildren + 1},
            m \in {0, MaxChildren, MaxChildren + 1}, r \in reference,
            cited \in {NoId, <<"r", "1">>},
            safe \in BOOLEAN, cover \in {NoId, <<"a">>, <<"x">>}}

\* References whose ids and links may run into each other.
ReferencePublications ==
    LET ids == {<<"x">>, <<"link", "x">>, <<"y">>}
        References(id) == [id : {id}, type : {"external"}, targetId : {NoId},
                           url : {"none", "safe"}]
    IN  {[Publication(<<Section(<<"s">>, <<Heading(<<"b">>, 2)>>)>>, <<>>)
            EXCEPT !.references = <<first, second>>] :
            first \in UNION {References(id) : id \in ids},
            second \in UNION {References(id) : id \in ids}}

\* Documents of every size around the limit: sections with a table, and one
\* with dividers.
LargePublications ==
    {LET Name(prefix, i) == <<prefix \o ToString(i)>>
         Tabled(i) == Section(Name("s", i),
             <<[Block(Name("b", i), "table") EXCEPT !.items = rows]>>)
         sections == [i \in 1 .. tables |-> Tabled(i)]
             \o <<Section(<<"last">>, [i \in 1 .. dividers |->
                                         Block(Name("d", i), "divider")])>>
     IN  Publication(sections,
             IF listed THEN createTocEntriesForSections(sections) ELSE <<>>) :
        tables \in 1 .. 4, rows \in {0, 3, 6}, dividers \in 1 .. MaxChildren,
        listed \in BOOLEAN}

MCPublications ==
    TocPublications \cup UnrenderedPublications \cup HeadingPublications
        \cup CitingPublications \cup IdPublications
        \cup AppendixPublications \cup ReferencePublications
        \cup LargePublications

=============================================================================
