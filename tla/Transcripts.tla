----------------------------- MODULE Transcripts -----------------------------
(***************************************************************************)
(* The identity of a transcript: platform/security/hashing.  A text is a   *)
(* sequence of characters, told apart only as far as the normalisation     *)
(* tells them apart; every other string is a character that is not         *)
(* blank.  SHA-256 is taken to be injective: a hash is the normal text.    *)
(***************************************************************************)
EXTENDS Selections

Blank == {" ", "tab"}
White == Blank \union {"cr", "lf"}

\* \r\n and \r are line feeds.
LineFeeds(s) ==
    LET alone == {i \in 1 .. Len(s) :
                    ~(s[i] = "cr" /\ i < Len(s) /\ s[i + 1] = "lf")}
        t == KeepAt(s, alone)
    IN  [i \in 1 .. Len(t) |-> IF t[i] = "cr" THEN "lf" ELSE t[i]]

\* A run of spaces and tabs is a space.
SingleSpaces(s) ==
    LET first == {i \in 1 .. Len(s) :
                    ~(s[i] \in Blank /\ i > 1 /\ s[i - 1] \in Blank)}
        t == KeepAt(s, first)
    IN  [i \in 1 .. Len(t) |-> IF t[i] \in Blank THEN " " ELSE t[i]]

\* Three line feeds or more are two.
Paragraphs(s) ==
    KeepAt(s, {i \in 1 .. Len(s) :
        ~(s[i] = "lf" /\ i > 2 /\ s[i - 1] = "lf" /\ s[i - 2] = "lf")})

Trim(s) ==
    KeepAt(s, {i \in 1 .. Len(s) :
        /\ \E j \in 1 .. i : s[j] \notin White
        /\ \E j \in i .. Len(s) : s[j] \notin White})

normalizeTranscript(s) == Trim(Paragraphs(SingleSpaces(LineFeeds(s))))

\* The hash normalises what it is given.
computeTranscriptHash(s) == normalizeTranscript(s)

=============================================================================
