----------------------------- MODULE StaticFiles -----------------------------
(***************************************************************************)
(* app/static_files.cpp: sanitize(), and serve() over a file system that   *)
(* may change between two opens.  Characters are their codes; url_path     *)
(* grows by Pieces, so that every state is one input.                      *)
(***************************************************************************)
EXTENDS Integers, Sequences, SequencesExt

CONSTANTS Pieces, MaxPieces

VARIABLES url_path, pieces

Percent == 37
Dot == 46
Slash == 47
Backslash == 92

hex_digit(c) ==
  CASE c \in 48..57 -> c - 48
    [] c \in 97..102 -> c - 97 + 10
    [] c \in 65..70 -> c - 65 + 10
    [] OTHER -> -1

Rejected == [ok |-> FALSE, s |-> <<>>]

\* Faulty variant: an escaped character is not looked at again.
Decoded_Unchecked(url) ==
  LET D[i \in 1..(Len(url) + 3)] ==
        LET Push(c, rest) == IF D[rest].ok THEN [ok |-> TRUE, s |-> <<c>> \o D[rest].s] ELSE Rejected
        IN IF i > Len(url) THEN [ok |-> TRUE, s |-> <<>>]
           ELSE IF url[i] = Percent THEN
             IF i + 2 > Len(url) THEN Rejected
             ELSE IF hex_digit(url[i + 1]) < 0 \/ hex_digit(url[i + 2]) < 0 THEN Rejected
             ELSE Push(hex_digit(url[i + 1]) * 16 + hex_digit(url[i + 2]), i + 3)
           ELSE IF url[i] \in {0, Backslash} THEN Rejected
           ELSE Push(url[i], i + 1)
  IN D[1]

\* The first loop of sanitize(): what is left from position i on, or Rejected.
Decoded(url) ==
  LET D[i \in 1..(Len(url) + 3)] ==
        LET Push(c, rest) ==
              IF c \in {0, Backslash} \/ ~D[rest].ok THEN Rejected
              ELSE [ok |-> TRUE, s |-> <<c>> \o D[rest].s]
        IN IF i > Len(url) THEN [ok |-> TRUE, s |-> <<>>]
           ELSE IF url[i] # Percent THEN Push(url[i], i + 1)
           ELSE IF i + 2 > Len(url) THEN Rejected
           ELSE IF hex_digit(url[i + 1]) < 0 \/ hex_digit(url[i + 2]) < 0 THEN Rejected
           ELSE Push(hex_digit(url[i + 1]) * 16 + hex_digit(url[i + 2]), i + 3)
  IN D[1]

\* Faulty variant: an empty segment is kept when something precedes it.
Put_KeepsEmpty(out, segment) ==
  IF segment = <<Dot>> \/ (segment = <<>> /\ out = <<>>) THEN out
  ELSE (IF out = <<>> THEN <<>> ELSE Append(out, Slash)) \o segment

\* What the second loop does with a segment that is not "..".
Put(out, segment) ==
  IF segment \in {<<>>, <<Dot>>} THEN out
  ELSE (IF out = <<>> THEN <<>> ELSE Append(out, Slash)) \o segment

\* The segments the second loop sees, from position pos on.
Segments(decoded) ==
  LET S[pos \in 1..(Len(decoded) + 2)] ==
        LET next == SelectInSubSeq(decoded, pos, Len(decoded), LAMBDA c : c = Slash)
            slash == IF next = 0 THEN Len(decoded) + 1 ELSE next
        IN IF pos > Len(decoded) + 1 THEN <<>>
           ELSE <<SubSeq(decoded, pos, slash - 1)>> \o S[slash + 1]
  IN S[1]

sanitize(url) ==
  LET segments == Segments(Decoded(url).s) IN
  IF ~Decoded(url).ok \/ Contains(segments, <<Dot, Dot>>) THEN Rejected
  ELSE [ok |-> TRUE, s |-> FoldLeft(Put, <<>>, segments)]

Index == <<105>>  \* stands for "index.html"

\* What the opens of serve() find.
Kinds == {"none", "dir", "file", "other"}

\* serve(): root says whether the root directory could be opened, first and second what the
\* two opens below it find; the path is the one served.
serve(url, root, first, second) ==
  LET res(status, path) == [status |-> status, path |-> path]
      path == IF sanitize(url).s = <<>> THEN Index ELSE sanitize(url).s
      last == IF first = "dir" THEN second ELSE first
  IN IF ~root THEN res(404, <<>>)
     ELSE IF ~sanitize(url).ok THEN res(400, <<>>)
     ELSE IF last # "file" THEN res(404, <<>>)
     ELSE res(200, IF first = "dir" THEN path \o <<Slash>> \o Index ELSE path)

StaticInit == url_path = <<>> /\ pieces = 0

StaticNext ==
  /\ pieces < MaxPieces /\ pieces' = pieces + 1
  /\ \E piece \in Pieces : url_path' = url_path \o piece

-----------------------------------------------------------------------------

\* Reference: a walk down the directories a path names, one character at a time.  up says
\* that it met a ".." on the way.
Walk(path) ==
  LET Step(w, c) ==
        IF c # Slash THEN [w EXCEPT !.name = Append(@, c)]
        ELSE [dirs |-> IF w.name \in {<<>>, <<Dot>>} THEN w.dirs ELSE Append(w.dirs, w.name),
              name |-> <<>>, up |-> w.up \/ w.name = <<Dot, Dot>>]
  IN FoldLeft(Step, [dirs |-> <<>>, name |-> <<>>, up |-> FALSE], Append(path, Slash))

\* Every character written as an escape.
Escaped(url) ==
  LET digit(d) == IF d < 10 THEN 48 + d ELSE 87 + d
      Step(s, c) == s \o <<Percent, digit(c \div 16), digit(c % 16)>>
  IN FoldLeft(Step, <<>>, url)

\* sanitize() accepts exactly the well-formed paths without a ".." segment, escaped or
\* not, and its result names the same file, with one slash between segments: it is
\* relative, and a second normalization would change nothing.
SanitizeExact ==
  LET decoded == Decoded(url_path)
      walk == Walk(decoded.s)
      out == sanitize(url_path)
      Below(dir, name) == IF dir = <<>> THEN name ELSE dir \o <<Slash>> \o name
  IN /\ out.ok <=> decoded.ok /\ ~walk.up
     /\ out.ok => Walk(out.s).dirs = walk.dirs /\ out.s = FoldLeft(Below, <<>>, walk.dirs)

\* How a path is written makes no difference: with every character escaped, serve() gives
\* the same response, whatever the file system holds at each of its opens.
EscapeBlind ==
  Percent \notin ToSet(url_path) =>
    \A root \in BOOLEAN, first, second \in Kinds :
      serve(Escaped(url_path), root, first, second) = serve(url_path, root, first, second)

=============================================================================
