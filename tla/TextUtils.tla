------------------------------ MODULE TextUtils ------------------------------
(***************************************************************************)
(* How one reply becomes messages (zulip/text_utils.py): the cap and the   *)
(* cut into chunks.  A text is a sequence of characters; which letter one  *)
(* is does not matter, only whether it is a space or ends a line.  Loops   *)
(* are functions of the number of their passes.                            *)
(***************************************************************************)
EXTENDS Naturals, SequencesExt

Space == 0
Newline == 1
Blank == {Space, Newline}
Marker == 2      \* one letter of TRUNCATION_MARKER

\* str.strip
Stripped(s) ==
  LET ink == {i \in DOMAIN s : s[i] \notin Blank} IN
  IF ink = {} THEN <<>> ELSE SubSeq(s, Min(ink), Max(ink))

Truncated(s, max, marker) ==
  IF max = 0 \/ Len(s) <= max THEN s
  ELSE IF max <= marker THEN SubSeq(s, 1, max)
  ELSE SubSeq(s, 1, max - marker) \o [i \in 1..marker |-> Marker]

Kept(chunks, chunk) == IF chunk = <<>> THEN chunks ELSE Append(chunks, chunk)

-----------------------------------------------------------------------------
(* By length. *)

\* Where the chunk that begins at start ends: before the last space of the window,
\* if that is not its first character.
ChunkEnd(s, start, limit) ==
  LET last == start + limit - 1
      spaces == {i \in (start + 1)..last : s[i] = Space} IN
  IF Len(s) <= last THEN Len(s) ELSE IF spaces = {} THEN last ELSE Max(spaces) - 1

\* The first place from i on that is not a space.
NextStart(s, i) == Min({k \in i..(Len(s) + 1) : k <= Len(s) => s[k] # Space})

LengthPass(s, limit, a) ==
  LET last == ChunkEnd(s, a.start, limit) IN
  IF a.start > Len(s) THEN a
  ELSE [chunks |-> Kept(a.chunks, Stripped(SubSeq(s, a.start, last))),
        start |-> NextStart(s, last + 1)]

\* Every pass takes a character at least.
ByLength(s, limit) ==
  LET pass[n \in 0..Len(s)] ==
        IF n = 0 THEN [chunks |-> <<>>, start |-> 1] ELSE LengthPass(s, limit, pass[n - 1])
  IN  pass[Len(s)].chunks

-----------------------------------------------------------------------------
(* By line. *)

LineEnd(s, start) == Max({k \in (start - 1)..Len(s) : \A i \in start..k : s[i] # Newline})

\* What is collected so far takes the line in, or is a chunk of its own; a line too
\* long for a chunk is cut by length.
WithLine(a, line, limit) ==
  LET joined == IF a.current = <<>> THEN line ELSE Stripped(a.current \o <<Newline>> \o line)
      done == Kept(a.chunks, a.current) IN
  CASE Len(joined) <= limit -> [a EXCEPT !.current = joined]
    [] Len(joined) > limit /\ Len(line) <= limit -> [a EXCEPT !.chunks = done, !.current = line]
    [] OTHER -> [a EXCEPT !.chunks = done \o ByLength(line, limit), !.current = <<>>]

\* A text that ends with a newline has an empty line after it.
LinePass(s, limit, a) ==
  LET last == LineEnd(s, a.start) IN
  IF a.start > Len(s) + 1 THEN a
  ELSE [WithLine(a, SubSeq(s, a.start, last), limit) EXCEPT !.start = last + 2]

ByLine(s, limit) ==
  LET pass[n \in 0..(Len(s) + 1)] ==
        IF n = 0 THEN [chunks |-> <<>>, current |-> <<>>, start |-> 1]
        ELSE LinePass(s, limit, pass[n - 1])
      last == pass[Len(s) + 1]
  IN  Kept(last.chunks, last.current)

Chunks(s, limit, mode) ==
  CASE s = <<>> -> <<>>
    [] s # <<>> /\ Len(s) <= limit -> <<s>>
    [] OTHER -> IF mode = "newline" THEN ByLine(s, limit) ELSE ByLength(s, limit)

-----------------------------------------------------------------------------
(* What a reader finds again. *)

\* The letters of s that are not in B.  (SelectSeq, as a function of the place.)
Without(s, B) ==
  LET kept[n \in 0..Len(s)] ==
        IF n = 0 THEN <<>>
        ELSE IF s[n] \in B THEN kept[n - 1] ELSE Append(kept[n - 1], s[n])
  IN  kept[Len(s)]

Ink(s) == Without(s, Blank)

=============================================================================
