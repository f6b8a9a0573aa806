------------------------------ MODULE MCOutbound ------------------------------
(* An instance of Outbound for TLC. *)
EXTENDS Outbound, TLC

CONSTANTS r1, r2, k1, k2

C == Credential
MCKeyOf == [r \in Run |-> k1]
MCLinkOf == [f \in Uploadable |-> IF f = "file" THEN <<3>> ELSE <<Ref, C>>]
MCPrefix == <<5>>
MCRefText == <<6, 6>>
MCReplies ==
  {[text |-> <<4, 5, 6, 4, 4, 5, 6>>, files |-> <<"url", "file">>],
   [text |-> <<>>, files |-> <<"named">>],
   [text |-> <<4, C>>, files |-> <<"file", "denied">>]}
MCNotices == {<<4>>, <<C>>}

\* Every short text, cut at every small limit in both modes, keeps its letters and
\* fits.
ASSUME ShortTextsAreKept ==
  \A n \in 0..6 : \A s \in [1..n -> {Space, Newline, 4}] :
    \A limit \in 1..3, mode \in {"length", "newline"} :
      LET chunks == Chunks(s, limit, mode) IN
      /\ Ink(FlattenSeq(chunks)) = Ink(s)
      /\ \A c \in DOMAIN chunks : Len(chunks[c]) <= limit
      /\ Ink(s) = SelectSeq(s, LAMBDA c : c \notin Blank)

MCSymmetry == Permutations({r1, r2})

=============================================================================
