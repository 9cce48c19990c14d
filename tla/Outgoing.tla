------------------------------ MODULE Outgoing ------------------------------
(***************************************************************************)
(* What becomes of an answer before it is sent: the formatter              *)
(* (src/src/gateway/formatter.rs) and the chunker                          *)
(* (src/src/gateway/chunker.rs).  A text is a sequence of characters, told *)
(* apart by what the two care about: their length in bytes, and whether    *)
(* they are white space or must be escaped.  A piece of a text is a slice, *)
(* from one character to another.                                          *)
(***************************************************************************)
EXTENDS Integers, Sequences

Width ==
  [letter |-> 1, wide |-> 3, space |-> 1, dot |-> 1, escape |-> 1]

Characters == DOMAIN Width

(* The offset in bytes behind each character.                              *)
Offsets(text) ==
  LET upTo[i \in 0..Len(text)] == IF i = 0 THEN 0 ELSE upTo[i - 1] + Width[text[i]]
  IN upTo

Bytes(text, from, to) == Offsets(text)[to] - Offsets(text)[from - 1]

(* format, outside code blocks: Telegram has its special characters        *)
(* escaped; what other platforms do to bold text and links is wording.     *)
Escape(c) == IF c = "dot" THEN <<"escape", "dot">> ELSE <<c>>

Escaped(text) ==
  LET upTo[i \in 0..Len(text)] == IF i = 0 THEN <<>> ELSE upTo[i - 1] \o Escape(text[i])
  IN upTo[Len(text)]

Formatted(text, platform) == IF platform = "telegram" THEN Escaped(text) ELSE text

-----------------------------------------------------------------------------
(* chunk: as many characters as fit, back to the last white space among    *)
(* them unless that is the first character; then on behind the white space *)
(* that follows.                                                           *)
Hard(text, from, limit) ==
  LET fitting == {to \in (from - 1)..Len(text) : Bytes(text, from, to) <= limit}
  IN CHOOSE to \in fitting : \A other \in fitting : other <= to

Spaces(text, from, to) == {i \in from..to : text[i] = "space"}

Cut_mutant(text, from, to) ==
  LET last == CHOOSE i \in Spaces(text, from, to) : \A j \in Spaces(text, from, to) : j <= i
  IN IF Spaces(text, from, to) = {} THEN to ELSE last - 1
Cut(text, from, to) ==
  LET last == CHOOSE i \in Spaces(text, from, to) : \A j \in Spaces(text, from, to) : j <= i
  IN IF Spaces(text, from, to) = {} THEN to ELSE IF last = from THEN to ELSE last - 1

Resumed(text, to) ==
  LET ahead == {i \in (to + 1)..Len(text) : text[i] # "space"} \cup {Len(text) + 1}
  IN CHOOSE i \in ahead : \A j \in ahead : i <= j

(* A character wider than the limit: the loop never gets past it.          *)
Spins(text, limit) ==
  /\ limit > 0 /\ Bytes(text, 1, Len(text)) > limit
  /\ \E i \in DOMAIN text : Width[text[i]] > limit

(* The pieces of what remains of the text from its i-th character on.      *)
Split(text, limit) ==
  LET rest[i \in 1..(Len(text) + 1)] ==
        LET to == Cut(text, i, Hard(text, i, limit))
        IN IF i > Len(text) THEN <<>>
           ELSE IF Bytes(text, i, Len(text)) <= limit THEN << <<i, Len(text)>> >>
           ELSE << <<i, to>> >> \o rest[Resumed(text, to)]
  IN rest[1]

(* No limit, or a limit of 0: one piece, however long.                     *)
Chunks(text, limit) ==
  IF limit = 0 \/ Bytes(text, 1, Len(text)) <= limit
  THEN << <<1, Len(text)>> >> ELSE Split(text, limit)

-----------------------------------------------------------------------------
(* What is promised of the pieces: they fit, they are not empty, they      *)
(* follow each other from the beginning of the text to its end, and        *)
(* nothing but white space is left out, with which no later piece begins.  *)
Fits(text, limit, piece) == limit > 0 => Bytes(text, piece[1], piece[2]) <= limit

Follower(text, pieces, k) == IF k = Len(pieces) THEN Len(text) + 1 ELSE pieces[k + 1][1]

Sound(text, limit, pieces, k) ==
  LET from == pieces[k][1]
      to == pieces[k][2]
      next == Follower(text, pieces, k)
  IN /\ Fits(text, limit, pieces[k])
     /\ text # <<>> => from \in 1..to
     /\ to < next /\ \A i \in (to + 1)..(next - 1) : text[i] = "space"
     /\ k > 1 => text[from] # "space"

Whole(text, limit, pieces) ==
  /\ pieces # <<>> /\ pieces[1][1] = 1
  /\ \A k \in DOMAIN pieces : Sound(text, limit, pieces, k)
=============================================================================
