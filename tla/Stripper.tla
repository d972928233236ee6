------------------------------- MODULE Stripper -------------------------------
(***************************************************************************)
(* ANSI stripping (ansi.go): an automaton over bytes whose state runs on   *)
(* from one record to the next, since the framer may have cut an escape    *)
(* sequence in two.  A byte is Esc, BEL, "[", "]", "\\" or a letter, which  *)
(* ends a CSI sequence as the three before it do (0x40 to 0x7e).           *)
(***************************************************************************)
EXTENDS Naturals, Sequences, SequencesExt

Final == {"[", "]", "\\", "letter"}

\* ansiStripper with s.out: what is left of the record so far.
Step(s, c) ==
  CASE s.state = "Normal" -> IF c = "Esc" THEN [s EXCEPT !.state = "Esc"]
                             ELSE [s EXCEPT !.out = Append(@, c)]
    [] s.state = "Esc"    -> [s EXCEPT !.state = CASE c = "["   -> "CSI"
                                                   [] c = "]"   -> "OSC"
                                                   [] c = "Esc" -> "Esc"
                                                   [] OTHER     -> "Normal"]
    [] s.state = "CSI"    -> [s EXCEPT !.state = IF c \in Final THEN "Normal" ELSE "CSI"]
    [] s.state = "OSC"    -> [s EXCEPT !.state = CASE c = "BEL" -> "Normal"
                                                   [] c = "Esc" -> "OSCEsc"
                                                   [] OTHER     -> "OSC"]
    [] s.state = "OSCEsc" -> [s EXCEPT !.state = CASE c = "\\"  -> "Normal"
                                                   [] c = "Esc" -> "OSCEsc"
                                                   [] OTHER     -> "OSC"]

\* Mutant: every record starts in the normal state.
Strip_Afresh(state, line) == FoldLeft(Step, [state |-> "Normal", out |-> << >>], line)

\* Strip.  A line without Esc is returned as it is in the normal state: the same
\* bytes, as what the sinks do with them is done before the buffer is used again.
Strip(state, line) == FoldLeft(Step, [state |-> state, out |-> << >>], line)
----------------------------------------------------------------------------
(***************************************************************************)
(* The text of a whole stream.  A sequence that starts at i is over at     *)
(* SequenceEnd(s, i): Esc [ at its first final byte, Esc ] at BEL or at    *)
(* Esc \, any other Esc with the byte that follows, and Esc Esc with the   *)
(* sequence the second one starts.  One that is not over takes all the     *)
(* rest of the stream.                                                     *)
(***************************************************************************)
EndsOSC(s, j) == IF s[j] = "BEL" THEN s[j - 1] # "Esc" ELSE s[j] = "\\" /\ s[j - 1] = "Esc"

SequenceEnd(s, i) ==
  LET esc  == CHOOSE k \in i .. Len(s) + 1 :
                (k = Len(s) + 1 \/ s[k] # "Esc") /\ \A j \in i .. k - 1 : s[j] = "Esc"
      ends == IF esc > Len(s) THEN {}
              ELSE {j \in esc .. Len(s) :
                      CASE s[esc] = "[" -> j > esc /\ s[j] \in Final
                        [] s[esc] = "]" -> j > esc /\ EndsOSC(s, j)
                        [] OTHER        -> j = esc}
  IN  IF ends = {} THEN Len(s) ELSE CHOOSE j \in ends : \A e \in ends : j =< e

TextOf(s) ==
  LET from[i \in 1 .. Len(s) + 1] ==
        IF i > Len(s) THEN << >>
        ELSE IF s[i] = "Esc" THEN from[SequenceEnd(s, i) + 1]
        ELSE <<s[i]>> \o from[i + 1]
  IN  from[1]
==============================================================================
