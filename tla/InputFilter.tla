----------------------------- MODULE InputFilter ------------------------------
(***************************************************************************)
(* BridgeInputFilter: when a program that used kitty's keyboard protocol ends,  *)
(* the reports of keys being released that are still on their way must not      *)
(* reach the shell.  The filter looks for the end of the protocol in the output *)
(* and, for a short window after it, drops release reports from the input and   *)
(* nothing else.  Both streams arrive in pieces cut anywhere.                  *)
(*                                                                         *)
(* A byte is one of the symbols below; digits keep their value.  Time is what    *)
(* it does: the window ends, a held-back sequence comes of age.                *)
(***************************************************************************)
EXTENDS Naturals, Sequences, FiniteSets, SequencesExt, FiniteSetsExt

CONSTANTS
    InputPieces,   \* bound: what a read of the terminal may return
    OutputPieces,  \* bound: what an Output message may hold
    MaxPieces,     \* bound: pieces read and observed
    MaxPrefix,     \* MAX_OUTPUT_RESET_PREFIX (64 in the code)
    MaxNumber      \* u32::MAX

Digits == <<"0", "1", "2", "3", "4", "5", "6", "7", "8", "9">>
IsDigit(b) == b \in ToSet(Digits)
Bytes == ToSet(Digits) \cup {"esc", "[", "<", "=", ";", ":", "u", "x"}

ASSUME FilterAssumption ==
    /\ InputPieces \subseteq Seq(Bytes) /\ OutputPieces \subseteq Seq(Bytes)
    /\ MaxPieces \in Nat /\ MaxPrefix \in Nat /\ MaxNumber \in Nat

VARIABLES
    window,    \* stale_release_until: none, open, or past
    pending,   \* the start of a sequence that is held back
    aged,      \* whether pending_until has come
    outputPending, \* output_pending
    sent,      \* what went on to the shell
    fed,       \* history: all input
    shown,     \* history: all output
    detected,  \* history: whether the end of the protocol was ever detected
    steady,    \* history: the window was open and nothing came of age so far
    pieces     \* pieces so far

vars == <<window, pending, aged, outputPending, sent, fed, shown, detected, steady, pieces>>

-----------------------------------------------------------------------------
(* Input: classify_csi_u, is_kitty_release_event                              *)

Drop(s, n) == SubSeq(s, n + 1, Len(s))

\* The second field of s, empty if there is none.
Second(s, separator) ==
    LET cuts == {i \in 1..Len(s) : s[i] = separator}
        next == cuts \ {Min(cuts)}
    IN  IF cuts = {} THEN <<>>
        ELSE SubSeq(s, Min(cuts) + 1, IF next = {} THEN Len(s) ELSE Min(next) - 1)

\* CSI key ; modifiers : 3 u
IsKittyRelease(params) == Second(Second(params, ";"), ":") = <<"3">>

Class(kind, length) == [kind |-> kind, length |-> length]

\* Mutant: a lone escape is never the start of anything.
ClassifyEager(s) ==
    LET ends == {i \in 3..Len(s) : ~IsDigit(s[i]) /\ s[i] \notin {";", ":"}}
        end  == Min(ends)
    IN  CASE s[1] # "esc" -> Class("plain", 1)
          [] s[1] = "esc" /\ Len(s) = 1 -> Class("plain", 1)
          [] s[1] = "esc" /\ Len(s) > 1 /\ s[2] # "[" -> Class("plain", 1)
          [] OTHER -> IF ends = {} THEN Class("incomplete", 0)
                      ELSE IF s[end] # "u" THEN Class("plain", 1)
                      ELSE IF IsKittyRelease(SubSeq(s, 3, end - 1)) THEN Class("release", end)
                      ELSE Class("other", end)

\* What the bytes of s, which is not empty, begin with.
Classify(s) ==
    LET ends == {i \in 3..Len(s) : ~IsDigit(s[i]) /\ s[i] \notin {";", ":"}}
        end  == Min(ends)
    IN  CASE s[1] # "esc" -> Class("plain", 1)
          [] s[1] = "esc" /\ Len(s) = 1 -> Class("incomplete", 0)
          [] s[1] = "esc" /\ Len(s) > 1 /\ s[2] # "[" -> Class("plain", 1)
          [] OTHER -> IF ends = {} THEN Class("incomplete", 0)
                      ELSE IF s[end] # "u" THEN Class("plain", 1)
                      ELSE IF IsKittyRelease(SubSeq(s, 3, end - 1)) THEN Class("release", end)
                      ELSE Class("other", end)

\* The loop of filter_input: what goes on, and what is held back.
Pass[s \in Seq(Bytes)] ==
    IF s = <<>> THEN [out |-> <<>>, rest |-> <<>>]
    ELSE LET class == Classify(s)
             after == Pass[Drop(s, class.length)]
         IN  CASE class.kind = "incomplete" -> [out |-> <<>>, rest |-> s]
               [] class.kind = "release" -> after
               [] OTHER -> [out  |-> SubSeq(s, 1, class.length) \o after.out,
                            rest |-> after.rest]

-----------------------------------------------------------------------------
(* Output: output_resets_kitty_keyboard_protocol                              *)

\* parse_ascii_u32, with a default for what is no number or too large a one.
ParseOr(s, default) ==
    LET digits == s # <<>> /\ \A i \in 1..Len(s) : IsDigit(s[i])
        number == FoldLeft(LAMBDA n, b : 10 * n + SelectInSeq(Digits, LAMBDA d : d = b) - 1, 0, s)
    IN  IF digits /\ number <= MaxNumber THEN number ELSE default

First(s, separator) ==
    SelectInSeq(s \o <<separator>>, LAMBDA b : b = separator) - 1

\* Events (2) or all keys (8) among the flags.
Reports(flags) == (flags \div 2) % 2 = 1 \/ (flags \div 8) % 2 = 1

\* Parameters flags ; mode: set to flags without reports, or reset of flags with them.
DirectReset(params) ==
    LET flags == ParseOr(SubSeq(params, 1, First(params, ";")), 0)
        mode  == ParseOr(Second(params, ";"), 1)
    IN  \/ mode = 1 /\ ~Reports(flags)
        \/ mode = 3 /\ Reports(flags)

\* CSI < digits u, or CSI = parameters u
IsReset(s) ==
    LET params == SubSeq(s, 4, Len(s) - 1)
    IN  /\ Len(s) >= 4 /\ s[1] = "esc" /\ s[2] = "[" /\ s[Len(s)] = "u"
        /\ \/ s[3] = "<" /\ \A i \in 4..(Len(s) - 1) : IsDigit(s[i])
           \/ /\ s[3] = "=" /\ \A i \in 4..(Len(s) - 1) : IsDigit(s[i]) \/ s[i] = ";"
              /\ DirectReset(params)

Resets(s) == \E i, n \in 1..Len(s) : IsReset(SubSeq(s, i, n))

\* Mutant: only the pop is looked for across pieces.
IsResetPrefixOfPop(s) ==
    \/ s \in {<<"esc">>, <<"esc", "[">>}
    \/ /\ Len(s) >= 3 /\ SubSeq(s, 1, 2) = <<"esc", "[">>
       /\ s[3] = "<" /\ \A i \in 4..Len(s) : IsDigit(s[i])

IsResetPrefix(s) ==
    \/ s \in {<<"esc">>, <<"esc", "[">>}
    \/ /\ Len(s) >= 3 /\ SubSeq(s, 1, 2) = <<"esc", "[">>
       /\ \/ s[3] = "<" /\ \A i \in 4..Len(s) : IsDigit(s[i])
          \/ s[3] = "=" /\ \A i \in 4..Len(s) : IsDigit(s[i]) \/ s[i] = ";"

\* The longest suffix, within the limit, that may turn out to be a reset.
TrailingPrefix(s) ==
    LET starts == {i \in 1..Len(s) : Len(s) - i < MaxPrefix /\ IsResetPrefix(Drop(s, i - 1))}
    IN  IF starts = {} THEN <<>> ELSE Drop(s, Min(starts) - 1)

-----------------------------------------------------------------------------
TypeOK ==
    /\ window \in {"none", "open", "past"}
    /\ pending \in Seq(Bytes) /\ (pending # <<>> => Classify(pending).kind = "incomplete")
    /\ aged \in BOOLEAN
    /\ outputPending = <<>> \/ IsResetPrefix(outputPending)
    /\ {sent, fed, shown} \subseteq Seq(Bytes)
    /\ {detected, steady} \subseteq BOOLEAN
    /\ pieces \in 0..MaxPieces

\* BridgeInputFilter::new, or a filter that has just seen the protocol end.
Init ==
    /\ window \in {"none", "open"}
    /\ pending = <<>> /\ aged = FALSE /\ outputPending = <<>>
    /\ sent = <<>> /\ fed = <<>> /\ shown = <<>>
    /\ detected = FALSE /\ steady = (window = "open")
    /\ pieces = 0

\* A read returns one piece, or two at once.
Chunks(set) == set \cup {p \o q : p \in set, q \in set}

\* Mutant: a sequence that came of age is forgotten.
FilterInputForgets(bytes) ==
    LET kept   == IF aged THEN <<>> ELSE pending
        result == Pass[kept \o bytes]
    IN  IF window = "open"
        THEN /\ sent' = sent \o result.out
             /\ pending' = result.rest
             /\ UNCHANGED window
        ELSE /\ sent' = sent \o kept \o bytes
             /\ pending' = <<>> /\ window' = "none"

\* filter_input: a sequence that came of age goes on as it is; outside the window,
\* whose end is noticed here, everything does.
FilterInput(bytes) ==
    LET flushed == IF aged THEN pending ELSE <<>>
        kept    == IF aged THEN <<>> ELSE pending
        result  == Pass[kept \o bytes]
    IN  IF window = "open"
        THEN /\ sent' = sent \o flushed \o result.out
             /\ pending' = result.rest
             /\ UNCHANGED window
        ELSE /\ sent' = sent \o flushed \o kept \o bytes
             /\ pending' = <<>> /\ window' = "none"

ReadInput ==
    /\ pieces < MaxPieces /\ pieces' = pieces + 1
    /\ \E bytes \in Chunks(InputPieces) :
          FilterInput(bytes) /\ fed' = fed \o bytes
    /\ aged' = FALSE
    /\ steady' = (steady /\ ~aged)
    /\ UNCHANGED <<outputPending, shown, detected>>

\* Mutant: the whole output is kept.
ObserveKeepsAll(bytes) ==
    LET input == outputPending \o bytes
    IN  /\ window' = IF Resets(input) THEN "open" ELSE window
        /\ detected' = (detected \/ Resets(input))
        /\ outputPending' = input

\* observe_output
Observe(bytes) ==
    LET input == outputPending \o bytes
    IN  /\ window' = IF Resets(input) THEN "open" ELSE window
        /\ detected' = (detected \/ Resets(input))
        /\ outputPending' = TrailingPrefix(input)

ObserveOutput ==
    /\ pieces < MaxPieces /\ pieces' = pieces + 1
    /\ \E bytes \in Chunks(OutputPieces) :
          Observe(bytes) /\ shown' = shown \o bytes
    /\ UNCHANGED <<pending, aged, sent, fed, steady>>

\* Mutant: the flush waits for the window.
FlushInWindow ==
    /\ pending # <<>> /\ aged /\ window = "open"
    /\ sent' = sent \o pending
    /\ pending' = <<>> /\ aged' = FALSE /\ steady' = FALSE
    /\ UNCHANGED <<window, outputPending, fed, shown, detected, pieces>>

\* The input task's read times out: flush_pending.
Flush ==
    /\ pending # <<>> /\ aged
    /\ sent' = sent \o pending
    /\ pending' = <<>> /\ aged' = FALSE /\ steady' = FALSE
    /\ UNCHANGED <<window, outputPending, fed, shown, detected, pieces>>

\* PENDING_CSI_TIMEOUT
ComesOfAge ==
    /\ pending # <<>> /\ ~aged
    /\ aged' = TRUE
    /\ UNCHANGED <<window, pending, outputPending, sent, fed, shown, detected, steady, pieces>>

\* STALE_KEY_RELEASE_SUPPRESSION
WindowEnds ==
    /\ window = "open"
    /\ window' = "past" /\ steady' = FALSE
    /\ UNCHANGED <<pending, aged, outputPending, sent, fed, shown, detected, pieces>>

Next == ReadInput \/ ObserveOutput \/ Flush \/ ComesOfAge \/ WindowEnds

Spec == Init /\ [][Next]_vars

\* Time passes, and the input task runs.
FairSpec == Spec /\ WF_vars(ComesOfAge) /\ WF_vars(Flush)
-----------------------------------------------------------------------------
(* Properties                                                               *)

\* A release report, said without the filter: CSI digits ; modifiers : 3 u.
IsReleaseReport(s) ==
    /\ Len(s) >= 6 /\ s[1] = "esc" /\ s[2] = "[" /\ s[Len(s)] = "u"
    /\ \A i \in 3..(Len(s) - 1) : IsDigit(s[i]) \/ s[i] \in {";", ":"}
    /\ \E semi, colon \in 3..(Len(s) - 2) :
          /\ semi < colon /\ s[semi] = ";" /\ s[colon] = ":"
          /\ \A i \in 3..(semi - 1) : s[i] # ";"
          /\ \A i \in (semi + 1)..(colon - 1) : s[i] \notin {";", ":"}
          /\ s[colon + 1] = "3" /\ s[colon + 2] \in {";", ":", "u"}

\* What may be left of s without some of its release reports.
Thinnings[s \in Seq(Bytes)] ==
    IF s = <<>> THEN {<<>>}
    ELSE LET reports == {n \in 1..Len(s) : IsReleaseReport(SubSeq(s, 1, n))}
         IN  {<<s[1]>> \o t : t \in Thinnings[Drop(s, 1)]}
                \cup UNION {Thinnings[Drop(s, n)] : n \in reports}

\* bridge.rs:466, "drop only those release reports for a short window": whatever the
\* pieces, timeouts and windows, the shell gets what was typed, in order, with only
\* whole release reports left out and at most a sequence that is held back.  When they
\* were left out is not in it.
OnlyReleasesDropped == sent \o pending \in Thinnings[fed]

\* As long as the window is open and nothing is held back too long, it makes no
\* difference how the input was cut (take_pending_then, set_pending).
CutsDoNotMatter ==
    steady => Pass[fed] = [out |-> sent, rest |-> pending]

\* The end of the protocol is detected wherever the output was cut
\* (trailing_keyboard_reset_prefix), unless it is longer than what is kept, and only then.
ResetDetected ==
    /\ detected => Resets(shown)
    /\ (\E i, n \in 1..Len(shown) :
          n - i <= MaxPrefix /\ IsReset(SubSeq(shown, i, n))) => detected

\* What is held back is let go: typed ahead, an escape key does not get stuck.
PendingLetGo == pending # <<>> ~> pending = <<>>
=============================================================================
