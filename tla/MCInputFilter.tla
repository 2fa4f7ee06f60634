----------------------------- MODULE MCInputFilter ----------------------------
(* InputFilter for TLC: the pieces of a release report, of other reports and     *)
(* keys, and those of the two ways to end the protocol.                        *)
EXTENDS InputFilter

ReleasePieces == {<<"esc">>, <<"[", "1">>, <<";", "1", ":">>, <<"3">>, <<"u">>, <<"x">>}
ResetPieces == {<<"esc">>, <<"[", "<">>, <<"[", "=">>, <<"1", "0">>, <<";", "3">>, <<"u">>}
=============================================================================
