----------------------------- MODULE MCReadiness -----------------------------
\* The instance of Readiness that TLC checks.
EXTENDS Readiness

\* The second edit has a duplicate id; the third moves a to another binary and
\* adds b.  The id z is excluded.
MCFiles ==
  LET e(id, cmd) == [id |-> id, cmd |-> cmd]
  IN  << <<e("a", "x"), e("z", "x")>>,
         <<e("a", "x"), e("a", "y")>>,
         <<e("a", "y"), e("b", "x")>> >>

\* nsjail may begin to hang, the slowest probe that is sure to end, and one that
\* is not ok; or it is a wrapper that leaves a process behind which keeps its
\* output open.
HangingOrLingering == {<<"nsjail", "hangs">>, <<"nsjail", "lingers">>}
=============================================================================
