-------------------------------- MODULE Calculator --------------------------------
(***************************************************************************)
(* The calculator (apps/calculator/main.c), with the snprintf and atof of  *)
(* the repository's libc.  The display is a sequence of characters.        *)
(* Numbers that are read from it are whole multiples of 1/Scale, and a     *)
(* result is one of these or Fraction, which stands for those that are not *)
(* whole.  Left out are keys whose result is beyond MaxValue, and digits   *)
(* that make a number no multiple of 1/8: doubles hold the others exactly. *)
(* One action is one key or button, which share their handlers; a key      *)
(* counts by the low byte of its codepoint.                                *)
(***************************************************************************)
EXTENDS Integers, Sequences, FiniteSets, SequencesExt, FiniteSetsExt

CONSTANTS
    DigitKeys,       \* the digits that are pressed
    OpKeys,          \* the operators that are pressed
    Scale,           \* numbers are multiples of 1 / Scale, a power of ten
    MaxValue,        \* bound on numbers, times Scale
    MAX_EXPR, CALC_HISTORY,
    MaxCalcKeys      \* bound on keys

VARIABLES
    calc,        \* Calculator
    ideal,       \* history: a calculator that works from left to right, given the same keys
    plain,       \* history: only digits, operators, "=", deletions and points that counted since it was cleared
    worked,      \* history: every operation carried out, in order
    calcKeys     \* keys so far

calcVars == <<calc, ideal, plain, worked, calcKeys>>

NoValue == -MaxValue - 1
Fraction == MaxValue + 1
Error == <<"E", "r", "r", "o", "r">>
Zero == <<"0">>
Abs(n) == IF n < 0 THEN -n ELSE n
Digit(c) == CHOOSE d \in 0..9 : ToString(d) = c
Has(text, c) == \E i \in 1..Len(text) : text[i] = c

\* vsnprintf knows no "g": it writes the percent sign and the letter.
Unwritten == <<"%", "g">>

\* atof: what does not begin with a number reads as 0.
get_display_value(text) ==
    LET sign == IF text[1] = "-" THEN -1 ELSE 1
        body == IF text[1] = "-" THEN Tail(text) ELSE text
        point == Min({i \in 1..Len(body) : body[i] = "."} \union {Len(body) + 1})
        Weight(i) == IF i < point THEN Scale * 10 ^ (point - 1 - i) ELSE Scale \div 10 ^ (i - point)
    IN  IF text[1] \in {"E", "%"} THEN 0
        ELSE sign * FoldSet(LAMBDA i, v : v + Digit(body[i]) * Weight(i), 0, (1..Len(body)) \ {point})

\* "%lld" of a whole number, "%.10g" of another.
Whole(v) == v # Fraction /\ Abs(v) % Scale = 0
Numeral(n) == IF n < 10 THEN <<ToString(n)>> ELSE <<ToString(n \div 10), ToString(n % 10)>>
set_display_double(c, v) ==
    [c EXCEPT !.display = IF Whole(v) THEN (IF v < 0 THEN <<"-">> ELSE << >>) \o Numeral(Abs(v) \div Scale) ELSE Unwritten,
              !.decimal = FALSE]

calc_reset(c) ==
    [c EXCEPT !.display = Zero, !.a = 0, !.op = "none", !.result = FALSE, !.decimal = FALSE, !.fresh = TRUE, !.error = FALSE]
Cleared(c) == IF c.error THEN calc_reset(c) ELSE c

\* NoValue where the number is out of the model's reach.
Exact(v) == IF Abs(v) <= MaxValue THEN v ELSE NoValue
\* n / d, for a number that may be below 0.
Ratio(n, d) == IF Abs(n) % d # 0 THEN Fraction ELSE Exact((IF n < 0 THEN -1 ELSE 1) * (Abs(n) \div d))
Product(a, b) == Ratio(a * b, Scale)
Quotient(a, b) == Ratio((IF b < 0 THEN -a ELSE a) * Scale, Abs(b))
apply_op(op, a, b) ==
    CASE op = "+" -> Exact(a + b)
      [] op = "-" -> Exact(a - b)
      [] op = "*" -> Product(a, b)
      [] op = "/" -> Quotient(a, b)

\* The text of an entry has "%g" for every number.
push_history(c, e) == [c EXCEPT !.history = Append(IF Len(@) >= CALC_HISTORY THEN Tail(@) ELSE @, e)]

\* Mutant of calc_evaluate: the operator stays pending.
calc_evaluate_keeps(c) ==
    LET b == get_display_value(c.display)
        v == apply_op(c.op, c.a, b)
    IN  IF c.op = "none" \/ (c.op = "/" /\ b = 0) THEN c
        ELSE [set_display_double(push_history(c, <<c.a, c.op, v>>), v) EXCEPT
                 !.a = v, !.result = TRUE, !.fresh = TRUE, !.decimal = FALSE]

\* calc_evaluate: error is not reset, so "=" after an error can show a number.
calc_evaluate(c) ==
    LET b == get_display_value(c.display)
        v == apply_op(c.op, c.a, b)
    IN  IF c.op = "none" THEN c
        ELSE IF c.op = "/" /\ b = 0 THEN [c EXCEPT !.display = Error, !.error = TRUE, !.op = "none", !.fresh = TRUE]
        ELSE [set_display_double(push_history(c, <<c.a, c.op, v>>), v) EXCEPT
                 !.a = v, !.op = "none", !.result = TRUE, !.fresh = TRUE, !.decimal = FALSE]

on_btn_digit(c0, d) ==
    LET c1 == Cleared(c0)
        anew == c1.fresh \/ c1.result
        c == [c1 EXCEPT !.display = IF anew THEN Zero ELSE @, !.decimal = @ /\ ~anew, !.fresh = FALSE,
                        !.result = FALSE, !.op = IF c1.result THEN "none" ELSE @]
    IN  IF c.display = Zero THEN [c EXCEPT !.display = <<d>>]
        ELSE IF Len(c.display) >= MAX_EXPR - 2 THEN c
        ELSE [c EXCEPT !.display = Append(@, d)]

\* After a result the mark of one stays, and the next digit starts again.
on_btn_decimal(c0) ==
    LET c1 == Cleared(c0)
        c == IF c1.fresh THEN [c1 EXCEPT !.display = Zero, !.fresh = FALSE] ELSE c1
    IN  IF c1.decimal THEN c1
        ELSE IF Len(c.display) >= MAX_EXPR - 2 THEN c
        ELSE [c EXCEPT !.display = Append(@, "."), !.decimal = TRUE]

on_btn_op(c0, op) ==
    LET c1 == Cleared(c0)
        c == IF c1.op # "none" /\ ~c1.fresh THEN calc_evaluate(c1) ELSE c1
    IN  [c EXCEPT !.a = get_display_value(c.display), !.op = op, !.fresh = TRUE, !.result = FALSE]

on_btn_backspace(c) ==
    IF c.error THEN calc_reset(c)
    ELSE IF c.fresh \/ c.result THEN c
    ELSE IF Len(c.display) <= 1 THEN [c EXCEPT !.display = Zero, !.decimal = FALSE]
    ELSE [c EXCEPT !.display = Front(@), !.decimal = @ /\ Last(c.display) # "."]

Failed(c) == [c EXCEPT !.display = Error, !.error = TRUE]
on_btn_negate(c) == set_display_double(c, -get_display_value(c.display))
Percent(c, v) == IF c.op # "none" THEN Ratio(c.a * v, 100 * Scale) ELSE Ratio(v, 100)
on_btn_percent(c) == set_display_double(c, Percent(c, get_display_value(c.display)))
Root(v) ==
    LET r == {k \in 0..(MaxValue \div Scale) : k * k * Scale = v} IN IF r = {} THEN Fraction ELSE (CHOOSE k \in r : TRUE) * Scale
on_btn_sqrt(c) ==
    LET v == get_display_value(c.display)
    IN  IF v < 0 THEN Failed(c) ELSE [set_display_double(c, Root(v)) EXCEPT !.fresh = TRUE]
on_btn_square(c) ==
    LET v == get_display_value(c.display) IN [set_display_double(c, Product(v, v)) EXCEPT !.fresh = TRUE]
on_btn_reciprocal(c) ==
    LET v == get_display_value(c.display)
    IN  IF v = 0 THEN Failed(c) ELSE [set_display_double(c, Quotient(Scale, v)) EXCEPT !.fresh = TRUE]

UnaryKeys == {"negate", "percent", "sqrt", "square", "reciprocal"}
Handle(c, key) ==
    CASE key \in DigitKeys -> on_btn_digit(c, key)
      [] key = "." -> on_btn_decimal(c)
      [] key \in OpKeys -> on_btn_op(c, key)
      [] key = "=" -> calc_evaluate(c)
      [] key = "clear" -> calc_reset(c)
      [] key = "backspace" -> on_btn_backspace(c)
      [] key \in UnaryKeys /\ c.error -> c
      [] key = "negate" -> on_btn_negate(c)
      [] key = "percent" -> on_btn_percent(c)
      [] key = "sqrt" -> on_btn_sqrt(c)
      [] key = "square" -> on_btn_square(c)
      [] key = "reciprocal" -> on_btn_reciprocal(c)
      [] key = "history" -> [c EXCEPT !.show = TRUE]

----------------------------------------------------------------------------
(* The ideal calculator: a value, the operator to apply to it, and the       *)
(* number being typed.  A result that is not whole is gone, and counts as 0. *)

Fresh == [value |-> 0, op |-> "none", typed |-> << >>, error |-> FALSE, gone |-> FALSE]
Typed(s) == IF s.typed = << >> THEN s.value ELSE get_display_value(s.typed)
Worked(s) ==
    LET b == Typed(s)
        v == apply_op(s.op, s.value, b)
    IN  IF s.op = "none" THEN [s EXCEPT !.value = b, !.typed = << >>, !.gone = FALSE]
        ELSE IF s.op = "/" /\ b = 0 THEN [Fresh EXCEPT !.error = TRUE]
        ELSE [s EXCEPT !.value = IF Whole(v) THEN v ELSE 0, !.op = "none", !.typed = << >>, !.gone = ~Whole(v)]
Longer(s, c) == IF Len(s.typed) >= MAX_EXPR - 2 THEN s ELSE [s EXCEPT !.typed = Append(@, c)]
Ideal(s0, key) ==
    LET s == IF s0.error THEN Fresh ELSE s0
    IN  CASE key \in DigitKeys -> IF s.typed \in {<< >>, Zero} THEN [s EXCEPT !.typed = <<key>>] ELSE Longer(s, key)
          [] key = "." -> IF s.typed = << >> THEN [s EXCEPT !.typed = <<"0", ".">>]
                          ELSE IF Has(s.typed, ".") THEN s ELSE Longer(s, ".")
          [] key \in OpKeys -> [IF s.typed = << >> THEN s ELSE Worked(s) EXCEPT !.op = key]
          [] key = "=" -> IF s0.error \/ s.op = "none" THEN s0 ELSE Worked(s)
          [] key = "backspace" -> IF s.typed = << >> THEN s
                                  ELSE [s EXCEPT !.typed = IF Len(@) = 1 THEN Zero ELSE Front(@)]

----------------------------------------------------------------------------

AllKeys == DigitKeys \union OpKeys \union UnaryKeys \union {".", "=", "clear", "backspace", "history"}

\* No number this key needs is out of reach.
InReach(c, key) ==
    LET done == Handle(c, key)
        v == get_display_value(c.display)
    IN  /\ key \in OpKeys \union {"="} /\ c.op # "none" /\ ~(c.op = "/" /\ v = 0) => apply_op(c.op, c.a, v) # NoValue
        /\ key = "percent" => Percent(c, v) # NoValue
        /\ key = "square" => Product(v, v) # NoValue
        /\ key = "reciprocal" /\ v # 0 => Quotient(Scale, v) # NoValue
        /\ key \in DigitKeys =>
              LET typed == get_display_value(done.display) IN Abs(typed) <= MaxValue /\ (8 * typed) % Scale = 0

\* A number that begins with the point loses it after a result, and after a
\* number with a point: decimal_entered is reset by the first digit only.
PointIgnored == calc.result \/ (calc.fresh /\ calc.decimal)

\* While the list of operations is shown, only closing it does anything.
Press(key) ==
    /\ ~calc.show /\ calcKeys < MaxCalcKeys /\ calcKeys' = calcKeys + 1
    /\ InReach(calc, key)
    /\ calc' = [Handle(calc, key) EXCEPT !.odd = key # "clear" /\ (@ \/ (key = "=" /\ calc.error))]
    /\ worked' = IF calc'.history = calc.history THEN worked ELSE Append(worked, Last(calc'.history))
    /\ plain' = (key = "clear" \/ (plain /\ key \notin UnaryKeys /\ ~(key = "." /\ PointIgnored)))
    /\ ideal' = IF key = "clear" THEN Fresh ELSE IF plain' /\ key # "history" THEN Ideal(ideal, key) ELSE ideal
CloseHistory == calc.show /\ calc' = [calc EXCEPT !.show = FALSE] /\ UNCHANGED <<ideal, plain, worked, calcKeys>>

\* odd is a history: "=" was pressed on an error.
CalcInit ==
    /\ calc = [display |-> Zero, a |-> 0, op |-> "none", result |-> FALSE, decimal |-> FALSE, fresh |-> TRUE,
               error |-> FALSE, history |-> << >>, show |-> FALSE, odd |-> FALSE]
    /\ ideal = Fresh /\ plain = TRUE /\ worked = << >> /\ calcKeys = 0
CalcNext == (\E key \in AllKeys : Press(key)) \/ CloseHistory

----------------------------------------------------------------------------
(* Properties.                                                               *)

\* Whatever digits, operators, points and deletions are pressed, the display has
\* the value a calculator working from left to right would show, as long as its
\* results are whole: an operator pressed twice is replaced, "=" without a second
\* number uses the first one again, and a digit after a result starts afresh.  A
\* result that is not whole shows "%g", as no other does, and is read back as 0
\* by what follows (set_display_double, vsnprintf, atof).  The list holds the newest
\* operations.  The display has at most one point, which the code's own mark
\* agrees with while a number is typed, or shows "Error" after an error; only "="
\* pressed on an error shows a number instead (main.c).
CalcExact ==
    /\ plain /\ ~calc.odd =>
          IF ideal.error THEN calc.display = Error
          ELSE /\ get_display_value(calc.display) = Typed(ideal)
               /\ calc.display = Unwritten <=> ideal.gone /\ ideal.typed = << >>
    /\ calc.history = SubSeq(worked, Max({1, Len(worked) - CALC_HISTORY + 1}), Len(worked))
    /\ calc.display = Error => calc.error
    /\ calc.error /\ ~calc.odd => calc.display = Error
    /\ calc.display # Error =>
          /\ Cardinality({i \in 1..Len(calc.display) : calc.display[i] = "."}) <= 1
          /\ \A i \in 2..Len(calc.display) : calc.display[i] # "-"
          /\ ~calc.fresh => calc.decimal = Has(calc.display, ".")
====
