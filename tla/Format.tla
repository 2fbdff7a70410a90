------------------------------- MODULE Format -------------------------------
(***************************************************************************)
(* internal/session/format.go: the protocol's numbers as this client       *)
(* writes them.  A figure is a sequence of strings: the number, and the    *)
(* unit or the shape it is written in.  A tie, which a float's binary      *)
(* value decides, is rounded up; columns are left out.                     *)
(***************************************************************************)
EXTENDS Integers, Sequences, TLC

\* n to the nearest multiple of unit, in units.
Nearest(n, unit) == (2 * n + unit) \div (2 * unit)

\* Three decimals below a dollar, two from there on.
money(m) == IF m < 1000 THEN <<"$.3", ToString(m)>> ELSE <<"$.2", ToString(Nearest(m, 10))>>

moneyCompact(m) == <<"$.2", ToString(Nearest(m, 10))>>

(***************************************************************************)
(* Thousands are floored.  Millions are rounded to a tenth; ".0M" is cut   *)
(* off, and only an exact million gets its M back.                         *)
(***************************************************************************)
tokens(n) ==
  IF n < 1000 THEN <<ToString(n)>>
  ELSE IF n < 1000000 THEN <<ToString(n \div 1000), "k">>
  ELSE LET tenths == Nearest(n, 100000)
       IN  IF tenths % 10 # 0
           THEN <<ToString(tenths \div 10), ToString(tenths % 10), "M">>
           ELSE <<ToString(tenths \div 10)>>
                \o IF n % 1000000 = 0 THEN <<"M">> ELSE <<>>

contextLabel(used, limit) == tokens(used) \o <<"/">> \o tokens(limit)

contextPercent(used, limit) == IF limit <= 0 THEN 0 ELSE Nearest(used * 100, limit)

uptime(ms) ==
  LET s == ms \div 1000
  IN  IF s >= 3600
      THEN <<ToString(s \div 3600), "h", ToString((s \div 60) % 60), "m">>
      ELSE <<ToString((s \div 60) % 60), "m", ToString(s % 60), "s">>

duration(ms) ==
  IF ms >= 1000 THEN <<ToString(Nearest(ms, 100)), "tenths">> ELSE <<ToString(ms), "ms">>

\* An edit's line counts; a count of none is not written.
Signed(sign, n) == IF n > 0 THEN <<sign \o ToString(n)>> ELSE <<>>

signedChanges(added, removed) == Signed("-", removed) \o Signed("+", added)
=============================================================================
