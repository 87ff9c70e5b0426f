-------------------------------- MODULE Macros --------------------------------
(* The macros that a C preprocessor knows, as a function from names to values. *)
(* A macro without a value is 1, and #if of an undefined one is 0.             *)
EXTENDS Integers

Defined(m, name) == name \in DOMAIN m
AnyDefined(m, names) == \E name \in names : Defined(m, name)
Value(m, name) == IF Defined(m, name) THEN m[name] ELSE 0
Define(m, name, value) == [n \in DOMAIN m \cup {name} |-> IF n = name THEN value ELSE m[n]]
DefineAll(m, h) == [n \in DOMAIN m \cup DOMAIN h |-> IF n \in DOMAIN h THEN h[n] ELSE m[n]]
Undefine(m, name) == [n \in DOMAIN m \ {name} |-> m[n]]
===============================================================================
