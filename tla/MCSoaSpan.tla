------------------------------ MODULE MCSoaSpan ------------------------------
(* Three threads on jets of two coefficients modulo 5, and two passes that *)
(* multiply jets <1, 1>: each coefficient of the result reads several.     *)
EXTENDS SoaSpan

MCValues == 0..4
MCFillX(i) == [c \in Orders |-> (i + 2 * c + 1) % 5]
MCFillY(i) == [c \in Orders |-> (2 * i + 3 * c + 1) % 5]
MCCombine(a, b) == [c \in Orders |-> IF c = 0 THEN (a[0] * b[0]) % 5 ELSE (a[0] * b[c] + a[c] * b[0]) % 5]
=============================================================================
