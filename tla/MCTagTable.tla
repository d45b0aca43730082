------------------------------ MODULE MCTagTable ------------------------------
(* Instances of TagTable for TLC.                                            *)
EXTENDS TagTable

CONSTANTS scan, scan2, drain

Do(op, tag) == [op |-> op, tag |-> tag]

\* No tag begins with another one.
Distinct == [t \in AllTags |-> {t}]
\* "scan2" begins with "scan".
Overlapping == [t \in AllTags |-> IF t = scan THEN {scan, scan2} ELSE {t}]

\* What the README asks for: add tags first, meet anonymously, then use them.  There
\* are two slots for three tags: drain finds no room at first, so that calls and
\* deregistrations about it fail, and then takes the slot that scan has given back.
Practice == [p \in Procs |->
  <<Do("add", scan), Do("add", scan2), Do("add", drain), Do("anon", Default),
    Do("tagged", drain), Do("del", drain), Do("tagged", scan), Do("del", scan),
    Do("tagged", scan2), Do("add", drain), Do("anon", Default), Do("tagged", drain)>>]

\* Two tags, one of which begins with the other; the longer one is added first.
Nested == [p \in Procs |->
  <<Do("add", scan2), Do("add", scan), Do("anon", Default), Do("tagged", scan)>>]
=============================================================================
