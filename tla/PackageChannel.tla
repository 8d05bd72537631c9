--------------------------- MODULE PackageChannel ---------------------------
(***************************************************************************)
(* What the package service promises to its users: the n-th request gets   *)
(* the n-th package that the other end of the connection sent, complete    *)
(* and unaltered, until the connection ends; from then on every request    *)
(* gets an error.  No request gets two answers, none is passed over.       *)
(***************************************************************************)
EXTENDS Naturals, Sequences

CONSTANTS Payload    \* the contents a package can have

VARIABLES sent,      \* the packages sent so far
          asked,     \* number of requests so far; requests are numbered from 1
          answers,   \* the requests answered with a package, in that order
          errors     \* the requests answered with an error, in that order

cvars == <<sent, asked, answers, errors>>

CInit ==
  /\ sent = <<>>
  /\ asked = 0
  /\ answers = <<>>
  /\ errors = <<>>

CSend ==
  /\ \E p \in Payload : sent' = Append(sent, p)
  /\ UNCHANGED <<asked, answers, errors>>

CAsk ==
  /\ asked' = asked + 1
  /\ UNCHANGED <<sent, answers, errors>>

\* The oldest request still open, and the oldest package nobody has.
NextAnswer == [req |-> Len(answers) + 1, msg |-> sent[Len(answers) + 1]]

\* Requests are answered in order; the request may be made in the same step.
CAnswer ==
  /\ errors = <<>>
  /\ Len(answers) < Len(sent)
  /\ asked' \in {asked, asked + 1}
  /\ Len(answers) < asked'
  /\ answers' = Append(answers, NextAnswer)
  /\ UNCHANGED <<sent, errors>>

CFail ==
  /\ asked' \in {asked, asked + 1}
  /\ Len(answers) + Len(errors) < asked'
  /\ errors' = Append(errors, Len(answers) + Len(errors) + 1)
  /\ UNCHANGED <<sent, answers>>

CNext == CSend \/ CAsk \/ CAnswer \/ CFail

CSpec == CInit /\ [][CNext]_cvars
=============================================================================
