--------------------------- MODULE MCRegistration ---------------------------
\* Three registrations of two persons with two e-mail addresses and two account
\* numbers: a race, a second attempt after it, a call that meets a used number.
EXTENDS Registration, TLC

Symmetric ==
  Permutations(Attempts) \cup Permutations(Persons) \cup Permutations(Emails)
    \cup Permutations(Numbers)
=============================================================================
