-------------------------- MODULE MCBillingSession --------------------------
(* Small instances of BillingSession for TLC.                              *)
EXTENDS BillingSession, TLC

Profile(pref, playground, image, strict, force) ==
    [pref |-> pref, playground |-> playground, image |-> image,
     strict |-> strict, force |-> force]

\* Both fallbacks, a playground request, an image request, strict and
\* debt-admitting reserves.
MCProfiles ==
    {Profile("wallet_first", FALSE, FALSE, FALSE, FALSE),
     Profile("subscription_first", FALSE, FALSE, TRUE, TRUE),
     Profile("wallet_only", TRUE, FALSE, FALSE, TRUE),
     Profile("wallet_only", FALSE, TRUE, FALSE, FALSE)}

MCImageProfiles ==
    {Profile("wallet_only", FALSE, TRUE, FALSE, FALSE),
     Profile("subscription_only", FALSE, TRUE, FALSE, FALSE)}

MCQuotas == 0..2
MCWideQuotas == 0..3

Symmetry == Permutations(Requests)
=============================================================================
