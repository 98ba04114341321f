------------------------------- MODULE MCBoot -------------------------------
EXTENDS Boot

Medium(base, copied, iso) ==
    [mountable |-> TRUE, image |-> base, livecd |-> copied, iso |-> iso]

MCMedia ==
    {[mountable |-> FALSE, image |-> "none", livecd |-> "none", iso |-> "none"]}
        \cup {Medium(base, copied, "none") :
                  base \in {"none", "bad", "good"}, copied \in {"none", "bad", "good"}}
        \cup {Medium("none", "none", iso) : iso \in {"noiso", "empty", "bad", "good"}}
        \cup {Medium("good", "good", "bad")}
=============================================================================
