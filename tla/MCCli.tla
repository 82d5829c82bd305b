-------------------------------- MODULE MCCli --------------------------------
(***************************************************************************)
(* An instance of Cli for TLC: one command line that is right, those that  *)
(* differ from it in one argument, at the limits and just beyond them, and *)
(* answers of the resolver with addresses that are private, repeated, or   *)
(* none, or differ in their scope only.                                    *)
(***************************************************************************)
EXTENDS Cli

Good ==
    [domain |-> <<<<"z">>, <<"z">>>>, txid |-> <<"0", "f">>, work_target |-> <<"0", "f">>,
     input_index |-> 0, roots_version |-> 1, mask |-> 7, validation_time |-> 1,
     port |-> 1, rate |-> 1, concurrency |-> Concurrency, connection_timeout |-> 1,
     overall_timeout |-> OverallTimeout, max_attempts |-> MaxAttempts,
     allow_private_addresses |-> FALSE, allow_unpinned_roots |-> FALSE]

Texts == {<<>>, <<"0">>, <<"f", "f">>, <<"0", "F">>, <<"0", "g">>, <<"0", "f", "0", "f">>}
Domains == {<<<<>>>>, <<<<"z">>, <<>>>>, <<<<>>, <<"z">>>>, <<<<"-", "z">>>>, <<<<"z", "-", "0">>>>,
            <<<<"z", "-">>>>, <<<<"Z">>>>, <<<<"z", "z", "z", "z">>>>,
            <<<<"z", "z", "z">>, <<"0">>>>, <<<<"z", "z", "z">>, <<"0", "0">>>>}

MCArguments ==
    {Good}
    \cup {[Good EXCEPT !.domain = d] : d \in Domains}
    \cup {[Good EXCEPT !.txid = t] : t \in Texts}
    \cup {[Good EXCEPT !.work_target = t] : t \in Texts}
    \cup {[Good EXCEPT !.input_index = i] : i \in {-1, MaxIndex, MaxIndex + 1}}
    \cup {[Good EXCEPT !.roots_version = v] : v \in {-1, 0, 2, MaxIndex + 1}}
    \cup {[Good EXCEPT !.mask = m] : m \in {0, 1, 8}}
    \cup {[Good EXCEPT !.validation_time = t] : t \in
              {-1, 0, MaxDate, MaxDate + 1, MaxValidationTime, MaxValidationTime + 1}}
    \cup {[Good EXCEPT !.port = n] : n \in {0, MaxPort, MaxPort + 1}}
    \cup {[Good EXCEPT !.rate = n] : n \in {-2, -1, 0, MaxFloat, MaxFloat + 1}}
    \cup {[Good EXCEPT !.concurrency = n] : n \in {0, MaxConcurrency + 1}}
    \cup {[Good EXCEPT !.connection_timeout = t] : t \in
              {-1, 0, NotFinite, MaxSeconds, MaxSeconds + 1}}
    \cup {[Good EXCEPT !.connection_timeout = t, !.overall_timeout = MaxSeconds + 1] : t \in
              {MaxSeconds, MaxSeconds + 1}}
    \cup {[Good EXCEPT !.overall_timeout = t] : t \in {-1, NotFinite}}
    \cup {[Good EXCEPT !.max_attempts = -1],
          [Good EXCEPT !.allow_private_addresses = TRUE],
          [Good EXCEPT !.allow_unpinned_roots = TRUE]}

MCBundles == {"pinned", "custom", "unusable"}

Address(family, ip, scope) == [family |-> family, ip |-> ip, scope |-> scope]
MCDnsAnswers ==
    LET v4 == Address("inet", "global4", 0)
        v6 == Address("inet6", "global6", 0)
        Link(scope) == Address("inet6", "link", scope)
        private == Address("inet", "private", 0)
        garbled == Address("inet6", "garbled", 0)
    IN  {<<>>, <<private>>, <<garbled>>, <<v4>>, <<v4, v4, v6>>, <<private, v4, v6>>,
         <<v6, Link(1), Link(2)>>, <<Link(1), garbled, Link(1)>>}
=============================================================================
