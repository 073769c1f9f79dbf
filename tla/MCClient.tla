------------------------------- MODULE MCClient -------------------------------
(* The configurations Client is checked with. *)
EXTENDS Client

Settings(n_standard, n_extended) ==
  [n_standard_channels |-> n_standard, n_extended_channels |-> n_extended,
   requires_standard_jobs |-> FALSE, has_port |-> TRUE,
   device_fits |-> TRUE, identity_fits |-> TRUE, multiplier |-> "+",
   cpu_usage_percent |-> "in", binary |-> FALSE]

\* The last one has a NaN for its multiplier, which passes too.
Valid == {Settings(2, 1), Settings(0, 2),
          [Settings(1, 0) EXCEPT !.requires_standard_jobs = TRUE, !.multiplier = "none"]}

\* Each breaks one rule of validate().
Invalid == {Settings(0, 0), [Settings(1, 1) EXCEPT !.requires_standard_jobs = TRUE],
            [Settings(1, 1) EXCEPT !.has_port = FALSE],
            [Settings(1, 1) EXCEPT !.device_fits = FALSE],
            [Settings(1, 1) EXCEPT !.identity_fits = FALSE],
            [Settings(1, 1) EXCEPT !.multiplier = "0"],
            [Settings(1, 1) EXCEPT !.cpu_usage_percent = "above"]}

\* Each of them, for the binary and for a program that embeds the library.
AllConfigs == {[c EXCEPT !.binary = b] : c \in Valid \cup Invalid, b \in BOOLEAN}

=============================================================================
