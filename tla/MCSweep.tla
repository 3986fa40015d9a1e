------------------------------ MODULE MCSweep ------------------------------
(* Instances of LoadSweep for TLC: the scripts. *)
EXTENDS LoadSweep, TLC

Script(rounds, format, counts, pool, continuous) ==
    [rounds |-> rounds, format |-> format, counts |-> counts, pool |-> pool,
     continuous |-> continuous]

\* load_test_vllm, load_test_ollama, measure_inference and measure_chat_session,
\* with two levels and two turns.
Scripts ==
    {Script(<<1, 2>>, "sse", {"token"}, TRUE, TRUE)}
    \cup {Script(<<1, 2>>, "ndjson", {"token", "empty"}, TRUE, FALSE)}
    \cup {Script(<<1>>, f, {"token"}, FALSE, FALSE) : f \in {"sse", "ndjson"}}
    \cup {Script(<<1, 1>>, "sse", {"token"}, FALSE, FALSE)}

=============================================================================
