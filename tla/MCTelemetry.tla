----------------------------- MODULE MCTelemetry -----------------------------
EXTENDS Telemetry

\* Two segments: one delays its requests, the other fails some of them.
MCPlan == <<"latency", "errors">>

\* All knobs at once: a request may then sleep, fail, fail to publish, or pass.
MCPayloads == {[latency |-> TRUE, error |-> TRUE, puberr |-> TRUE]}

==============================================================================
