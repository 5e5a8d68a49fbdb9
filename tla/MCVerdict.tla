------------------------------ MODULE MCVerdict ------------------------------
EXTENDS Verdict

\* All gates on as by default; discovery mode; ultra-deep; every gate off.
AllGates == {"value_gate", "binding_gate", "chain_gate", "liveness",
             "refutation", "deepseek", "foundry"}
AllSettings == {AllGates, AllGates \cup {"soft"}, AllGates \cup {"ultra"},
                {"refutation", "deepseek", "foundry"}}
=============================================================================
