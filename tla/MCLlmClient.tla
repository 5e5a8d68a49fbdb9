----------------------------- MODULE MCLlmClient -----------------------------
EXTENDS LlmClient, TLC
=============================================================================
