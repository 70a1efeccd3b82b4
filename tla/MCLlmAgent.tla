----------------------------- MODULE MCLlmAgent -----------------------------
(* A small instance of LlmAgent: the limits bind in every order.            *)
EXTENDS LlmAgent

MCResultSizes == {1, 3}
=============================================================================
