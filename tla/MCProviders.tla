----------------------------- MODULE MCProviders ----------------------------
(* The instance of Providers for TLC: one provider of each driver.         *)
EXTENDS Providers, TLC

CONSTANTS vllm, ollama, c1, a1, qwen, sdxl, none

DriverOf == [p \in Providers |-> IF p = vllm THEN "vllm" ELSE "ollama"]
ModelsOf == [p \in Providers |-> IF p = vllm THEN {qwen} ELSE {}]
\* Beside bytes the percentage of vLLM is little; Ollama may use half the memory.
VRAMOf == [p \in Providers |-> 4]
UsedBy == [p \in Providers |-> IF p = vllm THEN {0, 1} ELSE {0, 2}]
Wishes == {[vram |-> v, model |-> m, priority |-> 1] : v \in {0, 3}, m \in {qwen, sdxl, none}}
=============================================================================
