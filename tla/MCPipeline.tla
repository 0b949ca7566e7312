---------------------------- MODULE MCPipeline ----------------------------
EXTENDS Pipeline
=============================================================================
