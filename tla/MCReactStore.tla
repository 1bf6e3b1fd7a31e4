------------------------------ MODULE MCReactStore ------------------------------
EXTENDS ReactStore
================================================================================
