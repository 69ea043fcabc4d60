-------------------------- MODULE MCFileOperations --------------------------
\* FileOperations on the values the model checker uses.
EXTENDS FileOperations
============================================================================
