---------------------------- MODULE MCCortexWorker ----------------------------
EXTENDS CortexWorker
CONSTANTS t1, s1

MCFiled == {<<s1, t1>>}
===============================================================================
